--------------------------- MODULE KnowledgeProofs --------------------------
(* What the requests that read the shared data promise, each by itself and    *)
(* together: a question being prepared, a retrieval, a trace, a web search, a *)
(* tool's answer and the accounts, for any tools, plans, documents, pages,    *)
(* answers, budgets, users and logins.                                        *)
EXTENDS Knowledge, CallChainProofs, TLAPS, FiniteSetTheorems,
        WellFoundedInduction

-----------------------------------------------------------------------------
(* Induction, and folds from left to right.                                *)

LEMMA Least ==
  ASSUME NEW T, T \subseteq Nat, T # {}
  PROVE  \E x \in T : \A y \in T : x <= y
<1>1. PICK R : R = {p \in Nat \X Nat : p[1] < p[2]}
  OBVIOUS
<1>2. IsWellFoundedOn(R, Nat)
  BY <1>1, NatLessThanWellFounded DEF OpToRel
<1>3. PICK x \in T : \A y \in T : ~(<<y, x>> \in R)
  BY <1>2, WFMin, Zenon
<1>4. \A y \in T : ~(y < x)
  BY <1>1, <1>3
<1> QED
  BY <1>3, <1>4

LEMMA Induction ==
  ASSUME NEW S, S \subseteq Nat, 0 \in S, \A n \in S : n + 1 \in S
  PROVE  S = Nat
<1>1. SUFFICES ASSUME Nat \ S # {} PROVE FALSE
  OBVIOUS
<1>2. PICK x \in Nat \ S : \A y \in Nat \ S : x <= y
  BY <1>1, Least
<1>3. x # 0 /\ x - 1 \in Nat /\ ~(x <= x - 1)
  BY <1>2
<1>4. x - 1 \in S /\ (x - 1) + 1 = x
  BY <1>2, <1>3
<1> QED
  BY <1>2, <1>4

\* The values a fold takes on the sets of indices: g of what is folded so far and
\* the element with the largest index.
Folded(h, base, g, q, n) ==
  h = [s \in SUBSET (1..n) |->
         IF s = {} THEN base ELSE g[<<h[s \ {Max(s)}], q[Max(s)]>>]]

\* A set of numbers up to a bound has a largest one.
LEMMA LargestOf ==
  ASSUME NEW n \in Nat, NEW s \in SUBSET (1..n), s # {}
  PROVE  Max(s) \in s /\ \A k \in s : k <= Max(s)
<1>1. \E m \in s : \A k \in s : k <= m
  <2>1. PICK S : S = {i \in Nat : \A t \in SUBSET (1..i) : t # {} => \E m \in t : \A k \in t : k <= m}
    OBVIOUS
  <2>2. 0 \in S
    <3>1. \A t \in SUBSET (1..0) : t = {}
      OBVIOUS
    <3> QED
      BY <2>1, <3>1
  <2>3. ASSUME NEW i \in S PROVE i + 1 \in S
    <3>1. ASSUME NEW t \in SUBSET (1..(i + 1)), t # {} PROVE \E m \in t : \A k \in t : k <= m
      <4>1. CASE i + 1 \in t
        BY <2>1, <3>1, <4>1
      <4>2. CASE i + 1 \notin t
        <5>1. t \in SUBSET (1..i)
          BY <2>1, <3>1, <4>2
        <5> QED
          BY <2>1, <3>1, <5>1
      <4> QED
        BY <4>1, <4>2
    <3> QED
      BY <2>1, <3>1
  <2>4. S = Nat
    BY <2>1, <2>2, <2>3, Induction
  <2> QED
    BY <2>1, <2>4
<1> QED
  BY <1>1 DEF Max

LEMMA LargestIs ==
  ASSUME NEW n \in Nat, NEW s \in SUBSET (1..(n + 1)), n + 1 \in s
  PROVE  Max(s) = n + 1 /\ s \ {n + 1} \in SUBSET (1..n)
<1>1. Max(s) \in s /\ \A k \in s : k <= Max(s)
  <2>1. n + 1 \in Nat /\ s # {}
    OBVIOUS
  <2> QED
    BY <2>1, LargestOf
<1>2. Max(s) \in 1..(n + 1) /\ n + 1 <= Max(s)
  BY <1>1
<1>3. Max(s) = n + 1
  BY <1>2
<1>4. \A k \in s \ {n + 1} : k \in 1..n
  OBVIOUS
<1> QED
  BY <1>3, <1>4

LEMMA PrefixOf ==
  ASSUME NEW n \in Nat
  PROVE  /\ 1..0 = {}
         /\ \A k \in 1..n : /\ Max(1..k) = k /\ (1..k) \ {k} = 1..(k - 1)
                            /\ 1..k # {} /\ 1..k \in SUBSET (1..n)
<1>1. ASSUME NEW k \in 1..n
      PROVE  /\ Max(1..k) = k /\ (1..k) \ {k} = 1..(k - 1)
             /\ 1..k # {} /\ 1..k \in SUBSET (1..n)
  <2>1. k \in Nat /\ k \in 1..k /\ 1..k \in SUBSET (1..k)
    OBVIOUS
  <2>2. Max(1..k) \in 1..k /\ k <= Max(1..k)
    BY <2>1, LargestOf
  <2> QED
    BY <2>1, <2>2
<1> QED
  BY <1>1

LEMMA FoldExists ==
  ASSUME NEW R, NEW E, NEW base \in R, NEW g \in [R \X E -> R],
         NEW n \in Nat, NEW q \in [1..n -> E]
  PROVE  \E h \in [SUBSET (1..n) -> R] : Folded(h, base, g, q, n)
<1>1. PICK S : S = {m \in Nat : m <= n => \E h \in [SUBSET (1..m) -> R] : Folded(h, base, g, q, m)}
  OBVIOUS
<1>2. 0 \in S
  <2>1. PICK h : h = [s \in SUBSET (1..0) |-> base]
    OBVIOUS
  <2>2. \A s \in SUBSET (1..0) : s = {}
    OBVIOUS
  <2>3. h \in [SUBSET (1..0) -> R] /\ Folded(h, base, g, q, 0)
    BY <2>1, <2>2 DEF Folded
  <2> QED
    BY <1>1, <2>3
<1>3. ASSUME NEW m \in S PROVE m + 1 \in S
  <2>1. m \in Nat
    BY <1>1, Zenon
  <2>2. m + 1 \in Nat
    BY <2>1
  <2>3. SUFFICES ASSUME m + 1 <= n
                 PROVE  \E h \in [SUBSET (1..(m + 1)) -> R] : Folded(h, base, g, q, m + 1)
    BY <1>1, <2>2, Zenon
  <2>4. PICK f \in [SUBSET (1..m) -> R] : Folded(f, base, g, q, m)
    <3>1. m \in Nat /\ (m <= n => \E h \in [SUBSET (1..m) -> R] : Folded(h, base, g, q, m))
      BY <1>1, Zenon
    <3>2. m <= n
      BY <2>3, <3>1
    <3> QED
      BY <3>1, <3>2
  <2>5. m \in Nat /\ q[m + 1] \in E
    <3>1. m \in Nat
      BY <1>1, Zenon
    <3> QED
      BY <2>3, <3>1
  <2>6. PICK h : h = [s \in SUBSET (1..(m + 1)) |->
                        IF m + 1 \in s THEN g[<<f[s \ {m + 1}], q[m + 1]>>] ELSE f[s]]
    OBVIOUS
  <2>7. ASSUME NEW s \in SUBSET (1..(m + 1)), m + 1 \notin s PROVE s \in SUBSET (1..m)
    <3>1. \A k \in s : k \in 1..m
      BY <2>5, <2>7
    <3> QED
      BY <3>1
  <2>8. h \in [SUBSET (1..(m + 1)) -> R]
    <3>1. ASSUME NEW s \in SUBSET (1..(m + 1)) PROVE h[s] \in R
      <4>1. CASE m + 1 \in s
        <5>1. f[s \ {m + 1}] \in R
          BY <2>4, <2>5, <4>1, LargestIs
        <5>2. g[<<f[s \ {m + 1}], q[m + 1]>>] \in R
          BY <2>5, <5>1
        <5> QED
          BY <2>6, <4>1, <5>2
      <4>2. CASE m + 1 \notin s
        BY <2>4, <2>6, <2>7, <4>2
      <4> QED
        BY <4>1, <4>2
    <3> QED
      BY <2>6, <3>1
  <2>9. ASSUME NEW s \in SUBSET (1..(m + 1))
        PROVE  h[s] = IF s = {} THEN base ELSE g[<<h[s \ {Max(s)}], q[Max(s)]>>]
    <3>1. CASE m + 1 \in s
      <4>1. Max(s) = m + 1 /\ s \ {m + 1} \in SUBSET (1..m)
        BY <2>5, <3>1, LargestIs
      <4>2. m + 1 \notin s \ {m + 1} /\ s \ {m + 1} \in SUBSET (1..(m + 1))
        OBVIOUS
      <4>3. h[s \ {m + 1}] = f[s \ {m + 1}]
        BY <2>6, <4>2
      <4> QED
        BY <2>6, <3>1, <4>1, <4>3
    <3>2. CASE m + 1 \notin s
      <4>1. s \in SUBSET (1..m) /\ h[s] = f[s]
        BY <2>6, <2>7, <3>2
      <4>2. f[s] = IF s = {} THEN base ELSE g[<<f[s \ {Max(s)}], q[Max(s)]>>]
        BY <2>4, <4>1 DEF Folded
      <4>3. f[s \ {Max(s)}] = h[s \ {Max(s)}]
        BY <2>6, <3>2, <4>1
      <4> QED
        BY <4>1, <4>2, <4>3
    <3> QED
      BY <3>1, <3>2
  <2>10. Folded(h, base, g, q, m + 1)
    BY <2>8, <2>9 DEF Folded
  <2> QED
    BY <2>8, <2>10
<1>4. S = Nat
  <2>1. S \subseteq Nat
    BY <1>1, Zenon
  <2> QED
    BY <1>2, <1>3, <2>1, Induction
<1>5. n \in S
  BY <1>4
<1>6. n <= n
  OBVIOUS
<1> QED
  BY <1>1, <1>5, <1>6, Zenon
\* A function that goes on as g does wherever g says how.
Follows(f, R, g, q, n) ==
  /\ f[{}] \in R
  /\ \A s \in SUBSET (1..n) : s # {} /\ f[s \ {Max(s)}] \in R =>
        f[s] = g[<<f[s \ {Max(s)}], q[Max(s)]>>]

\* What the fold has made of each prefix.
Prefixed(v, f, g, q, n) ==
  /\ v[0] = f[{}] /\ v[n] = f[1..n]
  /\ \A k \in 1..n : v[k] = g[<<v[k - 1], q[k]>>]

LEMMA FoldSteps ==
  ASSUME NEW R, NEW E, NEW g \in [R \X E -> R],
         NEW n \in Nat, NEW q \in [1..n -> E], NEW f, Follows(f, R, g, q, n)
  PROVE  \E v \in [0..n -> R] : Prefixed(v, f, g, q, n)
<1>1. PICK v : v = [k \in 0..n |-> f[1..k]]
  OBVIOUS
<1>2. v[0] = f[{}] /\ v[n] = f[1..n]
  <2>1. v[n] = f[1..n] /\ v[0] = f[{}]
    BY <1>1, PrefixOf
  <2> QED
    BY <2>1
<1>3. ASSUME NEW k \in 1..n, v[k - 1] \in R PROVE v[k] = g[<<v[k - 1], q[k]>>]
  <2>1. v[k] = f[1..k] /\ v[k - 1] = f[1..(k - 1)]
    BY <1>1
  <2>2. /\ 1..k \in SUBSET (1..n) /\ 1..k # {} /\ Max(1..k) = k
        /\ (1..k) \ {k} = 1..(k - 1)
    BY PrefixOf
  <2> QED
    BY <1>3, <2>1, <2>2 DEF Follows
<1>4. \A k \in 0..n : v[k] \in R
  <2>1. PICK S : S = {k \in Nat : k <= n => v[k] \in R}
    OBVIOUS
  <2>2. 0 \in S
    BY <1>2, <2>1 DEF Follows
  <2>3. ASSUME NEW k \in S PROVE k + 1 \in S
    <3>1. SUFFICES ASSUME k + 1 <= n PROVE v[k + 1] \in R
      BY <2>1
    <3>2. k + 1 \in 1..n /\ (k + 1) - 1 = k /\ v[k] \in R
      BY <2>1, <3>1
    <3>3. v[k + 1] = g[<<v[k], q[k + 1]>>] /\ q[k + 1] \in E
      BY <1>3, <3>2
    <3> QED
      BY <3>2, <3>3
  <2>4. S = Nat
    BY <2>1, <2>2, <2>3, Induction
  <2> QED
    BY <2>1, <2>4
<1>5. v \in [0..n -> R]
  <2>1. \A k \in 0..n : f[1..k] \in R
    BY <1>1, <1>4
  <2>2. [k \in 0..n |-> f[1..k]] \in [0..n -> R]
    BY <2>1, Zenon
  <2> QED
    BY <1>1, <2>2, Zenon
<1>6. ASSUME NEW k \in 1..n PROVE v[k] = g[<<v[k - 1], q[k]>>]
  <2>1. k - 1 \in 0..n
    OBVIOUS
  <2> QED
    BY <1>3, <1>4, <2>1
<1> QED
  BY <1>2, <1>5, <1>6 DEF Prefixed

-----------------------------------------------------------------------------
(* Questions.                                                              *)

Block == [tool : Tools, result : BOOLEAN, size : Nat]

\* Which plan stands, and what the helper said of it.
PlanInv ==
  /\ phase \in {"new", "asked"} => ~failed /\ ~degraded
  /\ failed => degraded
  /\ phase \notin {"new", "asked"} =>
       /\ request.fixed => sources = request.plan
       /\ failed /\ ~request.fixed => "internal" \in sources
       /\ sources = {} => request.fixed \/ request.meta \/ ~failed
  /\ phase = "planned" =>
       /\ request.fixed => origin = "explicit"
       /\ ~request.fixed /\ ~request.meta => origin \in {"model", "fallback"}
       /\ origin = "fallback" => sources # {}
  /\ phase \notin {"new", "asked", "planned"} =>
       /\ sources = {} => request.fixed \/ request.meta \/ confident
       /\ degraded => offered = Tools

\* The calls made ahead so far are the first ones asked for.
PrefetchInv ==
  /\ phase \in {"new", "asked", "planned", "selected"} => blocks = << >>
  /\ Len(blocks) <= Len(request.prefetch)
  /\ \A i \in 1..Len(blocks) : request.prefetch[i].required => blocks[i].result
  /\ phase \in {"retrieve", "merge", "running"} => Len(blocks) = Len(request.prefetch)

LEMMA Prefetches ==
  ASSUME NEW q \in Request
  PROVE  /\ q.prefetch \in Seq(PrefetchCall) /\ q.plan \in Plans
         /\ q.fixed \in BOOLEAN /\ q.meta \in BOOLEAN
         /\ q.context \in BOOLEAN /\ q.user \in BOOLEAN
<1>1. q.prefetch \in UNION {[1..m -> PrefetchCall] : m \in 0..MaxPrefetch}
  BY DEF Request, BoundedSeq, SeqOf
<1>2. PICK m \in 0..MaxPrefetch : q.prefetch \in [1..m -> PrefetchCall]
  BY <1>1
<1>3. q.prefetch \in Seq(PrefetchCall)
  BY <1>2, QuestionAssumption
<1>4. /\ q.plan \in Plans /\ q.fixed \in BOOLEAN /\ q.meta \in BOOLEAN
      /\ q.context \in BOOLEAN /\ q.user \in BOOLEAN
  BY DEF Request
<1> QED
  BY <1>3, <1>4

QuestionType ==
  /\ QuestionTypeOK
  /\ blocks \in Seq(Block)

LEMMA QuestionTypeStart == ASSUME QuestionInit PROVE QuestionType
<1>1. << >> \in BoundedSeq(PrefetchCall, MaxPrefetch)
  BY QuestionAssumption DEF BoundedSeq, SeqOf
<1>2. request \in Request /\ blocks \in Seq(Block) /\ DOMAIN blocks = {}
  BY <1>1 DEF QuestionInit, Request, Plans
<1> QED
  BY <1>2 DEF QuestionInit, QuestionType, QuestionTypeOK, Phases, Plans, Sources, Origins

\* What is used of the limit after each of the blocks.
Use(used, b) == Smaller(used + b.size, Smaller(PreloadedBudget, ContextBudget))

LEMMA Uses ==
  ASSUME QuestionType
  PROVE  \E v \in [0..Len(blocks) -> Nat] :
           /\ v[0] = 0 /\ v[Len(blocks)] = Preloaded
           /\ \A k \in 1..Len(blocks) : v[k] = Use(v[k - 1], blocks[k])
<1>0. PICK n \in Nat : n = Len(blocks)
  BY DEF QuestionType
<1>1. PICK q : n = Len(blocks) /\ q = blocks
  BY <1>0
<1>2. q \in [1..n -> Block] /\ DOMAIN q = 1..n
  BY <1>1 DEF QuestionType
<1>3. \A u \in Nat, b \in Block : Use(u, b) \in Nat
  BY QuestionAssumption DEF Use, Smaller, Block
<1>4. PICK g \in [Nat \X Block -> Nat] : \A u \in Nat, b \in Block : g[<<u, b>>] = Use(u, b)
  <2>1. PICK g : g = [p \in Nat \X Block |-> Use(p[1], p[2])]
    OBVIOUS
  <2>2. \A p \in Nat \X Block : Use(p[1], p[2]) \in Nat
    BY <1>3
  <2> QED
    BY <2>1, <2>2
<1>5. PICK h \in [SUBSET (1..n) -> Nat] : Folded(h, 0, g, q, n)
  BY <1>2, <1>4, FoldExists
<1>6. h = [s \in SUBSET (1..n) |-> IF s = {} THEN 0 ELSE Use(h[s \ {Max(s)}], q[Max(s)])]
  <2>1. ASSUME NEW s \in SUBSET (1..n), s # {}
        PROVE  g[<<h[s \ {Max(s)}], q[Max(s)]>>] = Use(h[s \ {Max(s)}], q[Max(s)])
    <3>1. Max(s) \in 1..n
      BY <2>1, LargestOf
    <3>2. h[s \ {Max(s)}] \in Nat /\ q[Max(s)] \in Block
      BY <1>2, <1>5, <3>1
    <3> QED
      BY <1>4, <3>2
  <2> QED
    BY <1>5, <2>1 DEF Folded
<1>7. PICK f : /\ f = [s \in SUBSET (1..n) |-> IF s = {} THEN 0 ELSE Use(f[s \ {Max(s)}], q[Max(s)])]
               /\ Preloaded = f[1..n]
  <2>1. PICK f : f = CHOOSE i : i = [s \in SUBSET (1..n) |->
                                       IF s = {} THEN 0 ELSE Use(i[s \ {Max(s)}], q[Max(s)])]
    OBVIOUS
  <2>2. Preloaded = f[1..n]
    BY <1>1, <1>2, <2>1 DEF Preloaded, FoldLeft, MapThenFoldSet, Use
  <2> QED
    BY <1>6, <2>1, <2>2
<1>8. f[{}] = 0
  BY <1>7
<1>9. ASSUME NEW s \in SUBSET (1..n), s # {}, f[s \ {Max(s)}] \in Nat
      PROVE  f[s] = g[<<f[s \ {Max(s)}], q[Max(s)]>>]
  <2>1. Max(s) \in 1..n
    BY <1>9, LargestOf
  <2>2. q[Max(s)] \in Block
    BY <1>2, <2>1
  <2> QED
    BY <1>4, <1>7, <1>9, <2>2
<1>10. Follows(f, Nat, g, q, n)
  <2>1. \A s \in SUBSET (1..n) : s # {} /\ f[s \ {Max(s)}] \in Nat =>
            f[s] = g[<<f[s \ {Max(s)}], q[Max(s)]>>]
    BY <1>9
  <2>2. f[{}] \in Nat
    BY <1>8
  <2> QED
    BY <2>1, <2>2, Zenon DEF Follows
<1>11. PICK v \in [0..n -> Nat] : Prefixed(v, f, g, q, n)
  BY <1>2, <1>4, <1>10, FoldSteps
<1>12. ASSUME NEW k \in 1..n PROVE v[k] = Use(v[k - 1], q[k])
  <2>1. v[k - 1] \in Nat /\ q[k] \in Block
    BY <1>2
  <2> QED
    BY <1>4, <1>11, <2>1 DEF Prefixed
<1> QED
  BY <1>1, <1>7, <1>8, <1>11, <1>12 DEF Prefixed

LEMMA QuestionTypeStep ==
  ASSUME QuestionType, [QuestionNext]_questionVars
  PROVE  QuestionType'
<1>1. request \in Request /\ routed \subseteq Routed /\ Routed \subseteq Tools
  BY QuestionAssumption DEF QuestionType, QuestionTypeOK
<1>2. CASE Ask
  BY <1>2 DEF Ask, QuestionType, QuestionTypeOK, Phases
<1>3. CASE PlanExplicitly \/ PlanByRule \/ PlanByModel \/ PlanningFails
  <2>1. PICK plan \in Plans, from \in Origins, sure \in BOOLEAN, ids \in SUBSET Routed :
          Decide(plan, from, sure, ids)
    <3>1. {"internal"} \in Plans /\ {} \in Plans
      BY DEF Plans, Sources
    <3>2. CASE PlanExplicitly
      BY <1>1, <3>2, Prefetches DEF PlanExplicitly, Origins
    <3>3. CASE PlanByRule
      BY <3>1, <3>3 DEF PlanByRule, Origins
    <3>4. CASE PlanByModel
      BY <3>4 DEF PlanByModel, Origins
    <3>5. CASE PlanningFails
      BY <1>1, <3>1, <3>5, Prefetches DEF PlanningFails, Origins
    <3> QED
      BY <1>3, <3>2, <3>3, <3>4, <3>5
  <2>2. failed' \in BOOLEAN /\ degraded' \in BOOLEAN
    BY <1>3 DEF PlanExplicitly, PlanByRule, PlanByModel, PlanningFails, QuestionType, QuestionTypeOK
  <2> QED
    BY <2>1, <2>2 DEF Decide, QuestionType, QuestionTypeOK, Phases
<1>4. CASE TimeFails
  BY <1>4 DEF TimeFails, QuestionType, QuestionTypeOK
<1>5. CASE SelectTools
  <2>1. RoutedTools \subseteq Routed
    BY <1>1 DEF RoutedTools
  <2>2. Effective \in Plans
    BY DEF Effective, QuestionType, QuestionTypeOK, Plans, Sources
  <2> QED
    BY <1>1, <1>5, <2>1, <2>2 DEF SelectTools, QuestionType, QuestionTypeOK, Phases, Origins
<1>6. CASE PrefetchSkipped \/ PrefetchDone
  <2>1. request.prefetch \in Seq(PrefetchCall) /\ Len(blocks) \in Nat /\ Len(blocks) < Len(request.prefetch)
    BY <1>1, <1>6, Prefetches DEF PrefetchSkipped, PrefetchDone, QuestionType
  <2>2. NextCall \in PrefetchCall
    BY <2>1 DEF NextCall
  <2>3. \E b \in Block : blocks' = Append(blocks, b)
    BY <1>6, <2>2, QuestionAssumption DEF PrefetchSkipped, PrefetchDone, Block, PrefetchCall
  <2>4. blocks' \in Seq(Block)
    BY <2>3 DEF QuestionType
  <2>5. \A i \in DOMAIN blocks' : blocks'[i] \in Block
    BY <2>4
  <2> QED
    BY <1>6, <2>4, <2>5 DEF PrefetchSkipped, PrefetchDone, QuestionType, QuestionTypeOK, Block
<1>7. CASE PrefetchFails
  BY <1>7 DEF PrefetchFails, QuestionType, QuestionTypeOK, Phases
<1>8. CASE RecallMemories
  BY <1>8 DEF RecallMemories, QuestionType, QuestionTypeOK, Phases
<1>9. CASE Retrieved
  BY <1>9 DEF Retrieved, QuestionType, QuestionTypeOK, Phases
<1>10. CASE Merge
  <2>1. Preloaded \in Nat
    BY Uses DEF QuestionType
  <2>2. EvidenceKept \in Nat
    BY <2>1, QuestionAssumption DEF EvidenceKept, Room, Smaller, QuestionType, QuestionTypeOK
  <2>3. text' \in [preloaded : Nat, evidence : Nat, noWeb : BOOLEAN]
    BY <1>10, <2>1, <2>2 DEF Merge
  <2> QED
    BY <1>10, <2>3 DEF Merge, QuestionType, QuestionTypeOK, Phases
<1>11. CASE UNCHANGED questionVars
  BY <1>11 DEF questionVars, QuestionType, QuestionTypeOK
<1> QED
  BY <1>2, <1>3, <1>4, <1>5, <1>6, <1>7, <1>8, <1>9, <1>10, <1>11 DEF QuestionNext
LEMMA PlanStep ==
  ASSUME QuestionType, PlanInv, [QuestionNext]_questionVars
  PROVE  PlanInv'
<1>1. Routed \subseteq Tools /\ routed \subseteq Routed
  BY QuestionAssumption DEF QuestionType, QuestionTypeOK
<1>2. CASE Ask
  BY <1>2 DEF Ask, PlanInv
<1>3. CASE PlanExplicitly
  BY <1>3 DEF PlanExplicitly, Decide, PlanInv
<1>4. CASE PlanByRule
  BY <1>4 DEF PlanByRule, Decide, PlanInv
<1>5. CASE PlanByModel
  BY <1>5 DEF PlanByModel, Decide, PlanInv
<1>6. CASE PlanningFails
  BY <1>6 DEF PlanningFails, Decide, PlanInv
<1>7. CASE TimeFails
  BY <1>7 DEF TimeFails, PlanInv
<1>8. CASE SelectTools
  <2>1. degraded => RoutedTools = Routed
    BY DEF RoutedTools
  <2>2. degraded => offered' = Tools
    BY <1>1, <1>8, <2>1 DEF SelectTools
  <2>3. /\ phase = "planned" /\ phase' = "prefetch" /\ sources' = Effective
        /\ UNCHANGED <<request, confident, failed, degraded>>
    BY <1>8 DEF SelectTools
  <2>4. Effective = IF origin = "model" /\ sources = {} /\ ~confident THEN {"internal"} ELSE sources
    BY DEF Effective
  <2> QED
    BY <2>2, <2>3, <2>4 DEF PlanInv
<1>9. CASE PrefetchSkipped \/ PrefetchDone \/ PrefetchFails
  BY <1>9 DEF PrefetchSkipped, PrefetchDone, PrefetchFails, PlanInv
<1>10. CASE RecallMemories \/ Retrieved \/ Merge
  BY <1>10 DEF RecallMemories, Retrieved, Merge, PlanInv
<1>11. CASE UNCHANGED questionVars
  BY <1>11 DEF questionVars, PlanInv
<1> QED
  BY <1>2, <1>3, <1>4, <1>5, <1>6, <1>7, <1>8, <1>9, <1>10, <1>11 DEF QuestionNext

LEMMA PrefetchStep ==
  ASSUME QuestionType, PrefetchInv, [QuestionNext]_questionVars
  PROVE  PrefetchInv'
<1>1. /\ request.prefetch \in Seq(PrefetchCall) /\ Len(request.prefetch) \in Nat
      /\ blocks \in Seq(Block) /\ Len(blocks) \in Nat
  BY Prefetches DEF QuestionType, QuestionTypeOK
<1>2. CASE Ask
  <2>1. request' \in Request /\ blocks' = blocks /\ blocks = << >> /\ phase' = "asked"
    BY <1>2 DEF Ask, PrefetchInv
  <2>2. request'.prefetch \in Seq(PrefetchCall)
    BY <2>1, Prefetches
  <2>3. Len(request'.prefetch) \in Nat /\ Len(blocks') = 0
    BY <2>1, <2>2
  <2> QED
    BY <2>1, <2>3 DEF PrefetchInv
<1>3. CASE \/ PlanExplicitly \/ PlanByRule \/ PlanByModel \/ PlanningFails
           \/ TimeFails \/ SelectTools
  <2>1. /\ phase \in {"asked", "planned"} /\ phase' \in {"planned", "prefetch"}
        /\ UNCHANGED <<request, blocks>>
    BY <1>3 DEF PlanExplicitly, PlanByRule, PlanByModel, PlanningFails, Decide, TimeFails, SelectTools
  <2> QED
    BY <2>1 DEF PrefetchInv
<1>4. CASE PrefetchSkipped \/ PrefetchDone
  <2>1. /\ phase = "prefetch" /\ phase' = phase /\ request' = request
        /\ Len(blocks) < Len(request.prefetch)
    BY <1>4 DEF PrefetchSkipped, PrefetchDone
  <2>2. PICK n \in Nat : n = Len(blocks)
    BY <1>1
  <2>3. NextCall = request.prefetch[n + 1] /\ NextCall \in PrefetchCall
    BY <1>1, <2>1, <2>2 DEF NextCall
  <2>4. PICK b \in Block : /\ blocks' = Append(blocks, b)
                           /\ NextCall.required => b.result = TRUE
    <3>1. NextCall.tool \in Tools
      BY <2>3 DEF PrefetchCall
    <3>2. CASE PrefetchSkipped
      <4>1. PICK b : b = [tool |-> NextCall.tool, result |-> FALSE, size |-> 1]
        OBVIOUS
      <4>2. b \in Block
        BY <3>1, <4>1 DEF Block
      <4> QED
        BY <3>2, <4>1, <4>2 DEF PrefetchSkipped
    <3>3. CASE PrefetchDone
      <4>1. PICK m \in Sizes : blocks' = Append(blocks, [tool |-> NextCall.tool, result |-> TRUE, size |-> m])
        BY <3>3 DEF PrefetchDone
      <4>2. PICK b : b = [tool |-> NextCall.tool, result |-> TRUE, size |-> m]
        OBVIOUS
      <4>3. b \in Block /\ b.result = TRUE
        BY <3>1, <4>1, <4>2, QuestionAssumption DEF Block
      <4> QED
        BY <4>1, <4>2, <4>3
    <3> QED
      BY <1>4, <3>2, <3>3
  <2>5. /\ Len(blocks') = n + 1 /\ blocks'[n + 1] = b
        /\ \A i \in 1..n : blocks'[i] = blocks[i]
    BY <1>1, <2>2, <2>4
  <2>6. request.prefetch[n + 1].required => b.result
    BY <2>3, <2>4
  <2>7. \A i \in 1..(n + 1) : i \in 1..n \/ i = n + 1
    BY <2>2
  <2>8. \A i \in 1..(n + 1) : request.prefetch[i].required => blocks'[i].result
    BY <2>2, <2>5, <2>6, <2>7 DEF PrefetchInv
  <2>9. n + 1 <= Len(request.prefetch)
    BY <1>1, <2>1, <2>2
  <2> QED
    BY <2>1, <2>5, <2>8, <2>9 DEF PrefetchInv
<1>5. CASE PrefetchFails \/ Merge \/ RecallMemories \/ Retrieved
  <2>1. /\ UNCHANGED <<request, blocks>>
        /\ phase' \in {"failed", "running", "retrieve", "merge"}
        /\ phase' = "failed" \/ Len(blocks) = Len(request.prefetch)
    BY <1>5 DEF PrefetchFails, Merge, RecallMemories, Retrieved, PrefetchInv
  <2> QED
    BY <2>1 DEF PrefetchInv
<1>6. CASE UNCHANGED questionVars
  BY <1>6 DEF questionVars, PrefetchInv
<1> QED
  BY <1>2, <1>3, <1>4, <1>5, <1>6 DEF QuestionNext
\* What retrieval wrote and what was merged keep within their budgets.
TextInv ==
  /\ evidence <= ContextBudget
  /\ phase = "running" =>
       /\ text.preloaded <= PreloadedBudget
       /\ text.preloaded + text.evidence <= ContextBudget
       /\ evidence > 0 /\ ContextBudget > PreloadedBudget + 1 => text.evidence > 0

LEMMA PreloadedFits ==
  ASSUME QuestionType
  PROVE  Preloaded \in Nat /\ Preloaded <= PreloadedBudget /\ Preloaded <= ContextBudget
<1>1. PICK n \in Nat : n = Len(blocks)
  BY DEF QuestionType
<1>2. PICK v \in [0..n -> Nat] : /\ v[0] = 0 /\ v[n] = Preloaded
                                 /\ \A k \in 1..n : v[k] = Use(v[k - 1], blocks[k])
  BY <1>1, Uses
<1>3. CASE n = 0
  BY <1>2, <1>3, QuestionAssumption
<1>4. CASE n # 0
  <2>1. n \in 1..n /\ n - 1 \in 0..n
    BY <1>4
  <2>2. blocks[n] \in Block
    BY <1>1, <2>1 DEF QuestionType
  <2>3. v[n] = Use(v[n - 1], blocks[n]) /\ v[n - 1] \in Nat
    BY <1>2, <2>1
  <2> QED
    BY <1>2, <2>2, <2>3, QuestionAssumption DEF Use, Smaller, Block
<1> QED
  BY <1>3, <1>4

LEMMA TextStep ==
  ASSUME QuestionType, TextInv, [QuestionNext]_questionVars
  PROVE  TextInv'
<1>1. CASE \/ Ask \/ PlanExplicitly \/ PlanByRule \/ PlanByModel \/ PlanningFails \/ TimeFails
           \/ SelectTools \/ PrefetchSkipped \/ PrefetchDone \/ PrefetchFails \/ RecallMemories
  <2>1. phase' # "running" /\ evidence' = evidence
    BY <1>1 DEF Ask, PlanExplicitly, PlanByRule, PlanByModel, PlanningFails, Decide, TimeFails,
                SelectTools, PrefetchSkipped, PrefetchDone, PrefetchFails, RecallMemories
  <2> QED
    BY <2>1 DEF TextInv
<1>2. CASE Retrieved
  BY <1>2 DEF Retrieved, TextInv
<1>3. CASE Merge
  <2>1. /\ Preloaded \in Nat /\ Preloaded <= PreloadedBudget /\ Preloaded <= ContextBudget
        /\ evidence \in Nat /\ evidence <= ContextBudget
    BY PreloadedFits, QuestionAssumption DEF QuestionType, QuestionTypeOK, TextInv
  <2>2. /\ EvidenceKept \in Nat /\ Preloaded + EvidenceKept <= ContextBudget
        /\ evidence > 0 /\ ContextBudget > PreloadedBudget + 1 => EvidenceKept > 0
    BY <2>1, QuestionAssumption DEF EvidenceKept, Room, Smaller
  <2>3. text'.preloaded = Preloaded /\ text'.evidence = EvidenceKept /\ evidence' = evidence
    BY <1>3 DEF Merge
  <2> QED
    BY <2>1, <2>2, <2>3 DEF TextInv
<1>4. CASE UNCHANGED questionVars
  BY <1>4 DEF questionVars, TextInv
<1> QED
  BY <1>1, <1>2, <1>3, <1>4 DEF QuestionNext

QuestionInv == QuestionType /\ PlanInv /\ PrefetchInv /\ TextInv

LEMMA QuestionInvariant == QuestionSpec => []QuestionInv
<1>1. ASSUME QuestionInit PROVE QuestionInv
  <2>1. QuestionType
    BY <1>1, QuestionTypeStart
  <2>2. PlanInv /\ TextInv
    BY <1>1, QuestionAssumption DEF QuestionInit, PlanInv, TextInv
  <2>3. blocks = << >> /\ Len(blocks) = 0 /\ request.prefetch = << >> /\ phase = "new"
    BY <1>1 DEF QuestionInit
  <2>4. PrefetchInv
    BY <2>3 DEF PrefetchInv
  <2> QED
    BY <2>1, <2>2, <2>4 DEF QuestionInv
<1>2. ASSUME QuestionInv, [QuestionNext]_questionVars PROVE QuestionInv'
  BY <1>2, QuestionTypeStep, PlanStep, PrefetchStep, TextStep DEF QuestionInv
<1> QED
  BY <1>1, <1>2, PTL DEF QuestionSpec

\* A question's plan, tools, blocks and merged text are always of their types (QA.Ask).
THEOREM QuestionTyped == QuestionSpec => []QuestionTypeOK
<1>1. QuestionInv => QuestionTypeOK
  BY DEF QuestionInv, QuestionType
<1> QED
  BY <1>1, QuestionInvariant, PTL

\* A helper model that fails or is unsure withholds neither tools nor sources
\* from a run (analyzeQuestion, QA.Ask).
THEOREM NothingWithheld == QuestionSpec => []NothingIsWithheld
<1>1. PlanInv => NothingIsWithheld
  BY DEF PlanInv, NothingIsWithheld
<1>2. QuestionInv => NothingIsWithheld
  BY <1>1 DEF QuestionInv
<1> QED
  BY <1>2, QuestionInvariant, PTL

\* A run starts with the result of every required call, and with a text that is
\* within its budgets and leaves room for evidence (executePrefetch, mergePreloadedContext).
THEOREM CompleteAtStart == QuestionSpec => []StartsComplete
<1>1. ASSUME QuestionInv PROVE StartsComplete
  <2>1. SUFFICES ASSUME phase = "running" PROVE StartsComplete
    BY DEF StartsComplete
  <2>2. request.prefetch \in Seq(PrefetchCall)
    BY <1>1, Prefetches DEF QuestionInv, QuestionType, QuestionTypeOK
  <2>3. DOMAIN request.prefetch = 1..Len(blocks)
    BY <1>1, <2>1, <2>2 DEF QuestionInv, PrefetchInv
  <2>4. \A i \in DOMAIN request.prefetch : request.prefetch[i].required => blocks[i].result
    BY <1>1, <2>3 DEF QuestionInv, PrefetchInv
  <2> QED
    BY <1>1, <2>1, <2>4 DEF QuestionInv, TextInv, StartsComplete
<1>2. QuestionInv => StartsComplete
  BY <1>1
<1> QED
  BY <1>2, QuestionInvariant, PTL
-----------------------------------------------------------------------------
(* Accounts.                                                               *)

RoleNaming == [RoleIds -> RoleNames \cup {Nobody, Deleted}]

Attempt ==
  [at : {"idle", "insert", "read", "role", "commit"},
   uid : Uids \cup {Nobody}, email : Emails \cup {Nobody}, seen : SUBSET User,
   names : RoleNaming \cup {<< >>}, held : SUBSET (Ids \X RoleIds), row : SUBSET User,
   grant : SUBSET (Ids \X RoleIds), user : Ids \cup {Nobody}]

\* A request by itself: it writes one row at most, and grants a role last.
WellFormed(a) ==
  /\ a \in Attempt
  /\ a.row = {} \/ \E v \in User : a.row = {v}
  /\ a.at = "idle" => a = Idle
  /\ a.at = "insert" => a.row = {}
  /\ a.at # "commit" => a.grant = {}
  /\ a.at # "idle" => a.names \in RoleNaming

\* Two rows may be committed side by side.
Apart(u, v) ==
  /\ u.id # v.id
  /\ u.email # v.email \/ u.email = Nobody
  /\ u.uid # v.uid \/ u.uid = Nobody

\* The row a request writes replaces the row of one account at most, whose
\* identity and rights it keeps.
RowFits(a, S) ==
  \A v \in a.row, u \in S :
    /\ u.id = v.id => u.uid = v.uid /\ u.admin = v.admin
    /\ u.id # v.id => Apart(u, v)

RowsApart(a, b) == \A v \in a.row, w \in b.row : Apart(v, w)

Founded(a, S) == \A v \in a.row : v.admin \/ S # {}

\* What its snapshot shows is still so.
Remembers(a, S) ==
  /\ \A s \in a.seen : \E u \in S : u.id = s.id /\ u.uid = s.uid /\ u.admin = s.admin
  /\ \A p \in a.held : \E u \in S : u.id = p[1]
  /\ \A p \in a.grant : \E u \in S \cup a.row : u.id = p[1]

Sight(a) == a.row \cup {u \in a.seen : \A v \in a.row : v.id # u.id}

\* The account it reads back is the one it wrote.
Knows(a) ==
  /\ \A v \in a.row : v.uid = a.uid \/ \A s \in a.seen : s.uid # a.uid
  /\ a.at \in {"role", "commit"} =>
       /\ \A v \in a.row : a.user = v.id
       /\ \E v \in Sight(a) : a.user = v.id

\* While nobody changes roles it sees them as they are, and a new account is
\* granted those it needs.
Current(a) ==
  /\ a.at # "idle" => up
  /\ ~edited /\ a.at # "idle" => a.names = roles
  /\ ~edited /\ a.at = "commit" =>
       \A v \in a.row : (\A u \in users : u.id # v.id) =>
         /\ \E i \in RoleIds : <<v.id, i>> \in a.grant
         /\ v.admin => \A i \in Named(roles, "admin") : <<v.id, i>> \in a.grant

Fine(l, a) ==
  /\ WellFormed(a) /\ Knows(a) /\ Current(a)
  /\ RowFits(a, users) /\ Founded(a, users) /\ Remembers(a, users)
  /\ \A m \in Logins \ {l} : RowsApart(a, login[m])

LoginInv ==
  /\ login \in [Logins -> Attempt]
  /\ \A l \in Logins : Fine(l, login[l])

TableInv ==
  /\ up \in BOOLEAN /\ edited \in BOOLEAN
  /\ starts \in 0..MaxStarts /\ edits \in 0..MaxEdits
  /\ users \subseteq User /\ roles \in RoleNaming /\ holds \subseteq Ids \X RoleIds
  /\ \A u, v \in users : u # v => Apart(u, v)
  /\ users # {} => \E u \in users : u.admin
  /\ \A p \in holds : \E u \in users : u.id = p[1]

\* The roles that were given an identifier.
Given(names) == {i \in RoleIds : names[i] # Nobody}

Missing(names, n) == IF Named(names, n) = {} THEN 1 ELSE 0

\* There is an identifier for a system role that is missing, and while nobody
\* changes roles every account has what it needs.
RoleInv ==
  /\ Cardinality(Given(roles)) + Missing(roles, "admin") + Missing(roles, "user") <= edits + 2
  /\ up /\ ~edited =>
       /\ Named(roles, "admin") # {} /\ Named(roles, "user") # {}
       /\ \A u \in users :
            /\ \E i \in RoleIds : <<u.id, i>> \in holds
            /\ u.admin => \A i \in Named(roles, "admin") : <<u.id, i>> \in holds

AccountInv == TableInv /\ LoginInv /\ RoleInv

LEMMA IdleAlone ==
  /\ Idle \in Attempt /\ Idle.at = "idle" /\ Idle.row = {} /\ WellFormed(Idle) /\ Knows(Idle)
  /\ \A S : RowFits(Idle, S) /\ Founded(Idle, S) /\ Remembers(Idle, S)
<1>1. PICK a : a = Idle
  OBVIOUS
<1>2. /\ a.at = "idle" /\ a.uid = Nobody /\ a.email = Nobody /\ a.seen = {} /\ a.names = << >>
      /\ a.held = {} /\ a.row = {} /\ a.grant = {} /\ a.user = Nobody
  BY <1>1 DEF Idle
<1>3. a \in Attempt
  BY <1>1, <1>2 DEF Idle, Attempt
<1>4. WellFormed(a) /\ Knows(a)
  BY <1>1, <1>2, <1>3 DEF WellFormed, Knows
<1>5. \A S : RowFits(a, S) /\ Founded(a, S) /\ Remembers(a, S)
  BY <1>2 DEF RowFits, Founded, Remembers
<1> QED
  BY <1>1, <1>2, <1>3, <1>4, <1>5

LEMMA IdleIsFine == ASSUME NEW l \in Logins PROVE Fine(l, Idle)
<1>1. Current(Idle) /\ \A m \in Logins \ {l} : RowsApart(Idle, login[m])
  BY IdleAlone DEF Current, RowsApart
<1> QED
  BY <1>1, IdleAlone DEF Fine

\* A request that goes on to a fine state leaves the others as they are.
LEMMA GoesOn ==
  ASSUME AccountInv, NEW l \in Logins, NEW s, Fine(l, s), Goto(l, s),
         UNCHANGED <<up, starts, tables, edits, edited>>
  PROVE  AccountInv'
<1>1. /\ login \in [Logins -> Attempt] /\ s \in Attempt
      /\ login' = [login EXCEPT ![l] = s]
  BY DEF AccountInv, LoginInv, Fine, WellFormed, Goto
<1>2. login' \in [Logins -> Attempt] /\ login'[l] = s /\ \A m \in Logins \ {l} : login'[m] = login[m]
  BY <1>1
<1>3. /\ up' = up /\ edited' = edited /\ starts' = starts /\ edits' = edits
      /\ users' = users /\ roles' = roles /\ holds' = holds
  BY DEF tables
<1>4. ASSUME NEW m \in Logins PROVE Fine(m, login[m])'
  <2>1. PICK a : a = login'[m]
    OBVIOUS
  <2>2. /\ WellFormed(a) /\ Knows(a) /\ Current(a)
        /\ RowFits(a, users) /\ Founded(a, users) /\ Remembers(a, users)
    <3>1. Fine(m, a)
      BY <1>2, <2>1 DEF AccountInv, LoginInv
    <3> QED
      BY <3>1 DEF Fine
  <2>3. ASSUME NEW k \in Logins \ {m} PROVE RowsApart(a, login'[k])
    <3>1. CASE m = l
      BY <1>2, <2>1, <2>3, <3>1 DEF Fine
    <3>2. CASE k = l
      <4>1. RowsApart(s, login[m]) /\ a = login[m] /\ login'[k] = s
        BY <1>2, <2>1, <2>3, <3>2 DEF Fine
      <4> QED
        BY <4>1 DEF RowsApart, Apart
    <3>3. CASE m # l /\ k # l
      BY <1>2, <2>1, <2>3, <3>3 DEF AccountInv, LoginInv, Fine
    <3> QED
      BY <3>1, <3>2, <3>3
  <2>4. (Current(login[m]))'
    BY <1>3, <2>1, <2>2 DEF Current, Named
  <2> QED
    BY <1>3, <2>1, <2>2, <2>3, <2>4 DEF Fine
<1>5. LoginInv'
  BY <1>2, <1>4 DEF LoginInv
<1>6. TableInv'
  BY <1>3 DEF AccountInv, TableInv
<1>7. RoleInv'
  BY <1>3 DEF AccountInv, RoleInv, Given, Missing, Named
<1> QED
  BY <1>5, <1>6, <1>7 DEF AccountInv
LEMMA BeginStep ==
  ASSUME AccountInv, NEW l \in Logins, NEW uid \in Uids \cup {Nobody},
         NEW email \in Emails \cup {Nobody}, up, Begin(l, uid, email),
         UNCHANGED <<up, starts, tables, edits, edited>>
  PROVE  AccountInv'
<1>1. PICK s : s = [Idle EXCEPT !.at = "insert", !.uid = uid, !.email = email,
                                !.seen = users, !.names = roles, !.held = holds]
  OBVIOUS
<1>2. /\ s.at = "insert" /\ s.uid = uid /\ s.email = email /\ s.seen = users /\ s.names = roles
      /\ s.held = holds /\ s.row = {} /\ s.grant = {} /\ s.user = Nobody
  BY <1>1 DEF Idle
<1>3. TableInv
  BY DEF AccountInv
<1>4. s \in Attempt
  BY <1>1, <1>3 DEF Idle, Attempt, TableInv
<1>5. WellFormed(s) /\ Knows(s) /\ Current(s)
  BY <1>2, <1>3, <1>4 DEF WellFormed, Knows, Current, TableInv
<1>6. RowFits(s, users) /\ Founded(s, users) /\ \A m \in Logins \ {l} : RowsApart(s, login[m])
  BY <1>2 DEF RowFits, Founded, RowsApart
<1>7. Remembers(s, users)
  BY <1>2, <1>3 DEF Remembers, TableInv
<1>8. Fine(l, s) /\ Goto(l, s)
  BY <1>1, <1>5, <1>6, <1>7 DEF Fine, Begin
<1> QED
  BY <1>8, GoesOn

LEMMA InsertStep ==
  ASSUME AccountInv, NEW l \in Logins, Insert(l)
  PROVE  AccountInv'
<1>1. PICK a : a = login[l]
  OBVIOUS
<1>2. Fine(l, a) /\ a \in Attempt /\ a.at = "insert" /\ a.row = {} /\ a.grant = {}
  BY <1>1 DEF AccountInv, LoginInv, Fine, WellFormed, Insert
<1>3. PICK id \in NewId :
        Goto(l, [login[l] EXCEPT
                   !.row = {[id |-> id, uid |-> login[l].uid, email |-> login[l].email,
                             admin |-> FirstUserIsAdmin(l)]},
                   !.at = "read"])
  BY DEF Insert
<1>4. PICK admin \in BOOLEAN : (admin <=> a.seen = {}) /\ FirstUserIsAdmin(l) = admin
  BY <1>1 DEF FirstUserIsAdmin
<1>5. PICK v : v = [id |-> id, uid |-> a.uid, email |-> a.email, admin |-> admin]
  OBVIOUS
<1>6. PICK s : s = [a EXCEPT !.row = {v}, !.at = "read"]
  OBVIOUS
<1>7. Goto(l, s)
  BY <1>1, <1>3, <1>4, <1>5, <1>6
<1>8. /\ s.at = "read" /\ s.row = {v} /\ s.uid = a.uid /\ s.email = a.email /\ s.seen = a.seen
      /\ s.names = a.names /\ s.held = a.held /\ s.grant = {}
  BY <1>2, <1>6 DEF Attempt
<1>9. /\ id \in Ids /\ \A u \in users : u.id # id
      /\ \A m \in Logins : \A w \in login[m].row : w.id # id
  BY <1>3 DEF NewId
<1>10. v \in User /\ v.id = id /\ v.uid = a.uid /\ v.email = a.email /\ v.admin = admin
  BY <1>2, <1>5, <1>9 DEF User, Attempt
<1>11. s \in Attempt
  BY <1>2, <1>6, <1>10 DEF Attempt
<1>12. WellFormed(s) /\ Knows(s) /\ Current(s)
  BY <1>2, <1>8, <1>10, <1>11 DEF WellFormed, Knows, Current, Fine
<1>13. RowFits(s, users)
  <2>1. \A u \in users : ~Same(a.uid, u) /\ ~SameEmail(a.email, u)
    BY <1>1 DEF Insert
  <2> QED
    BY <1>8, <1>9, <1>10, <2>1 DEF RowFits, Apart, Same, SameEmail
<1>14. ASSUME NEW m \in Logins \ {l} PROVE RowsApart(s, login[m])
  <2>1. \A w \in login[m].row : ~Same(a.uid, w) /\ ~SameEmail(a.email, w)
    BY <1>1 DEF Insert, Blocked, Locked
  <2> QED
    BY <1>8, <1>9, <1>10, <2>1 DEF RowsApart, Apart, Same, SameEmail
<1>15. Remembers(s, users)
  BY <1>2, <1>8 DEF Fine, Remembers
<1>16. Founded(s, users)
  BY <1>4, <1>8, <1>10, <1>15 DEF Founded, Remembers
<1>17. Fine(l, s) /\ UNCHANGED <<up, starts, tables, edits, edited>>
  BY <1>12, <1>13, <1>14, <1>15, <1>16 DEF Fine, Insert
<1> QED
  BY <1>7, <1>17, GoesOn

LEMMA UpdateStep ==
  ASSUME AccountInv, NEW l \in Logins, Update(l)
  PROVE  AccountInv'
<1>1. PICK a : a = login[l]
  OBVIOUS
<1>2. Fine(l, a) /\ a \in Attempt /\ a.at = "insert" /\ a.row = {} /\ a.grant = {}
  BY <1>1 DEF AccountInv, LoginInv, Fine, WellFormed, Update
<1>3. PICK u \in users :
        /\ \/ Same(a.uid, u)
           \/ SameEmail(a.email, u) /\ ~\E v \in users : Same(a.uid, v)
        /\ \A v \in users \ {u} : ~SameEmail(a.email, v)
        /\ \E changed \in {c \in BOOLEAN : u.email # a.email => c} :
            Goto(l, [login[l] EXCEPT
                       !.row = IF changed THEN {[u EXCEPT !.email = a.email]} ELSE {},
                       !.at = "read"])
  BY <1>1 DEF Update
<1>4. PICK v : v = [u EXCEPT !.email = a.email]
  OBVIOUS
<1>5. PICK row : row \in {{}, {v}} /\ Goto(l, [login[l] EXCEPT !.row = row, !.at = "read"])
  BY <1>3, <1>4
<1>6. PICK s : s = [a EXCEPT !.row = row, !.at = "read"]
  OBVIOUS
<1>7. Goto(l, s)
  BY <1>1, <1>5, <1>6
<1>8. /\ s.at = "read" /\ s.row = row /\ s.uid = a.uid /\ s.email = a.email /\ s.seen = a.seen
      /\ s.names = a.names /\ s.held = a.held /\ s.grant = {}
  BY <1>2, <1>6 DEF Attempt
<1>9. TableInv /\ u \in User
  BY DEF AccountInv, TableInv
<1>10. v \in User /\ v.id = u.id /\ v.uid = u.uid /\ v.email = a.email /\ v.admin = u.admin
  BY <1>2, <1>4, <1>9 DEF User, Attempt
<1>11. s \in Attempt
  BY <1>2, <1>5, <1>6, <1>10 DEF Attempt
<1>12. Remembers(s, users)
  BY <1>2, <1>8 DEF Fine, Remembers
<1>13. v.uid = a.uid \/ \A q \in s.seen : q.uid # a.uid
  <2>1. CASE Same(a.uid, u)
    BY <1>10, <2>1 DEF Same
  <2>2. CASE ~\E w \in users : Same(a.uid, w)
    <3>1. \A w \in users : w.uid # a.uid
      BY <1>1, <2>2 DEF Same, Update
    <3> QED
      BY <1>12, <3>1 DEF Remembers
  <2> QED
    BY <1>3, <2>1, <2>2
<1>14. WellFormed(s) /\ Knows(s) /\ Current(s)
  BY <1>2, <1>5, <1>8, <1>10, <1>11, <1>13 DEF WellFormed, Knows, Current, Fine
<1>15. RowFits(s, users)
  <2>1. ASSUME NEW w \in users
        PROVE  /\ w.id = v.id => w.uid = v.uid /\ w.admin = v.admin
               /\ w.id # v.id => Apart(w, v)
    <3>1. w # u => Apart(w, u) /\ ~SameEmail(a.email, w)
      BY <1>3, <1>9 DEF TableInv
    <3> QED
      BY <1>10, <3>1 DEF Apart, SameEmail
  <2> QED
    BY <1>5, <1>8, <2>1 DEF RowFits
<1>16. ASSUME NEW m \in Logins \ {l} PROVE RowsApart(s, login[m])
  <2>1. \A w \in Locked(m) : ~Same(a.uid, w) /\ ~SameEmail(a.email, w)
    BY <1>1 DEF Update, Blocked
  <2>2. u \notin Locked(m)
    BY <1>3, <2>1
  <2>3. ASSUME NEW w \in login[m].row PROVE Apart(v, w)
    <3>1. w.id # u.id /\ ~SameEmail(a.email, w)
      BY <2>1, <2>2 DEF Locked
    <3>2. Apart(u, w)
      BY <3>1 DEF AccountInv, LoginInv, Fine, RowFits
    <3> QED
      BY <1>10, <3>1, <3>2 DEF Apart, SameEmail
  <2> QED
    BY <1>5, <1>8, <2>3 DEF RowsApart
<1>17. Founded(s, users)
  BY <1>3 DEF Founded
<1>18. Fine(l, s) /\ UNCHANGED <<up, starts, tables, edits, edited>>
  BY <1>12, <1>14, <1>15, <1>16, <1>17 DEF Fine, Update
<1> QED
  BY <1>7, <1>18, GoesOn
LEMMA ReadBackStep ==
  ASSUME AccountInv, NEW l \in Logins, ReadBack(l)
  PROVE  AccountInv'
<1>1. PICK a : a = login[l]
  OBVIOUS
<1>2. /\ Fine(l, a) /\ a \in Attempt /\ a.at = "read" /\ a.grant = {}
      /\ a.row = {} \/ \E v \in User : a.row = {v}
  BY <1>1 DEF AccountInv, LoginInv, Fine, WellFormed, ReadBack
<1>3. UNCHANGED <<up, starts, tables, edits, edited>>
  BY DEF ReadBack
<1>4. CASE Goto(l, Idle)
  BY <1>3, <1>4, IdleIsFine, GoesOn
<1>5. CASE ~Goto(l, Idle)
  <2>1. Visible(l) = Sight(a)
    BY <1>1 DEF Visible, Sight
  <2>2. PICK u \in IF a.uid = Nobody THEN a.row ELSE {x \in Sight(a) : x.uid = a.uid} :
          Goto(l, [login[l] EXCEPT !.user = u.id, !.at = "role"])
    BY <1>1, <1>5, <2>1 DEF ReadBack, Ends
  <2>3. u \in Sight(a) /\ u \in User
    BY <1>2, <2>2 DEF Sight, Attempt
  <2>4. PICK s : s = [a EXCEPT !.user = u.id, !.at = "role"]
    OBVIOUS
  <2>5. /\ s.at = "role" /\ s.row = a.row /\ s.uid = a.uid /\ s.email = a.email /\ s.seen = a.seen
        /\ s.names = a.names /\ s.held = a.held /\ s.grant = {} /\ s.user = u.id
    BY <1>2, <2>4 DEF Attempt
  <2>6. s \in Attempt
    BY <1>2, <2>3, <2>4 DEF Attempt, User
  <2>7. ASSUME NEW v \in a.row PROVE u.id = v.id
    <3>1. a.row = {v}
      BY <1>2, <2>7
    <3>2. CASE u \in a.row
      BY <3>1, <3>2
    <3>3. CASE u \notin a.row
      <4>1. u \in a.seen /\ a.uid # Nobody /\ u.uid = a.uid
        BY <2>2, <2>3, <3>3 DEF Sight
      <4>2. v.uid = a.uid
        BY <1>2, <2>7, <4>1 DEF Fine, Knows
      <4>3. PICK w \in users : w.id = u.id /\ w.uid = u.uid
        BY <1>2, <4>1 DEF Fine, Remembers
      <4>4. w.id # v.id => Apart(w, v)
        BY <1>2, <2>7, <4>3 DEF Fine, RowFits
      <4> QED
        BY <4>1, <4>2, <4>3, <4>4 DEF Apart
    <3> QED
      BY <3>2, <3>3
  <2>8. Knows(s)
    <3>1. Sight(s) = Sight(a)
      BY <2>5 DEF Sight
    <3> QED
      BY <1>2, <2>3, <2>5, <2>7, <3>1 DEF Knows, Fine
  <2>9. WellFormed(s) /\ Current(s)
    BY <1>2, <2>5, <2>6 DEF WellFormed, Current, Fine
  <2>10. RowFits(s, users) /\ Founded(s, users) /\ Remembers(s, users)
    BY <1>2, <2>5 DEF Fine, RowFits, Founded, Remembers
  <2>11. \A m \in Logins \ {l} : RowsApart(s, login[m])
    BY <1>2, <2>5 DEF Fine, RowsApart
  <2>12. Fine(l, s)
    BY <2>8, <2>9, <2>10, <2>11 DEF Fine
  <2>13. Goto(l, s)
    BY <1>1, <2>2, <2>4
  <2> QED
    BY <1>3, <2>12, <2>13, GoesOn
<1> QED
  BY <1>4, <1>5

LEMMA HeldRoles ==
  ASSUME NEW pairs \in SUBSET (Ids \X RoleIds), NEW id
  PROVE  \A i \in RoleIds : i \in RolesHeld(id, pairs) <=> <<id, i>> \in pairs
<1>1. ASSUME NEW i \in RoleIds PROVE i \in RolesHeld(id, pairs) <=> <<id, i>> \in pairs
  <2>1. ASSUME i \in RolesHeld(id, pairs) PROVE <<id, i>> \in pairs
    <3>1. PICK p \in pairs : p[1] = id /\ p[2] = i
      BY <2>1 DEF RolesHeld
    <3>2. p = <<p[1], p[2]>>
      OBVIOUS
    <3> QED
      BY <3>1, <3>2
  <2>2. ASSUME <<id, i>> \in pairs PROVE i \in RolesHeld(id, pairs)
    <3>1. <<id, i>>[1] = id /\ <<id, i>>[2] = i
      OBVIOUS
    <3> QED
      BY <2>2, <3>1 DEF RolesHeld
  <2> QED
    BY <2>1, <2>2
<1> QED
  BY <1>1

LEMMA RolesHeldIn ==
  ASSUME NEW pairs \in SUBSET (Ids \X RoleIds), NEW id
  PROVE  RolesHeld(id, pairs) \subseteq RoleIds
BY DEF RolesHeld

LEMMA RoleStep ==
  ASSUME AccountInv, NEW l \in Logins, AssignSystemRole(l)
  PROVE  AccountInv'
<1>1. PICK a : a = login[l]
  OBVIOUS
<1>2. /\ Fine(l, a) /\ a \in Attempt /\ a.at = "role" /\ a.grant = {} /\ a.names \in RoleNaming
      /\ a.row = {} \/ \E v \in User : a.row = {v}
  BY <1>1 DEF AccountInv, LoginInv, Fine, WellFormed, AssignSystemRole
<1>3. UNCHANGED <<up, starts, tables, edits, edited>>
  BY DEF AssignSystemRole
<1>4. Visible(l) = Sight(a)
  BY <1>1 DEF Visible, Sight
<1>5. PICK me : me = CHOOSE u \in Visible(l) : u.id = login[l].user
  OBVIOUS
<1>6. me \in Sight(a) /\ me.id = a.user
  <2>1. \E u \in Visible(l) : u.id = login[l].user
    BY <1>1, <1>2, <1>4 DEF Fine, Knows
  <2>2. me \in Visible(l) /\ me.id = login[l].user
    BY <1>5, <2>1
  <2> QED
    BY <1>1, <1>4, <2>2
<1>7. me \in User
  BY <1>2, <1>6 DEF Sight, Attempt
<1>8. PICK role : role = Named(a.names, IF me.admin THEN "admin" ELSE "user")
  OBVIOUS
<1>9. PICK next : next = [a EXCEPT !.at = "commit"]
  OBVIOUS
<1>10. PICK gift : gift = {<<me.id, i>> : i \in role \cap Live(roles)}
  OBVIOUS
<1>11. \/ Ends(l)
       \/ Goto(l, next) /\ a.uid # Nobody /\ ~me.admin /\ RolesHeld(me.id, a.held) # {}
       \/ role # {} /\ Goto(l, [next EXCEPT !.grant = gift])
  <2>1. \/ Ends(l)
        \/ /\ Goto(l, [login[l] EXCEPT !.at = "commit"])
           /\ login[l].uid # Nobody /\ ~me.admin /\ RolesHeld(me.id, login[l].held) # {}
        \/ /\ Named(login[l].names, IF me.admin THEN "admin" ELSE "user") # {}
           /\ Goto(l, [[login[l] EXCEPT !.at = "commit"] EXCEPT
                 !.grant = {<<me.id, i>> : i \in Named(login[l].names, IF me.admin THEN "admin" ELSE "user")
                                                \cap Live(roles)}])
    BY <1>5, Zenon DEF AssignSystemRole
  <2> QED
    BY <1>1, <1>8, <1>9, <1>10, <2>1
<1>12. CASE Ends(l)
  BY <1>3, <1>12, IdleIsFine, GoesOn DEF Ends
<1>13. CASE ~Ends(l)
  <2>1. PICK grant : /\ Goto(l, [next EXCEPT !.grant = grant])
                     /\ \/ /\ grant = {} /\ a.uid # Nobody
                           /\ ~me.admin /\ RolesHeld(me.id, a.held) # {}
                        \/ grant = gift /\ role # {}
    <3>1. next = [next EXCEPT !.grant = {}]
      BY <1>2, <1>9 DEF Attempt
    <3> QED
      BY <1>11, <1>13, <3>1
  <2>2. PICK s : s = [a EXCEPT !.at = "commit", !.grant = grant]
    OBVIOUS
  <2>3. Goto(l, s)
    <3>1. [next EXCEPT !.grant = grant] = s
      BY <1>2, <1>9, <2>2 DEF Attempt
    <3> QED
      BY <2>1, <3>1
  <2>4. /\ s.at = "commit" /\ s.row = a.row /\ s.uid = a.uid /\ s.email = a.email
        /\ s.seen = a.seen /\ s.names = a.names /\ s.held = a.held /\ s.grant = grant
        /\ s.user = a.user
    BY <1>2, <2>2 DEF Attempt
  <2>5. role \subseteq RoleIds /\ gift \subseteq Ids \X RoleIds
    BY <1>7, <1>8, <1>10 DEF Named, User
  <2>6. s \in Attempt
    BY <1>2, <2>1, <2>2, <2>5 DEF Attempt
  <2>7. WellFormed(s)
    BY <1>2, <2>4, <2>6 DEF WellFormed
  <2>8. Knows(s)
    BY <1>2, <2>4 DEF Fine, Knows, Sight
  <2>9. RowFits(s, users) /\ Founded(s, users) /\ \A m \in Logins \ {l} : RowsApart(s, login[m])
    BY <1>2, <2>4 DEF Fine, RowFits, Founded, RowsApart
  <2>10. Remembers(s, users)
    <3>1. \E u \in users \cup a.row : u.id = me.id
      BY <1>2, <1>6 DEF Sight, Fine, Remembers
    <3>2. \A p \in grant : p[1] = me.id
      BY <1>10, <2>1
    <3> QED
      BY <1>2, <2>4, <3>1, <3>2 DEF Fine, Remembers
  <2>11. ASSUME ~edited, NEW v \in a.row, \A u \in users : u.id # v.id
         PROVE  /\ \E i \in RoleIds : <<v.id, i>> \in grant
                /\ v.admin => \A i \in Named(roles, "admin") : <<v.id, i>> \in grant
    <3>1. me = v
      BY <1>2, <1>6, <2>11 DEF Fine, Knows, Sight
    <3>2. RolesHeld(me.id, a.held) = {}
      <4>1. \A p \in a.held : p[1] # v.id
        BY <1>2, <2>11 DEF Fine, Remembers
      <4> QED
        BY <3>1, <4>1 DEF RolesHeld
    <3>3. grant = gift /\ role # {}
      BY <2>1, <3>2
    <3>4. a.names = roles
      BY <1>2, <2>11 DEF Fine, Current
    <3>5. role \subseteq Live(roles)
      BY <1>8, <3>4 DEF Named, Live, RoleNames
    <3>6. gift = {<<v.id, i>> : i \in role}
      BY <1>10, <3>1, <3>5
    <3>7. v.admin => role = Named(roles, "admin")
      BY <1>8, <3>1, <3>4
    <3>8. \A i \in role : <<v.id, i>> \in grant
      BY <3>3, <3>6
    <3> QED
      BY <2>5, <3>3, <3>7, <3>8
  <2>12. Current(s)
    BY <1>2, <2>4, <2>11 DEF Current, Fine
  <2> QED
    BY <1>3, <2>3, <2>7, <2>8, <2>9, <2>10, <2>12, GoesOn DEF Fine
<1> QED
  BY <1>12, <1>13
LEMMA CommitStep ==
  ASSUME AccountInv, NEW l \in Logins, Commit(l)
  PROVE  AccountInv'
<1>1. PICK a : a = login[l]
  OBVIOUS
<1>2. /\ Fine(l, a) /\ a \in Attempt /\ a.at = "commit"
      /\ a.row = {} \/ \E v \in User : a.row = {v}
      /\ a.row \subseteq User /\ a.grant \subseteq Ids \X RoleIds
  BY <1>1 DEF AccountInv, LoginInv, Fine, WellFormed, Commit, Attempt
<1>3. TableInv /\ RoleInv /\ login \in [Logins -> Attempt]
  BY DEF AccountInv, LoginInv
<1>4. /\ users' = {u \in users : \A v \in a.row : v.id # u.id} \cup a.row
      /\ holds' = holds \cup a.grant
      /\ login' = [login EXCEPT ![l] = Idle]
      /\ up' = up /\ starts' = starts /\ roles' = roles /\ edits' = edits /\ edited' = edited
  BY <1>1 DEF Commit, Ends, Goto
<1>5. /\ login' \in [Logins -> Attempt] /\ login'[l] = Idle
      /\ \A m \in Logins \ {l} : login'[m] = login[m]
  BY <1>3, <1>4, IdleAlone
<1>6. \A u \in users, v \in a.row : /\ u.id = v.id => u.uid = v.uid /\ u.admin = v.admin
                                    /\ u.id # v.id => Apart(u, v)
  BY <1>2 DEF Fine, RowFits
<1>7. ASSUME NEW u \in users
      PROVE  \E w \in users' : w.id = u.id /\ w.uid = u.uid /\ w.admin = u.admin
  <2>1. CASE \A v \in a.row : v.id # u.id
    BY <1>4, <2>1
  <2>2. CASE \E v \in a.row : v.id = u.id
    BY <1>4, <1>6, <2>2
  <2> QED
    BY <2>1, <2>2
<1>8. users # {} => users' # {}
  BY <1>7
<1>9. TableInv'
  <2>1. users' \subseteq User /\ holds' \subseteq Ids \X RoleIds
    BY <1>2, <1>3, <1>4 DEF TableInv
  <2>2. ASSUME NEW u \in users', NEW v \in users', u # v PROVE Apart(u, v)
    <3>1. CASE u \in users /\ v \in users
      BY <1>3, <2>2, <3>1 DEF TableInv
    <3>2. CASE u \in a.row /\ v \in a.row
      BY <1>2, <2>2, <3>2
    <3>3. CASE u \notin a.row /\ v \in a.row
      BY <1>4, <1>6, <3>3
    <3>4. CASE u \in a.row /\ v \notin a.row
      <4>1. Apart(v, u)
        BY <1>4, <1>6, <3>4
      <4> QED
        BY <4>1 DEF Apart
    <3> QED
      BY <1>4, <3>1, <3>2, <3>3, <3>4
  <2>3. ASSUME users' # {} PROVE \E u \in users' : u.admin
    <3>1. CASE users # {}
      BY <1>3, <1>7, <3>1 DEF TableInv
    <3>2. CASE users = {}
      BY <1>2, <1>4, <2>3, <3>2 DEF Fine, Founded
    <3> QED
      BY <3>1, <3>2
  <2>4. ASSUME NEW p \in holds' PROVE \E u \in users' : u.id = p[1]
    <3>1. \E u \in users \cup a.row : u.id = p[1]
      BY <1>2, <1>3, <1>4, <2>4 DEF TableInv, Fine, Remembers
    <3> QED
      BY <1>4, <1>7, <3>1
  <2> QED
    BY <1>3, <1>4, <2>1, <2>2, <2>3, <2>4 DEF TableInv
<1>10. ASSUME NEW m \in Logins PROVE Fine(m, login[m])'
  <2>1. PICK b : b = login'[m]
    OBVIOUS
  <2>2. CASE m = l
    <3>1. b = Idle
      BY <1>5, <2>1, <2>2
    <3>2. (Current(login[m]))' /\ \A k \in Logins \ {m} : RowsApart(b, login'[k])
      BY <2>1, <3>1, IdleAlone DEF Current, RowsApart
    <3> QED
      BY <2>1, <3>1, <3>2, IdleAlone DEF Fine
  <2>3. CASE m # l
    <3>1. b = login[m] /\ Fine(m, b)
      BY <1>3, <1>5, <2>1, <2>3 DEF AccountInv, LoginInv
    <3>2. RowsApart(b, a)
      BY <1>1, <2>3, <3>1 DEF Fine
    <3>3. RowFits(b, users')
      <4>1. ASSUME NEW v \in b.row, NEW u \in users'
            PROVE  /\ u.id = v.id => u.uid = v.uid /\ u.admin = v.admin
                   /\ u.id # v.id => Apart(u, v)
        <5>1. CASE u \in users
          BY <3>1, <4>1, <5>1 DEF Fine, RowFits
        <5>2. CASE u \in a.row
          BY <3>2, <4>1, <5>2 DEF RowsApart, Apart
        <5> QED
          BY <1>4, <5>1, <5>2
      <4> QED
        BY <4>1 DEF RowFits
    <3>4. Founded(b, users')
      BY <1>8, <3>1 DEF Fine, Founded
    <3>5. Remembers(b, users')
      <4>1. ASSUME NEW s \in b.seen
            PROVE  \E u \in users' : u.id = s.id /\ u.uid = s.uid /\ u.admin = s.admin
        <5>1. PICK u \in users : u.id = s.id /\ u.uid = s.uid /\ u.admin = s.admin
          BY <3>1, <4>1 DEF Fine, Remembers
        <5> QED
          BY <1>7, <5>1
      <4>2. \A p \in b.held : \E u \in users' : u.id = p[1]
        BY <1>7, <3>1 DEF Fine, Remembers
      <4>3. \A p \in b.grant : \E u \in users' \cup b.row : u.id = p[1]
        BY <1>7, <3>1 DEF Fine, Remembers
      <4> QED
        BY <4>1, <4>2, <4>3 DEF Remembers
    <3>6. (Current(login[m]))'
      <4>1. Current(b)
        BY <3>1 DEF Fine
      <4>2. \A v \in b.row : (\A u \in users' : u.id # v.id) => \A u \in users : u.id # v.id
        BY <1>7
      <4> QED
        BY <1>4, <2>1, <4>1, <4>2 DEF Current, Named
    <3>7. ASSUME NEW k \in Logins \ {m} PROVE RowsApart(b, login'[k])
      <4>1. CASE k = l
        BY <1>5, <4>1, IdleAlone DEF RowsApart
      <4>2. CASE k # l
        BY <1>5, <3>1, <3>7, <4>2 DEF Fine
      <4> QED
        BY <4>1, <4>2
    <3>8. WellFormed(b) /\ Knows(b)
      BY <3>1 DEF Fine
    <3> QED
      BY <2>1, <3>3, <3>4, <3>5, <3>6, <3>7, <3>8 DEF Fine
  <2> QED
    BY <2>2, <2>3
<1>11. LoginInv'
  BY <1>5, <1>10 DEF LoginInv
<1>12. RoleInv'
  <2>1. ASSUME up, ~edited, NEW u \in users'
        PROVE  /\ \E i \in RoleIds : <<u.id, i>> \in holds'
               /\ u.admin => \A i \in Named(roles, "admin") : <<u.id, i>> \in holds'
    <3>1. CASE \E w \in users : w.id = u.id /\ w.admin = u.admin
      <4>1. PICK w \in users : w.id = u.id /\ w.admin = u.admin
        BY <3>1
      <4> QED
        BY <1>3, <1>4, <2>1, <4>1 DEF RoleInv
    <3>2. CASE u \in a.row /\ \A w \in users : w.id # u.id
      BY <1>2, <1>4, <2>1, <3>2 DEF Fine, Current
    <3> QED
      BY <1>4, <1>6, <3>1, <3>2
  <2>2. RoleInv
    BY <1>3
  <2> QED
    BY <1>4, <2>1, <2>2 DEF RoleInv, Given, Missing, Named
<1> QED
  BY <1>9, <1>11, <1>12 DEF AccountInv
LEMMA GivenCounts ==
  ASSUME NEW names
  PROVE  /\ IsFiniteSet(Given(names)) /\ Cardinality(Given(names)) \in Nat
         /\ Cardinality(Given(names)) <= Cardinality(RoleIds) /\ Cardinality(RoleIds) \in Nat
         /\ Cardinality(Given(names)) < Cardinality(RoleIds) => Free(names) # {}
<1>1. IsFiniteSet(RoleIds) /\ Given(names) \subseteq RoleIds
  BY AccountsAssumption DEF Given
<1>2. /\ IsFiniteSet(Given(names)) /\ Cardinality(Given(names)) \in Nat
      /\ Cardinality(RoleIds) \in Nat /\ Cardinality(Given(names)) <= Cardinality(RoleIds)
  BY <1>1, FS_Subset, FS_CardinalityType
<1>3. Free(names) = {} => Given(names) = RoleIds
  BY DEF Free, Named, Given
<1> QED
  BY <1>1, <1>2, <1>3

\* A role that gets another name, or its first one.
LEMMA Renamed ==
  ASSUME NEW names \in RoleNaming, NEW i \in RoleIds, NEW n \in RoleNames \cup {Deleted},
         NEW new, new = [names EXCEPT ![i] = n]
  PROVE  /\ new \in RoleNaming
         /\ Cardinality(Given(new)) <= Cardinality(Given(names)) + 1
         /\ names[i] # Nobody => Cardinality(Given(new)) <= Cardinality(Given(names))
         /\ \A k : k # names[i] => Named(names, k) \subseteq Named(new, k)
         /\ i \in Named(new, n)
<1>1. /\ new \in RoleNaming /\ new[i] = n
      /\ \A j \in RoleIds \ {i} : new[j] = names[j]
  BY DEF RoleNaming
<1>2. Given(new) \subseteq Given(names) \cup {i}
  BY <1>1 DEF Given
<1>3. /\ IsFiniteSet(Given(names)) /\ Cardinality(Given(names)) \in Nat
  BY GivenCounts
<1>4. /\ IsFiniteSet(Given(names) \cup {i})
      /\ Cardinality(Given(names) \cup {i}) <= Cardinality(Given(names)) + 1
      /\ Cardinality(Given(names) \cup {i}) \in Nat
  <2>1. PICK S : S = Given(names)
    OBVIOUS
  <2>2. /\ IsFiniteSet(S \cup {i})
        /\ Cardinality(S \cup {i}) = IF i \in S THEN Cardinality(S) ELSE Cardinality(S) + 1
    BY <1>3, <2>1, FS_AddElement
  <2> QED
    BY <1>3, <2>1, <2>2
<1>5. Cardinality(Given(new)) <= Cardinality(Given(names)) + 1
  <2>1. Cardinality(Given(new)) <= Cardinality(Given(names) \cup {i})
    BY <1>2, <1>4, FS_Subset
  <2>2. Cardinality(Given(new)) \in Nat
    BY GivenCounts
  <2> QED
    BY <1>3, <1>4, <2>1, <2>2
<1>6. ASSUME names[i] # Nobody PROVE Cardinality(Given(new)) <= Cardinality(Given(names))
  <2>1. Given(new) \subseteq Given(names)
    BY <1>2, <1>6 DEF Given
  <2> QED
    BY <1>3, <2>1, FS_Subset
<1>7. \A k : k # names[i] => Named(names, k) \subseteq Named(new, k)
  BY <1>1 DEF Named
<1>8. i \in Named(new, n)
  BY <1>1 DEF Named
<1> QED
  BY <1>1, <1>5, <1>6, <1>7, <1>8

\* A role that is missing gets an identifier when there is one left.
LEMMA WithRoleAdds ==
  ASSUME NEW names \in RoleNaming, NEW n \in RoleNames, NEW new, new = WithRole(names, n),
         Named(names, n) = {} => Cardinality(Given(names)) < Cardinality(RoleIds)
  PROVE  /\ new \in RoleNaming /\ Named(new, n) # {}
         /\ Cardinality(Given(new)) <= Cardinality(Given(names)) + Missing(names, n)
         /\ \A k \in RoleNames : Named(names, k) \subseteq Named(new, k)
<1>1. CASE Named(names, n) # {}
  <2>1. new = names
    BY <1>1 DEF WithRole
  <2>2. Cardinality(Given(names)) \in Nat
    BY GivenCounts
  <2> QED
    BY <1>1, <2>1, <2>2 DEF Missing
<1>2. CASE Named(names, n) = {}
  <2>1. Free(names) # {} /\ Free(names) \subseteq Nat
    BY <1>2, GivenCounts, AccountsAssumption DEF Free, Named
  <2>2. \E i \in Free(names) : \A j \in Free(names) : i <= j
    BY <2>1, Least
  <2>3. PICK i : i = CHOOSE x \in Free(names) : \A j \in Free(names) : x <= j
    OBVIOUS
  <2>4. i \in Free(names)
    BY <2>2, <2>3
  <2>5. i \in RoleIds /\ names[i] = Nobody
    BY <2>4 DEF Free, Named
  <2>6. new = [names EXCEPT ![i] = n]
    BY <1>2, <2>3 DEF WithRole
  <2>7. Nobody \notin RoleNames
    BY AccountsAssumption
  <2>8. Missing(names, n) = 1
    BY <1>2 DEF Missing
  <2> QED
    BY <2>5, <2>6, <2>7, <2>8, Renamed
<1> QED
  BY <1>1, <1>2

LEMMA StartStep ==
  ASSUME AccountInv, Start
  PROVE  AccountInv'
<1>1. TableInv /\ RoleInv
  BY DEF AccountInv
<1>2. PICK one : one = WithRole(roles, "admin")
  OBVIOUS
<1>3. PICK two : two = WithRole(one, "user")
  OBVIOUS
<1>4. /\ roles' = two /\ holds' = RepairedHolds(two) /\ up' = TRUE /\ edited' = FALSE
      /\ login' = [l \in Logins |-> Idle] /\ users' = users /\ edits' = edits
      /\ starts' \in 0..MaxStarts
  BY <1>1, <1>2, <1>3, AccountsAssumption DEF Start, TableInv
<1>5. /\ Cardinality(Given(roles)) \in Nat /\ Cardinality(RoleIds) \in Nat
      /\ Cardinality(Given(one)) \in Nat /\ Cardinality(Given(two)) \in Nat
      /\ edits \in Nat /\ edits <= MaxEdits /\ MaxEdits \in Nat
      /\ Cardinality(RoleIds) >= 2 + MaxEdits
  BY <1>1, GivenCounts, AccountsAssumption DEF TableInv
<1>6. /\ Missing(roles, "admin") \in {0, 1} /\ Missing(roles, "user") \in {0, 1}
      /\ Named(roles, "admin") = {} => Missing(roles, "admin") = 1
      /\ Named(one, "user") = {} => Missing(one, "user") = 1
      /\ Named(roles, "user") # {} => Missing(roles, "user") = 0
      /\ Named(one, "user") # {} => Missing(one, "user") = 0
      /\ Missing(one, "user") \in {0, 1}
      /\ Named(roles, "user") = {} => Missing(roles, "user") = 1
  BY DEF Missing
<1>7. Cardinality(Given(roles)) + Missing(roles, "admin") + Missing(roles, "user") <= edits + 2
  BY <1>1 DEF RoleInv
<1>8. /\ one \in RoleNaming /\ Named(one, "admin") # {}
      /\ Cardinality(Given(one)) <= Cardinality(Given(roles)) + Missing(roles, "admin")
      /\ Named(roles, "user") \subseteq Named(one, "user")
  <2>1. Named(roles, "admin") = {} => Cardinality(Given(roles)) < Cardinality(RoleIds)
    BY <1>5, <1>6, <1>7
  <2>2. roles \in RoleNaming /\ "admin" \in RoleNames /\ "user" \in RoleNames
    BY <1>1 DEF TableInv, RoleNames
  <2> QED
    BY <1>2, <2>1, <2>2, WithRoleAdds
<1>9. Missing(one, "user") <= Missing(roles, "user")
  BY <1>6, <1>8
<1>10. /\ two \in RoleNaming /\ Named(two, "user") # {}
       /\ Cardinality(Given(two)) <= Cardinality(Given(one)) + Missing(one, "user")
       /\ Named(one, "admin") \subseteq Named(two, "admin")
  <2>1. Named(one, "user") = {} => Cardinality(Given(one)) < Cardinality(RoleIds)
    BY <1>5, <1>6, <1>7, <1>8, <1>9
  <2>2. "admin" \in RoleNames /\ "user" \in RoleNames
    BY DEF RoleNames
  <2> QED
    BY <1>3, <1>8, <2>1, <2>2, WithRoleAdds
<1>11. Cardinality(Given(two)) + Missing(two, "admin") + Missing(two, "user") <= edits + 2
  <2>1. Missing(two, "admin") = 0 /\ Missing(two, "user") = 0
    BY <1>8, <1>10 DEF Missing
  <2> QED
    BY <1>5, <1>6, <1>7, <1>8, <1>9, <1>10, <2>1
<1>12. ASSUME NEW u \in users
       PROVE  /\ \E i \in RoleIds : <<u.id, i>> \in holds'
              /\ u.admin => \A i \in Named(two, "admin") : <<u.id, i>> \in holds'
  <2>1. Named(two, "admin") \subseteq RoleIds /\ Named(two, "user") \subseteq RoleIds
    BY DEF Named
  <2>2. Named(two, "admin") # {} /\ Named(two, "user") # {}
    BY <1>8, <1>10
  <2>3. CASE u.admin
    <3>1. ASSUME NEW i \in Named(two, "admin") PROVE <<u.id, i>> \in holds'
      <4>1. u \in {v \in users : v.admin}
        BY <2>3
      <4>2. <<u.id, i>> \in {<<v.id, j>> : v \in {w \in users : w.admin}, j \in Named(two, "admin")}
        BY <3>1, <4>1
      <4> QED
        BY <1>4, <4>2 DEF RepairedHolds
    <3> QED
      BY <2>1, <2>2, <3>1
  <2>4. CASE ~u.admin /\ RolesHeld(u.id, holds) = {}
    <3>1. ASSUME NEW i \in Named(two, "user") PROVE <<u.id, i>> \in holds'
      <4>1. u \in {v \in users : ~v.admin /\ RolesHeld(v.id, holds) = {}}
        BY <2>4
      <4>2. <<u.id, i>> \in {<<v.id, j>> : v \in {w \in users : ~w.admin /\ RolesHeld(w.id, holds) = {}},
                                         j \in Named(two, "user")}
        BY <3>1, <4>1
      <4> QED
        BY <1>4, <4>2 DEF RepairedHolds
    <3> QED
      BY <2>1, <2>2, <2>4, <3>1
  <2>5. CASE ~u.admin /\ RolesHeld(u.id, holds) # {}
    <3>1. holds \subseteq holds' /\ holds \in SUBSET (Ids \X RoleIds)
      BY <1>1, <1>4 DEF RepairedHolds, TableInv
    <3>2. PICK i \in RoleIds : i \in RolesHeld(u.id, holds)
      BY <2>5, <3>1, RolesHeldIn
    <3>3. <<u.id, i>> \in holds
      BY <3>1, <3>2, HeldRoles
    <3> QED
      BY <2>5, <3>1, <3>2, <3>3
  <2> QED
    BY <2>3, <2>4, <2>5
<1>13. /\ holds' \subseteq Ids \X RoleIds
       /\ \A p \in holds' : \E u \in users : u.id = p[1]
  <2>1. ASSUME NEW p \in holds' PROVE p \in Ids \X RoleIds /\ \E u \in users : u.id = p[1]
    <3>1. CASE p \in holds
      BY <1>1, <3>1 DEF TableInv
    <3>2. CASE p \notin holds
      <4>1. PICK u \in users, i \in RoleIds : p = <<u.id, i>>
        BY <1>4, <2>1, <3>2 DEF RepairedHolds, Named
      <4>2. u \in User
        BY <1>1, <4>1 DEF TableInv
      <4> QED
        BY <4>1, <4>2 DEF User
    <3> QED
      BY <3>1, <3>2
  <2> QED
    BY <2>1
<1>14. TableInv'
  BY <1>1, <1>4, <1>10, <1>13 DEF TableInv
<1>15. RoleInv'
  <2>1. Named(two, "admin") # {}
    BY <1>8, <1>10
  <2> QED
    BY <1>4, <1>10, <1>11, <1>12, <2>1 DEF RoleInv
<1>16. LoginInv'
  <2>1. login' \in [Logins -> Attempt] /\ \A l \in Logins : login'[l] = Idle
    BY <1>4, IdleAlone
  <2>2. ASSUME NEW l \in Logins PROVE Fine(l, login[l])'
    <3>1. (Current(login[l]))' /\ \A k \in Logins \ {l} : RowsApart(Idle, login'[k])
      BY <2>1, IdleAlone DEF Current, RowsApart
    <3> QED
      BY <2>1, <3>1, IdleAlone DEF Fine
  <2> QED
    BY <2>1, <2>2 DEF LoginInv
<1> QED
  BY <1>14, <1>15, <1>16 DEF AccountInv
\* Roles are changed: only what RoleInv says of their number is left to show.
LEMMA EditStep ==
  ASSUME AccountInv, Edit, roles' \in RoleNaming, holds' \subseteq Ids \X RoleIds,
         \A p \in holds' : \E u \in users : u.id = p[1],
         Cardinality(Given(roles')) + Missing(roles', "admin") + Missing(roles', "user")
           <= Cardinality(Given(roles)) + Missing(roles, "admin") + Missing(roles, "user") + 1
  PROVE  AccountInv'
<1>1. TableInv /\ RoleInv /\ LoginInv
  BY DEF AccountInv
<1>2. /\ up' = up /\ starts' = starts /\ users' = users /\ login' = login
      /\ edited' = TRUE /\ edits' = edits + 1 /\ edits < MaxEdits
  BY DEF Edit
<1>3. edits \in Nat /\ MaxEdits \in Nat
  BY <1>1, AccountsAssumption DEF TableInv
<1>4. TableInv'
  BY <1>1, <1>2, <1>3 DEF TableInv
<1>5. RoleInv'
  <2>1. /\ Cardinality(Given(roles)) \in Nat /\ Cardinality(Given(roles')) \in Nat
        /\ \A names, n : Missing(names, n) \in {0, 1}
    BY GivenCounts DEF Missing
  <2> QED
    BY <1>1, <1>2, <1>3, <2>1 DEF RoleInv
<1>6. LoginInv'
  <2>1. ASSUME NEW l \in Logins PROVE Fine(l, login[l])'
    <3>1. Fine(l, login[l])
      BY <1>1 DEF LoginInv
    <3>2. (Current(login[l]))'
      BY <1>2, <3>1 DEF Fine, Current
    <3> QED
      BY <1>2, <3>1, <3>2 DEF Fine
  <2> QED
    BY <1>1, <1>2, <2>1 DEF LoginInv
<1> QED
  BY <1>4, <1>5, <1>6 DEF AccountInv

LEMMA RolesStep ==
  ASSUME AccountInv, CreateRole \/ UpdateRole \/ DeleteRole \/ AssignRole \/ RevokeRole
  PROVE  AccountInv'
<1>1. TableInv /\ RoleInv
  BY DEF AccountInv
<1>2. roles \in RoleNaming /\ holds \in SUBSET (Ids \X RoleIds) /\ users \subseteq User
  BY <1>1 DEF TableInv
<1>3. \A names : Cardinality(Given(names)) \in Nat
  BY GivenCounts
<1>4. \A names, n : /\ Missing(names, n) \in {0, 1}
                    /\ Named(names, n) = {} <=> Missing(names, n) = 1
  BY DEF Missing
<1>5. CASE CreateRole
  <2>1. PICK n \in RoleNames : Named(roles, n) = {} /\ roles' = WithRole(roles, n)
    BY <1>5 DEF CreateRole
  <2>2. PICK new : new = roles'
    OBVIOUS
  <2>3. Cardinality(Given(roles)) < Cardinality(RoleIds)
    <3>1. /\ Cardinality(Given(roles)) + Missing(roles, "admin") + Missing(roles, "user") <= edits + 2
          /\ edits < MaxEdits /\ edits \in Nat /\ MaxEdits \in Nat
          /\ Cardinality(RoleIds) >= 2 + MaxEdits /\ Cardinality(RoleIds) \in Nat
      BY <1>1, <1>5, GivenCounts, AccountsAssumption DEF RoleInv, TableInv, CreateRole, Edit
    <3>2. /\ Cardinality(Given(roles)) \in Nat
          /\ Missing(roles, "admin") \in {0, 1} /\ Missing(roles, "user") \in {0, 1}
      BY <1>3, <1>4
    <3> QED
      BY <3>1, <3>2
  <2>4. /\ new \in RoleNaming
        /\ Cardinality(Given(new)) <= Cardinality(Given(roles)) + Missing(roles, n)
        /\ \A k \in RoleNames : Named(roles, k) \subseteq Named(new, k)
    BY <1>2, <2>1, <2>2, <2>3, WithRoleAdds
  <2>5. \A k \in RoleNames : Missing(new, k) <= Missing(roles, k)
    BY <2>4 DEF Missing
  <2>6. Missing(new, "admin") <= Missing(roles, "admin") /\ Missing(new, "user") <= Missing(roles, "user")
    BY <2>5 DEF RoleNames
  <2>7. Cardinality(Given(new)) + Missing(new, "admin") + Missing(new, "user")
           <= Cardinality(Given(roles)) + Missing(roles, "admin") + Missing(roles, "user") + 1
    <3>1. /\ Cardinality(Given(roles)) \in Nat /\ Cardinality(Given(new)) \in Nat
          /\ Missing(roles, "admin") \in {0, 1} /\ Missing(roles, "user") \in {0, 1}
          /\ Missing(new, "admin") \in {0, 1} /\ Missing(new, "user") \in {0, 1}
          /\ Missing(roles, n) \in {0, 1}
      BY <1>3, <1>4
    <3> QED
      BY <2>4, <2>6, <3>1
  <2>8. holds' = holds /\ Edit
    BY <1>5 DEF CreateRole
  <2> QED
    BY <1>1, <1>2, <2>2, <2>4, <2>7, <2>8, EditStep DEF TableInv
<1>6. CASE UpdateRole \/ DeleteRole
  <2>1. PICK i \in Live(roles), n \in RoleNames \cup {Deleted} : roles' = [roles EXCEPT ![i] = n]
    BY <1>6 DEF UpdateRole, DeleteRole
  <2>2. PICK new : new = roles'
    OBVIOUS
  <2>3. i \in RoleIds /\ roles[i] \in RoleNames /\ roles[i] # Nobody
    BY <2>1, AccountsAssumption DEF Live
  <2>4. /\ new \in RoleNaming /\ Cardinality(Given(new)) <= Cardinality(Given(roles))
        /\ \A k : k # roles[i] => Named(roles, k) \subseteq Named(new, k)
    BY <1>2, <2>1, <2>2, <2>3, Renamed
  <2>5. \A k : k # roles[i] => Missing(new, k) <= Missing(roles, k)
    BY <2>4 DEF Missing
  <2>6. \/ Missing(new, "admin") <= Missing(roles, "admin")
        \/ Missing(new, "user") <= Missing(roles, "user")
    BY <2>5
  <2>7. Cardinality(Given(new)) + Missing(new, "admin") + Missing(new, "user")
           <= Cardinality(Given(roles)) + Missing(roles, "admin") + Missing(roles, "user") + 1
    <3>1. /\ Cardinality(Given(roles)) \in Nat /\ Cardinality(Given(new)) \in Nat
          /\ Missing(roles, "admin") \in {0, 1} /\ Missing(roles, "user") \in {0, 1}
          /\ Missing(new, "admin") \in {0, 1} /\ Missing(new, "user") \in {0, 1}
      BY <1>3, <1>4
    <3>2. "admin" # roles[i] \/ "user" # roles[i]
      OBVIOUS
    <3>3. \/ Missing(new, "admin") <= Missing(roles, "admin") /\ "admin" # roles[i]
          \/ Missing(new, "user") <= Missing(roles, "user") /\ "user" # roles[i]
      BY <2>5, <3>2
    <3> QED
      BY <2>4, <3>1, <3>3
  <2>8. holds' \subseteq holds /\ Edit
    BY <1>6 DEF UpdateRole, DeleteRole
  <2> QED
    BY <1>1, <1>2, <2>2, <2>4, <2>7, <2>8, EditStep DEF TableInv
<1>7. CASE AssignRole \/ RevokeRole
  <2>1. roles' = roles /\ Edit
    BY <1>7 DEF AssignRole, RevokeRole
  <2>2. holds' \subseteq Ids \X RoleIds /\ \A p \in holds' : \E u \in users : u.id = p[1]
    <3>1. CASE AssignRole
      <4>1. PICK u \in users, i \in Live(roles) : holds' = holds \cup {<<u.id, i>>}
        BY <3>1 DEF AssignRole
      <4>2. u.id \in Ids /\ i \in RoleIds
        BY <1>2, <4>1 DEF User, Live
      <4> QED
        BY <1>1, <1>2, <4>1, <4>2 DEF TableInv
    <3>2. CASE RevokeRole
      <4>1. holds' \subseteq holds
        BY <3>2 DEF RevokeRole
      <4> QED
        BY <1>1, <1>2, <4>1 DEF TableInv
    <3> QED
      BY <1>7, <3>1, <3>2
  <2>3. Cardinality(Given(roles')) + Missing(roles', "admin") + Missing(roles', "user")
           <= Cardinality(Given(roles)) + Missing(roles, "admin") + Missing(roles, "user") + 1
    <3>1. /\ Cardinality(Given(roles)) \in Nat
          /\ Missing(roles, "admin") \in {0, 1} /\ Missing(roles, "user") \in {0, 1}
      BY <1>3, <1>4
    <3> QED
      BY <2>1, <3>1
  <2> QED
    BY <1>2, <2>1, <2>2, <2>3, EditStep
<1> QED
  BY <1>5, <1>6, <1>7
LEMMA AccountInvariant == AccountsSpec => []AccountInv
<1>1. ASSUME AccountsInit PROVE AccountInv
  <2>1. TableInv
    <3>1. 0 \in 0..MaxStarts /\ 0 \in 0..MaxEdits
      BY AccountsAssumption
    <3>2. roles \in RoleNaming
      BY <1>1 DEF AccountsInit, RoleNaming
    <3>3. users = {} /\ holds = {} /\ up = FALSE /\ edited = FALSE /\ starts = 0 /\ edits = 0
      BY <1>1 DEF AccountsInit
    <3> QED
      BY <3>1, <3>2, <3>3 DEF TableInv
  <2>2. login \in [Logins -> Attempt] /\ \A l \in Logins : login[l] = Idle
    BY <1>1, IdleAlone DEF AccountsInit
  <2>3. LoginInv
    BY <2>2, IdleIsFine DEF LoginInv
  <2>4. Given(roles) = {}
    BY <1>1 DEF AccountsInit, Given
  <2>5. Cardinality(Given(roles)) = 0
    BY <2>4, FS_EmptySet
  <2>6. \A n : Missing(roles, n) \in {0, 1}
    BY DEF Missing
  <2>7. Cardinality(Given(roles)) + Missing(roles, "admin") + Missing(roles, "user") <= edits + 2
    <3>1. Missing(roles, "admin") \in {0, 1} /\ Missing(roles, "user") \in {0, 1} /\ edits = 0
      BY <1>1, <2>6 DEF AccountsInit
    <3> QED
      BY <2>5, <3>1
  <2>8. RoleInv
    BY <1>1, <2>7 DEF AccountsInit, RoleInv
  <2> QED
    BY <2>1, <2>3, <2>8 DEF AccountInv
<1>2. ASSUME AccountInv, [AccountsNext]_accountVars PROVE AccountInv'
  <2>1. ASSUME NEW l \in Logins,
               \/ LoginWithFeishu(l) \/ Register(l) \/ StatementFails(l)
               \/ Insert(l) \/ Update(l) \/ Taken(l) \/ ReadBack(l) \/ AssignSystemRole(l)
               \/ Commit(l)
        PROVE  AccountInv'
    <3>1. CASE Ends(l) /\ UNCHANGED <<up, starts, tables, edits, edited>>
      BY <1>2, <3>1, IdleIsFine, GoesOn DEF Ends
    <3>2. CASE LoginWithFeishu(l)
      <4>1. PICK uid \in Uids, email \in Emails \cup {Nobody} : Begin(l, uid, email)
        BY <3>2 DEF LoginWithFeishu
      <4> QED
        BY <1>2, <3>2, <4>1, BeginStep DEF LoginWithFeishu
    <3>3. CASE Register(l)
      <4>1. PICK email \in Emails : Ends(l) \/ Begin(l, Nobody, email)
        BY <3>3 DEF Register
      <4>2. up /\ UNCHANGED <<up, starts, tables, edits, edited>>
        BY <3>3 DEF Register
      <4> QED
        BY <1>2, <3>1, <4>1, <4>2, BeginStep
    <3>4. CASE StatementFails(l) \/ Taken(l)
      BY <3>1, <3>4 DEF StatementFails, Taken
    <3> QED
      BY <1>2, <2>1, <3>2, <3>3, <3>4, InsertStep, UpdateStep, ReadBackStep, RoleStep, CommitStep
  <2>2. CASE UNCHANGED accountVars
    <3>1. /\ up' = up /\ edited' = edited /\ starts' = starts /\ edits' = edits
          /\ users' = users /\ roles' = roles /\ holds' = holds /\ login' = login
      BY <2>2 DEF accountVars
    <3>2. TableInv' /\ RoleInv'
      BY <1>2, <3>1 DEF AccountInv, TableInv, RoleInv, Given, Missing, Named
    <3>3. ASSUME NEW l \in Logins PROVE Fine(l, login[l])'
      <4>1. Fine(l, login[l])
        BY <1>2 DEF AccountInv, LoginInv
      <4>2. (Current(login[l]))'
        BY <3>1, <4>1 DEF Fine, Current, Named
      <4> QED
        BY <3>1, <4>1, <4>2 DEF Fine
    <3>4. LoginInv'
      BY <1>2, <3>1, <3>3 DEF AccountInv, LoginInv
    <3> QED
      BY <3>2, <3>4 DEF AccountInv
  <2> QED
    BY <1>2, <2>1, <2>2, StartStep, RolesStep DEF AccountsNext
<1> QED
  BY <1>1, <1>2, PTL DEF AccountsSpec

\* The accounts, roles and requests are always of their types (auth.DB).
THEOREM AccountsTyped == AccountsSpec => []AccountsTypeOK
<1>1. ASSUME AccountInv PROVE AccountsTypeOK
  <2>1. ASSUME NEW l \in Logins
        PROVE  /\ login[l].at \in {"idle", "insert", "read", "role", "commit"}
               /\ login[l].row \subseteq User /\ Cardinality(login[l].row) <= 1
    <3>1. PICK a : a = login[l]
      OBVIOUS
    <3>2. a \in Attempt /\ (a.row = {} \/ \E v \in User : a.row = {v})
      BY <1>1, <3>1 DEF AccountInv, LoginInv, Fine, WellFormed
    <3>3. Cardinality(a.row) <= 1
      <4>1. CASE a.row = {}
        BY <4>1, FS_EmptySet
      <4>2. CASE a.row # {}
        <5>1. PICK v : a.row = {v}
          BY <3>2, <4>2
        <5>2. Cardinality({v}) = 1
          BY FS_Singleton
        <5> QED
          BY <5>1, <5>2
      <4> QED
        BY <4>1, <4>2
    <3> QED
      BY <3>1, <3>2, <3>3 DEF Attempt
  <2> QED
    BY <1>1, <2>1 DEF AccountInv, TableInv, RoleNaming, AccountsTypeOK
<1>2. AccountInv => AccountsTypeOK
  BY <1>1
<1> QED
  BY <1>2, AccountInvariant, PTL

\* However logins and starts overlap and fail, the first account is an
\* administrator's, no address or identity belongs to two accounts, and while
\* nobody changes roles every account has those it needs (UpsertUser,
\* CreateUserWithPassword, Store.repair).
THEOREM AuthorityKept == AccountsSpec => []AuthorityIsKept
<1>1. ASSUME AccountInv PROVE AuthorityIsKept
  <2>1. TableInv /\ RoleInv /\ holds \in SUBSET (Ids \X RoleIds)
    BY <1>1 DEF AccountInv, TableInv
  <2>2. ASSUME up, ~edited, NEW u \in users
        PROVE  /\ RolesHeld(u.id, holds) # {}
               /\ u.admin => Named(roles, "admin") \subseteq RolesHeld(u.id, holds)
    <3>1. \A i \in RoleIds : i \in RolesHeld(u.id, holds) <=> <<u.id, i>> \in holds
      BY <2>1, HeldRoles
    <3>2. Named(roles, "admin") \subseteq RoleIds
      BY DEF Named
    <3> QED
      BY <2>1, <2>2, <3>1, <3>2 DEF RoleInv
  <2> QED
    BY <2>1, <2>2 DEF TableInv, Apart, AuthorityIsKept
<1>2. AccountInv => AuthorityIsKept
  BY <1>1
<1> QED
  BY <1>2, AccountInvariant, PTL
-----------------------------------------------------------------------------
(* Retrieval: the copy of the services, and the documents kept.            *)

CopyInv ==
  /\ replaced \in BOOLEAN /\ missed \in BOOLEAN
  /\ missed \/ replaced \/ (cached \in {0, generation} /\ read \in {0, generation})

LEMMA CopyStep ==
  ASSUME CopyInv, [RetrievalNext]_retrievalVars
  PROVE  CopyInv'
<1>1. CASE UNCHANGED cacheVars
  BY <1>1 DEF cacheVars, CopyInv
<1>2. CASE \/ Retrieve \/ FindCode \/ FindRunbooks \/ FindRunbooksByKeyword \/ SearchFails
           \/ StartCollectors \/ CollectCode \/ CollectRunbooks \/ CollectCodeGraph
           \/ CollectServices \/ CollectDeps
  BY <1>1, <1>2 DEF Retrieve, FindCode, FindRunbooks, FindRunbooksByKeyword, SearchFails,
       StartCollectors, CollectCode, CollectRunbooks, CollectCodeGraph, CollectServices,
       CollectDeps, Collected, Formatted
<1>3. CASE Deduplicate \/ UseAsIs \/ Rerank \/ RerankLocally \/ Choose \/ Write
  BY <1>1, <1>3 DEF Deduplicate, UseAsIs, Rerank, RerankLocally, Choose, Write
<1>4. CASE ReadServices
  BY <1>4 DEF ReadServices, CopyInv
<1>5. CASE FindServices
  BY <1>5 DEF FindServices, CopyInv
<1>6. CASE ReplaceServices
  BY <1>6 DEF ReplaceServices, CopyInv
<1>7. CASE InvalidateServices
  <2>1. missed' = (missed \/ read \notin {0, generation})
    BY <1>7 DEF InvalidateServices
  <2> QED
    BY <1>7, <2>1 DEF InvalidateServices, CopyInv
<1>8. CASE ReloadFails
  BY <1>8 DEF ReloadFails, CopyInv
<1>9. CASE UNCHANGED retrievalVars
  BY <1>1, <1>9 DEF retrievalVars
<1> QED
  BY <1>2, <1>3, <1>4, <1>5, <1>6, <1>7, <1>8, <1>9 DEF RetrievalNext

\* Rebuilds and searches may overlap in any way: a copy of services that are no
\* longer indexed is about to be dropped, unless the drop was overtaken or did
\* not come (Service.services, InvalidateServices).
THEOREM CopyCurrent == RetrievalSpec => []CopyIsCurrent
<1>1. RetrievalInit => CopyInv
  BY DEF RetrievalInit, CopyInv
<1>2. CopyInv /\ [RetrievalNext]_retrievalVars => CopyInv'
  BY CopyStep
<1>3. CopyInv => CopyIsCurrent
  BY DEF CopyInv, CopyIsCurrent
<1> QED
  BY <1>1, <1>2, <1>3, PTL DEF RetrievalSpec

LEMMA TopIsOf ==
  ASSUME NEW docs, NEW n \in Nat, NEW top \in TopByRecall(docs, n), IsFiniteSet(docs), docs # {}
  PROVE  top \subseteq docs /\ IsFiniteSet(top) /\ top # {}
<1>1. CASE n = 0 \/ Cardinality(docs) <= n
  BY <1>1 DEF TopByRecall
<1>2. CASE ~(n = 0 \/ Cardinality(docs) <= n)
  <2>1. top \in SUBSET docs /\ Cardinality(top) = n
    BY <1>2 DEF TopByRecall, kSubset
  <2>2. IsFiniteSet(top)
    BY <2>1, FS_Subset
  <2>3. Cardinality({}) = 0
    BY FS_EmptySet
  <2> QED
    BY <1>2, <2>1, <2>2, <2>3
<1> QED
  BY <1>1, <1>2

\* What is left when duplicates are gone: one document of each source and file,
\* and of each file one that says as much as any that was there.
LEMMA DistinctKeepsBest ==
  ASSUME NEW docs, NEW out \in Distinct(docs), IsFiniteSet(docs),
         docs \subseteq Documents
  PROVE  /\ out \subseteq docs
         /\ \A d, e \in out : d.source = e.source /\ d.file = e.file => d = e
         /\ \A d \in docs : \E e \in out : e.file = d.file /\ e.info >= d.info
<1>1. PICK keys : keys = UNION {Keys(d) : d \in docs}
  OBVIOUS
<1>2. PICK winner \in [keys -> docs] :
        LET won == Range(winner)
            Alike(d, from) == {e \in from : e.source = d.source /\ e.file = d.file}
        IN /\ out \in SUBSET docs
           /\ \A k \in keys : winner[k] \in Winners(docs, k)
           /\ out \subseteq won
           /\ \A d \in out : \A e \in Alike(d, won) : d.info >= e.info
           /\ \A d \in won : Cardinality(Alike(d, out)) = 1
  BY <1>1 DEF Distinct
<1>3. PICK won : won = Range(winner)
  OBVIOUS
<1>4. out \subseteq won /\ out \subseteq docs /\ won \subseteq docs
  BY <1>2, <1>3 DEF Range
<1>5. ASSUME NEW d \in won
      PROVE  \E x : {e \in out : e.source = d.source /\ e.file = d.file} = {x}
  <2>1. PICK same : same = {e \in out : e.source = d.source /\ e.file = d.file}
    OBVIOUS
  <2>2. Cardinality(same) = 1
    BY <1>2, <1>3, <1>5, <2>1
  <2>3. IsFiniteSet(same)
    <3>1. same \subseteq docs
      BY <1>4, <2>1
    <3> QED
      BY <3>1, FS_Subset
  <2> QED
    BY <2>1, <2>2, <2>3, FS_Singleton
<1>6. ASSUME NEW d \in out, NEW e \in out, d.source = e.source, d.file = e.file PROVE d = e
  BY <1>4, <1>5, <1>6
<1>7. ASSUME NEW d \in docs PROVE \E e \in out : e.file = d.file /\ e.info >= d.info
  <2>1. PICK key : key = <<d.file>>
    OBVIOUS
  <2>2. key \in keys /\ key \in Keys(d)
    BY <1>1, <2>1 DEF Keys
  <2>3. PICK w : w = winner[key]
    OBVIOUS
  <2>4. w \in Winners(docs, key) /\ w \in won
    BY <1>2, <1>3, <2>2, <2>3 DEF Range
  <2>5. w \in docs /\ key \in Keys(w) /\ (w.info > d.info \/ w.info = d.info)
    BY <2>2, <2>4 DEF Winners
  <2>6. w.file = d.file
    <3>1. key = <<w.file>> \/ key = <<w.file, w.method>>
      BY <2>5 DEF Keys
    <3>2. Len(key) = 1 /\ Len(<<w.file, w.method>>) = 2
      BY <2>1
    <3> QED
      BY <2>1, <3>1, <3>2
  <2>7. PICK e : {x \in out : x.source = w.source /\ x.file = w.file} = {e}
    BY <1>5, <2>4
  <2>8. e \in out /\ e.source = w.source /\ e.file = w.file
    BY <2>7
  <2>9. e.info >= w.info
    BY <1>2, <1>3, <2>4, <2>8
  <2>10. e.file = d.file
    BY <2>6, <2>8
  <2>11. w.info \in Nat /\ d.info \in Nat /\ e.info \in Nat
    BY <1>4, <2>5, <2>8, RetrievalAssumption
  <2> QED
    BY <2>5, <2>8, <2>9, <2>10, <2>11
<1> QED
  BY <1>4, <1>6, <1>7
-----------------------------------------------------------------------------
(* Retrieval: evidence.                                                    *)

PoolInv ==
  /\ stage \in Stages /\ running \subseteq Searches \cup Collectors /\ chunked \in BOOLEAN
  /\ codeHits \subseteq Documents /\ runbookHits \subseteq Documents
  /\ services \subseteq Services /\ general \subseteq General
  /\ pool \subseteq Documents /\ cut \subseteq pool /\ kept \subseteq cut
  /\ stage \in {"rerank", "pool"} => kept # {}
  /\ BestOfEachFile

CopyTypeInv ==
  /\ generation \in 1..MaxRebuilds + 1
  /\ cached \in 0..generation /\ read \in 0..generation
  /\ replaced \in BOOLEAN /\ missed \in BOOLEAN

\* The searches and the collectors leave what comes after them alone, ...
Gathering ==
  /\ stage \in {"idle", "discover", "expand"} /\ stage' \in {"discover", "expand"}
  /\ UNCHANGED poolVars
  /\ running' \subseteq Searches \cup Collectors /\ chunked' \in BOOLEAN
  /\ codeHits' \subseteq Documents /\ runbookHits' \subseteq Documents
  /\ services' \subseteq Services /\ general' \subseteq General
  /\ pool \subseteq pool' /\ pool' \subseteq Documents /\ general \subseteq general'

\* ... and a rebuild leaves alone what is retrieved.
Rebuilding ==
  UNCHANGED <<stage, running, codeHits, runbookHits, chunked, services, pool, general, poolVars>>

LEMMA Gathers ==
  ASSUME PoolInv,
         \/ Retrieve \/ FindCode \/ FindRunbooks \/ FindRunbooksByKeyword
         \/ FindServices \/ SearchFails
         \/ StartCollectors \/ CollectCode \/ CollectRunbooks \/ CollectCodeGraph
         \/ CollectServices \/ CollectDeps
  PROVE  Gathering
<1>1. \A source : Of(source) \subseteq Documents
  BY DEF Of
<1>2. CASE Retrieve
  BY <1>2 DEF Retrieve, Gathering, PoolInv
<1>3. CASE FindCode
  <2>1. PICK found \in SUBSET Of("code") :
          /\ codeHits' = found
          /\ services' = services \cup ({d.service : d \in found} \ {NoService})
    BY <1>3 DEF FindCode
  <2>2. \A d \in found : d.service \in Services \cup {NoService}
    BY <1>1, <2>1, RetrievalAssumption
  <2> QED
    BY <1>1, <1>3, <2>1, <2>2 DEF FindCode, Done, Gathering, PoolInv
<1>4. CASE FindRunbooks \/ FindRunbooksByKeyword
  BY <1>1, <1>4 DEF FindRunbooks, FindRunbooksByKeyword, JoinedRunbooks, KeywordRunbooks, Done,
                    Gathering, PoolInv
<1>5. CASE FindServices
  BY <1>5 DEF FindServices, MergedMatches, KeywordMatches, SemanticMatches, Done, Gathering, PoolInv
<1>6. CASE SearchFails \/ StartCollectors
  BY <1>6 DEF SearchFails, StartCollectors, Done, Gathering, PoolInv
<1>7. CASE CollectCode \/ CollectRunbooks
  BY <1>7 DEF CollectCode, CollectRunbooks, Collected, Done, Gathering, PoolInv
<1>8. CASE CollectCodeGraph
  BY <1>1, <1>8 DEF CollectCodeGraph, Collected, Done, Gathering, PoolInv
<1>9. CASE CollectServices \/ CollectDeps
  <2>1. PICK name \in General, worded \in BOOLEAN : Formatted(name, worded)
    BY <1>9 DEF CollectServices, CollectDeps, General
  <2> QED
    BY <2>1 DEF Formatted, Done, Gathering, PoolInv
<1> QED
  BY <1>2, <1>3, <1>4, <1>5, <1>6, <1>7, <1>8, <1>9

LEMMA RetrievalCases ==
  ASSUME PoolInv, [RetrievalNext]_retrievalVars
  PROVE  Gathering \/ Rebuilding \/ Deduplicate \/ UseAsIs \/ Rerank \/ RerankLocally \/ Choose \/ Write
<1>1. CASE ReadServices \/ ReplaceServices \/ InvalidateServices \/ ReloadFails
  BY <1>1 DEF ReadServices, ReplaceServices, InvalidateServices, ReloadFails, Rebuilding
<1>2. CASE UNCHANGED retrievalVars
  BY <1>2 DEF retrievalVars, Rebuilding
<1> QED
  BY <1>1, <1>2, Gathers DEF RetrievalNext

LEMMA PoolStep ==
  ASSUME PoolInv, [RetrievalNext]_retrievalVars
  PROVE  PoolInv'
<1>1. CASE Gathering
  <2>1. BestOfEachFile'
    BY <1>1 DEF Gathering, poolVars, PoolInv, BestOfEachFile
  <2>2. cut' \subseteq pool' /\ kept' \subseteq cut' /\ pool' \subseteq Documents /\ stage' \in Stages
    BY <1>1 DEF Gathering, poolVars, PoolInv, Stages
  <2> QED
    BY <1>1, <2>1, <2>2 DEF Gathering, PoolInv
<1>2. CASE Rebuilding
  BY <1>2 DEF Rebuilding, poolVars, PoolInv, BestOfEachFile
<1>3. CASE Deduplicate
  <2>1. PICK top : top \in TopByRecall(pool, RerankPool) /\ cut' = top
    BY <1>3 DEF Deduplicate
  <2>2. PICK out : out \in Distinct(top) /\ kept' = out
    BY <1>3, <2>1 DEF Deduplicate
  <2>3. IsFiniteSet(pool) /\ pool # {} /\ RerankPool \in Nat
    BY <1>3, FS_Subset, RetrievalAssumption DEF PoolInv, Deduplicate
  <2>4. top \subseteq pool /\ IsFiniteSet(top) /\ top # {} /\ top \subseteq Documents
    BY <2>1, <2>3, TopIsOf DEF PoolInv
  <2>5. /\ out \subseteq top
        /\ \A d, e \in out : d.source = e.source /\ d.file = e.file => d = e
        /\ \A d \in top : \E e \in out : e.file = d.file /\ e.info >= d.info
    BY <2>2, <2>4, DistinctKeepsBest
  <2>6. BestOfEachFile'
    BY <2>1, <2>2, <2>5 DEF BestOfEachFile
  <2>7. out # {}
    BY <2>4, <2>5
  <2> QED
    BY <1>3, <2>1, <2>2, <2>4, <2>5, <2>6, <2>7 DEF Deduplicate, PoolInv, Stages
<1>4. CASE UseAsIs \/ Rerank \/ RerankLocally \/ Choose \/ Write
  <2>1. /\ UNCHANGED <<running, codeHits, runbookHits, chunked, services, pool, general, cut, kept>>
        /\ stage' \in {"write", "pool", "ready"} /\ (stage' = "pool" => stage = "rerank")
    BY <1>4 DEF UseAsIs, Rerank, RerankLocally, Choose, Write
  <2> QED
    BY <2>1 DEF PoolInv, Stages, BestOfEachFile
<1> QED
  BY <1>1, <1>2, <1>3, <1>4, RetrievalCases

LEMMA PoolStart == ASSUME RetrievalInit PROVE PoolInv
BY DEF RetrievalInit, PoolInv, Stages, BestOfEachFile

\* Duplicates go in whatever order they are looked at: one document of each
\* source and file is left, and no file loses the one that says most (dedupBySource).
THEOREM BestKept == RetrievalSpec => []BestOfEachFile
<1>1. RetrievalInit => PoolInv
  BY PoolStart
<1>2. PoolInv /\ [RetrievalNext]_retrievalVars => PoolInv'
  BY PoolStep
<1>3. PoolInv => BestOfEachFile
  BY DEF PoolInv
<1> QED
  BY <1>1, <1>2, <1>3, PTL DEF RetrievalSpec
LEMMA CopyTypeStep ==
  ASSUME CopyTypeInv, PoolInv, [RetrievalNext]_retrievalVars
  PROVE  CopyTypeInv'
<1>1. CASE UNCHANGED cacheVars
  BY <1>1 DEF cacheVars, CopyTypeInv
<1>2. CASE \/ Retrieve \/ FindCode \/ FindRunbooks \/ FindRunbooksByKeyword \/ SearchFails
           \/ StartCollectors \/ CollectCode \/ CollectRunbooks \/ CollectCodeGraph
           \/ CollectServices \/ CollectDeps
  BY <1>1, <1>2 DEF Retrieve, FindCode, FindRunbooks, FindRunbooksByKeyword, SearchFails,
       StartCollectors, CollectCode, CollectRunbooks, CollectCodeGraph, CollectServices,
       CollectDeps, Collected, Formatted
<1>3. CASE Deduplicate \/ UseAsIs \/ Rerank \/ RerankLocally \/ Choose \/ Write
  BY <1>1, <1>3 DEF Deduplicate, UseAsIs, Rerank, RerankLocally, Choose, Write
<1>4. MaxRebuilds \in Nat
  BY RetrievalAssumption
<1>5. CASE ReadServices
  BY <1>4, <1>5 DEF ReadServices, CopyTypeInv
<1>6. CASE FindServices
  BY <1>4, <1>6 DEF FindServices, CopyTypeInv
<1>7. CASE ReplaceServices
  BY <1>4, <1>7 DEF ReplaceServices, CopyTypeInv
<1>8. CASE InvalidateServices
  <2>1. missed' = (missed \/ read \notin {0, generation})
    BY <1>8 DEF InvalidateServices
  <2>2. missed' \in BOOLEAN
    BY <2>1
  <2>3. generation' = generation /\ read' = read /\ cached' = 0 /\ replaced' = FALSE
    BY <1>8 DEF InvalidateServices
  <2>4. /\ generation' \in 1..MaxRebuilds + 1
        /\ cached' \in 0..generation' /\ read' \in 0..generation'
    BY <1>4, <2>3 DEF CopyTypeInv
  <2>5. replaced' \in BOOLEAN
    BY <2>3
  <2> QED
    BY <2>2, <2>4, <2>5, Zenon DEF CopyTypeInv
<1>9. CASE ReloadFails
  BY <1>9 DEF ReloadFails, CopyTypeInv
<1>10. CASE UNCHANGED retrievalVars
  BY <1>1, <1>10 DEF retrievalVars
<1> QED
  BY <1>2, <1>3, <1>5, <1>6, <1>7, <1>8, <1>9, <1>10 DEF RetrievalNext

\* A set of percentages has a largest one.
LEMMA LargestPercentage ==
  ASSUME NEW S \in SUBSET (0..100), S # {}
  PROVE  Max(S) \in S /\ \A x \in S : x <= Max(S)
<1>1. PICK T : T = {100 - x : x \in S}
  OBVIOUS
<1>2. T \subseteq Nat /\ T # {}
  <2>1. \A x \in S : 100 - x \in Nat
    OBVIOUS
  <2>2. T \subseteq Nat
    BY <1>1, <2>1
  <2>3. PICK x : x \in S
    OBVIOUS
  <2>4. 100 - x \in T
    BY <1>1, <2>3
  <2> QED
    BY <2>2, <2>4
<1>3. PICK t \in T : \A u \in T : t <= u
  BY <1>2, Least
<1>4. PICK x \in S : t = 100 - x
  BY <1>1, <1>3
<1>5. \A y \in S : y <= x
  <2>1. ASSUME NEW y \in S PROVE y <= x
    <3>1. 100 - y \in T
      BY <1>1
    <3>2. t <= 100 - y
      BY <1>3, <3>1
    <3> QED
      BY <1>4, <3>2
  <2> QED
    BY <2>1
<1>6. \E z \in S : \A y \in S : z >= y
  BY <1>5
<1> QED
  BY <1>6 DEF Max

LEMMA Quotient ==
  ASSUME NEW a \in 0..100, NEW b \in 1..100, a <= b
  PROVE  (100 * a) \div b \in 0..100
OBVIOUS

LEMMA Weighted ==
  ASSUME NEW a \in 0..100, NEW b \in 0..100
  PROVE  (70 * a + 30 * b) \div 100 \in 0..100
OBVIOUS

LEMMA NormalizedIs ==
  ASSUME NEW D, NEW f \in [D -> 0..100]
  PROVE  Normalized(f) \in [D -> 0..100]
<1>1. PICK S : S = Range(f) \cup {0}
  OBVIOUS
<1>2. S \in SUBSET (0..100) /\ S # {} /\ \A d \in D : f[d] \in S
  BY <1>1 DEF Range
<1>3. PICK top : top = Largest(f)
  OBVIOUS
<1>4. top \in 0..100 /\ \A d \in D : f[d] <= top
  BY <1>1, <1>2, <1>3, LargestPercentage DEF Largest
<1>5. ASSUME NEW d \in D PROVE (IF top = 0 THEN 0 ELSE (100 * f[d]) \div top) \in 0..100
  <2>1. CASE top = 0
    BY <2>1
  <2>2. CASE top # 0
    <3>1. top \in 1..100 /\ f[d] \in 0..100 /\ f[d] <= top
      BY <1>4, <2>2
    <3>2. (100 * f[d]) \div top \in 0..100
      BY <3>1, Quotient
    <3> QED
      BY <2>2, <3>2
  <2> QED
    BY <2>1, <2>2
<1>6. Normalized(f) = [d \in D |-> IF top = 0 THEN 0 ELSE (100 * f[d]) \div top]
  BY <1>3 DEF Normalized
<1> QED
  BY <1>5, <1>6

RankInv ==
  /\ stage \in {"idle", "discover", "expand", "rerank"} => rank = << >>
  /\ stage = "pool" => DOMAIN rank = kept
  /\ DOMAIN rank \subseteq kept
  /\ \A d \in DOMAIN rank : rank[d] \in 0..100

LEMMA RankStep ==
  ASSUME PoolInv, RankInv, [RetrievalNext]_retrievalVars
  PROVE  RankInv'
<1>1. CASE Gathering \/ Rebuilding
  BY <1>1 DEF Gathering, Rebuilding, poolVars, RankInv
<1>2. CASE Deduplicate
  <2>1. rank' = rank /\ rank = << >> /\ stage' = "rerank"
    BY <1>2 DEF Deduplicate, RankInv
  <2>2. DOMAIN << >> = {}
    OBVIOUS
  <2> QED
    BY <2>1, <2>2 DEF RankInv
<1>3. CASE UseAsIs \/ Choose \/ Write
  BY <1>3 DEF UseAsIs, Choose, Write, RankInv
<1>4. CASE Rerank \/ RerankLocally
  <2>1. rank' \in [kept -> 0..100]
    <3>1. kept \subseteq Documents
      BY DEF PoolInv
    <3>2. CASE RerankLocally
      <4>1. [d \in kept |-> d.local] \in [kept -> 0..100]
        BY <3>1, RetrievalAssumption
      <4> QED
        BY <3>2, <4>1, NormalizedIs DEF RerankLocally
    <3>3. CASE Rerank
      <4>1. PICK scores \in [kept -> RemoteScores] :
              rank' = [d \in kept |-> (70 * Normalized(scores)[d]
                                        + 30 * Normalized(RecallScores)[d]) \div 100]
        BY <3>3 DEF Rerank
      <4>2. PICK remote : remote = Normalized(scores)
        OBVIOUS
      <4>3. PICK recall : recall = Normalized(RecallScores)
        OBVIOUS
      <4>4. remote \in [kept -> 0..100]
        <5>1. scores \in [kept -> 0..100]
          BY <4>1, RetrievalAssumption
        <5> QED
          BY <4>2, <5>1, NormalizedIs
      <4>5. recall \in [kept -> 0..100]
        <5>1. RecallScores \in [kept -> 0..100]
          BY <3>1, RetrievalAssumption DEF RecallScores
        <5> QED
          BY <4>3, <5>1, NormalizedIs
      <4>6. ASSUME NEW d \in kept PROVE (70 * remote[d] + 30 * recall[d]) \div 100 \in 0..100
        <5>1. remote[d] \in 0..100 /\ recall[d] \in 0..100
          BY <4>4, <4>5
        <5> QED
          BY <5>1, Weighted
      <4> QED
        BY <4>1, <4>2, <4>3, <4>6
    <3> QED
      BY <1>4, <3>2, <3>3
  <2>2. stage' = "pool" /\ kept' = kept
    BY <1>4 DEF Rerank, RerankLocally
  <2> QED
    BY <2>1, <2>2 DEF RankInv
<1> QED
  BY <1>1, <1>2, <1>3, <1>4, RetrievalCases
LEMMA AdmitIs ==
  ASSUME NEW S \in SUBSET Documents, NEW taken \in Seq(S), NEW d \in S, RerankTopK # 0
  PROVE  /\ Admit(taken, d) \in Seq(S) /\ Len(Admit(taken, d)) >= Len(taken)
         /\ taken = << >> => Len(Admit(taken, d)) = 1
<1>1. PICK b \in BOOLEAN : Admit(taken, d) = IF b THEN taken ELSE Append(taken, d)
  BY DEF Admit
<1>2. CASE taken # << >>
  BY <1>1, <1>2
<1>3. CASE taken = << >>
  <2>1. PICK group : group = {i \in DOMAIN taken : taken[i].layer = d.layer /\ taken[i].service = d.service}
    OBVIOUS
  <2>2. group = {} /\ {i \in group : LowBand(taken[i])} = {}
    BY <1>3, <2>1
  <2>3. Cardinality(group) = 0 /\ Cardinality({i \in group : LowBand(taken[i])}) = 0
    BY <2>2, FS_EmptySet
  <2>4. RerankTopK \in Nat /\ RerankMaxPerService \in Nat /\ RerankMaxPerServiceLowBand \in Nat
    BY RetrievalAssumption
  <2>5. PICK cap : cap = IF d.service = NoService \/ RerankMaxPerService = 0
                         THEN RerankTopK ELSE RerankMaxPerService
    OBVIOUS
  <2>6. cap \in Nat /\ cap # 0
    BY <2>4, <2>5
  <2>7. Len(taken) = 0
    BY <1>3
  <2>8. /\ ~(Len(taken) >= RerankTopK) /\ ~(Cardinality(group) >= cap)
        /\ ~(/\ RerankMaxPerServiceLowBand > 0 /\ LowBand(d)
             /\ Cardinality({i \in group : LowBand(taken[i])}) >= RerankMaxPerServiceLowBand)
    BY <2>3, <2>4, <2>6, <2>7
  <2>9. Admit(taken, d) = Append(taken, d)
    BY <2>1, <2>5, <2>8, Zenon DEF Admit
  <2>10. Append(taken, d) \in Seq(S) /\ Len(Append(taken, d)) = Len(taken) + 1
    OBVIOUS
  <2> QED
    BY <2>7, <2>9, <2>10
<1> QED
  BY <1>2, <1>3

\* The order that is thinned out never becomes empty.
LEMMA Diverse ==
  ASSUME NEW S \in SUBSET Documents, NEW order \in Seq(S), order # << >>
  PROVE  SelectDiverse(order) \in Seq(S) /\ SelectDiverse(order) # << >>
<1>1. CASE RerankTopK = 0
  BY <1>1 DEF SelectDiverse
<1>2. CASE RerankTopK # 0
  <2>1. PICK n \in Nat : n = Len(order)
    OBVIOUS
  <2>2. order \in [1..n -> S] /\ DOMAIN order = 1..n /\ n # 0
    BY <2>1
  <2>3. \A t \in Seq(S), d \in S : Admit(t, d) \in Seq(S)
    BY <1>2, AdmitIs
  <2>4. PICK g \in [Seq(S) \X S -> Seq(S)] :
          \A t \in Seq(S), d \in S : g[<<t, d>>] = Admit(t, d)
    <3>1. PICK g : g = [p \in Seq(S) \X S |-> Admit(p[1], p[2])]
      OBVIOUS
    <3>2. \A p \in Seq(S) \X S : Admit(p[1], p[2]) \in Seq(S)
      BY <2>3
    <3> QED
      BY <3>1, <3>2
  <2>5. << >> \in Seq(S)
    OBVIOUS
  <2>6. PICK h \in [SUBSET (1..n) -> Seq(S)] : Folded(h, << >>, g, order, n)
    BY <2>2, <2>4, <2>5, FoldExists
  <2>7. h = [s \in SUBSET (1..n) |->
               IF s = {} THEN << >> ELSE Admit(h[s \ {Max(s)}], order[Max(s)])]
    <3>1. ASSUME NEW s \in SUBSET (1..n), s # {}
          PROVE  g[<<h[s \ {Max(s)}], order[Max(s)]>>] = Admit(h[s \ {Max(s)}], order[Max(s)])
      <4>1. Max(s) \in 1..n
        BY <3>1, LargestOf
      <4>2. h[s \ {Max(s)}] \in Seq(S) /\ order[Max(s)] \in S
        BY <2>2, <2>6, <4>1
      <4> QED
        BY <2>4, <4>2
    <3> QED
      BY <2>6, <3>1 DEF Folded
  <2>8. PICK f : /\ f = [s \in SUBSET (1..n) |->
                           IF s = {} THEN << >> ELSE Admit(f[s \ {Max(s)}], order[Max(s)])]
                 /\ SelectDiverse(order) = f[1..n]
    <3>1. PICK f : f = CHOOSE i : i = [s \in SUBSET (1..n) |->
                           IF s = {} THEN << >> ELSE Admit(i[s \ {Max(s)}], order[Max(s)])]
      OBVIOUS
    <3>2. SelectDiverse(order) = f[1..n]
      BY <1>2, <2>2, <3>1 DEF SelectDiverse, FoldLeft, MapThenFoldSet
    <3> QED
      BY <2>7, <3>1, <3>2
  <2>9. f[{}] = << >>
    BY <2>8
  <2>10. ASSUME NEW s \in SUBSET (1..n), s # {}, f[s \ {Max(s)}] \in Seq(S)
         PROVE  f[s] = g[<<f[s \ {Max(s)}], order[Max(s)]>>]
    <3>1. Max(s) \in 1..n
      BY <2>10, LargestOf
    <3>2. order[Max(s)] \in S
      BY <2>2, <3>1
    <3> QED
      BY <2>4, <2>8, <2>10, <3>2
  <2>11. Follows(f, Seq(S), g, order, n)
    <3>1. \A s \in SUBSET (1..n) : s # {} /\ f[s \ {Max(s)}] \in Seq(S) =>
            f[s] = g[<<f[s \ {Max(s)}], order[Max(s)]>>]
      BY <2>10
    <3>2. f[{}] \in Seq(S)
      BY <2>9
    <3> QED
      BY <3>1, <3>2, Zenon DEF Follows
  <2>12. PICK v \in [0..n -> Seq(S)] : Prefixed(v, f, g, order, n)
    BY <2>2, <2>4, <2>11, FoldSteps
  <2>13. ASSUME NEW k \in 1..n
         PROVE  /\ Len(v[k]) >= Len(v[k - 1])
                /\ k = 1 => Len(v[k]) = 1
    <3>1. k - 1 \in 0..n
      OBVIOUS
    <3>2. PICK t \in Seq(S) : t = v[k - 1]
      BY <2>12, <3>1
    <3>3. PICK d \in S : d = order[k]
      BY <2>2
    <3>4. v[k] = g[<<v[k - 1], order[k]>>]
      BY <2>12 DEF Prefixed
    <3>5. v[k] = Admit(t, d)
      BY <2>4, <3>2, <3>3, <3>4
    <3>6. k = 1 => t = << >>
      BY <2>9, <2>12, <3>2 DEF Prefixed
    <3>7. /\ Len(Admit(t, d)) >= Len(t)
          /\ t = << >> => Len(Admit(t, d)) = 1
      BY <1>2, AdmitIs
    <3> QED
      BY <3>2, <3>5, <3>6, <3>7
  <2>14. \A k \in 1..n : Len(v[k]) >= 1
    <3>1. PICK T : T = {k \in Nat : k \in 1..n => Len(v[k]) >= 1}
      OBVIOUS
    <3>2. 0 \in T
      BY <3>1
    <3>3. ASSUME NEW k \in T PROVE k + 1 \in T
      <4>1. k \in Nat /\ (k \in 1..n => Len(v[k]) >= 1)
        BY <3>1
      <4>2. SUFFICES ASSUME k + 1 \in 1..n PROVE Len(v[k + 1]) >= 1
        BY <3>1, <4>1
      <4>3. /\ Len(v[k + 1]) >= Len(v[(k + 1) - 1]) /\ (k + 1) - 1 = k
            /\ k + 1 = 1 => Len(v[k + 1]) = 1
        BY <2>13, <4>1, <4>2
      <4>4. Len(v[k + 1]) \in Nat /\ Len(v[k]) \in Nat
        <5>1. k + 1 \in 0..n /\ k \in 0..n
          BY <4>1, <4>2
        <5>2. v[k + 1] \in Seq(S) /\ v[k] \in Seq(S)
          BY <2>12, <5>1
        <5> QED
          BY <5>2
      <4>5. CASE k = 0
        <5>1. k + 1 = 1
          BY <4>5
        <5>2. Len(v[k + 1]) = 1
          BY <4>3, <5>1
        <5> QED
          BY <5>2
      <4>6. CASE k # 0
        <5>1. Len(v[k]) >= 1
          BY <4>1, <4>2, <4>6
        <5>2. Len(v[k + 1]) >= Len(v[k])
          BY <4>3
        <5> QED
          BY <4>4, <5>1, <5>2
      <4> QED
        BY <4>5, <4>6
    <3>4. T = Nat
      BY <3>1, <3>2, <3>3, Induction
    <3>5. ASSUME NEW k \in 1..n PROVE Len(v[k]) >= 1
      <4>1. k \in T
        BY <3>4
      <4> QED
        BY <3>1, <4>1
    <3> QED
      BY <3>5
  <2>15. SelectDiverse(order) = v[n] /\ v[n] \in Seq(S) /\ Len(v[n]) >= 1
    <3>1. n \in 1..n /\ n \in 0..n
      BY <2>2
    <3> QED
      BY <2>8, <2>12, <2>14, <3>1 DEF Prefixed
  <2> QED
    BY <2>15
<1> QED
  BY <1>1, <1>2
\* The parts a context is written from, and what stands in it of each.
Parts == Documents \cup {Part(g) : g \in General}

Entry == [part : Parts, whole : BOOLEAN]

Writing == [budget : Nat, text : Seq(Entry)]

\* The first parts stand in the context, all but the last whole, and the last too
\* as long as there is room.
Wrote(w, q, k) ==
  /\ Len(w.text) <= k
  /\ \A i \in 1..Len(w.text) : w.text[i].part = q[i]
  /\ \A i \in 1..Len(w.text) : i < Len(w.text) \/ w.budget > 0 => w.text[i].whole = TRUE
  /\ w.budget > 0 => Len(w.text) = k
  /\ k > 0 => Len(w.text) > 0

LEMMA PartSizes == \A p \in Parts : p.info \in Nat /\ p.info > 0
<1>1. ASSUME NEW p \in Parts PROVE p.info \in Nat /\ p.info > 0
  <2>1. CASE p \in Documents
    BY <2>1, RetrievalAssumption
  <2>2. CASE p \notin Documents
    <3>1. PICK g \in General : p = [source |-> g, info |-> GeneralSize]
      BY <1>1, <2>2 DEF Parts, Part
    <3> QED
      BY <3>1, RetrievalAssumption
  <2> QED
    BY <2>1, <2>2
<1> QED
  BY <1>1

LEMMA Fits ==
  ASSUME NEW left \in Int
  PROVE  \E whole \in BOOLEAN : whole = (left >= 0) /\ (left > 0 => whole = TRUE)
<1>1. (left >= 0) \in BOOLEAN
  OBVIOUS
<1>2. left > 0 => (left >= 0) = TRUE
  OBVIOUS
<1> QED
  BY <1>1, <1>2, Zenon

LEMMA PutIs ==
  ASSUME NEW w \in Writing, NEW p \in Parts
  PROVE  Put(w, p) \in Writing
<1>1. CASE w.budget = 0
  BY <1>1 DEF Put
<1>2. CASE w.budget # 0
  <2>1. PICK left : left = w.budget - p.info
    OBVIOUS
  <2>2. w.budget \in Nat /\ w.text \in Seq(Entry) /\ p.info \in Nat
    BY PartSizes DEF Writing
  <2>3. left \in Int
    BY <2>1, <2>2
  <2>4. PICK whole \in BOOLEAN : whole = (left >= 0)
    BY <2>3, Fits
  <2>5. PICK e : e = [part |-> p, whole |-> whole]
    OBVIOUS
  <2>6. e \in Entry
    BY <2>4, <2>5 DEF Entry
  <2>7. PICK room \in Nat : room = IF left > 0 THEN left - 1 ELSE 0
    BY <2>3
  <2>8. Put(w, p) = [budget |-> room, text |-> Append(w.text, e)]
    BY <1>2, <2>1, <2>4, <2>5, <2>7, Zenon DEF Put
  <2>9. Append(w.text, e) \in Seq(Entry)
    BY <2>2, <2>6
  <2> QED
    BY <2>8, <2>9 DEF Writing
<1> QED
  BY <1>1, <1>2

LEMMA PutStep ==
  ASSUME NEW w \in Writing, NEW q, NEW k \in Nat, q[k + 1] \in Parts, Wrote(w, q, k),
         k = 0 => w.budget > 0
  PROVE  Wrote(Put(w, q[k + 1]), q, k + 1)
<1>1. PICK p \in Parts : p = q[k + 1]
  OBVIOUS
<1>2. PICK n \in Nat : n = Len(w.text)
  BY DEF Writing
<1>3. w.budget \in Nat /\ w.text \in Seq(Entry) /\ p.info \in Nat /\ p.info > 0
  BY PartSizes DEF Writing
<1>4. CASE w.budget = 0
  <2>1. Put(w, p) = w
    BY <1>4 DEF Put
  <2>2. k > 0 /\ n > 0 /\ n <= k
    BY <1>2, <1>4 DEF Wrote
  <2> QED
    BY <1>1, <1>2, <1>4, <2>1, <2>2 DEF Wrote
<1>5. CASE w.budget # 0
  <2>1. PICK left : left = w.budget - p.info
    OBVIOUS
  <2>2. left \in Int
    BY <1>3, <2>1
  <2>3. PICK whole \in BOOLEAN : whole = (left >= 0) /\ (left > 0 => whole = TRUE)
    BY <2>2, Fits
  <2>4. PICK e : e = [part |-> p, whole |-> whole]
    OBVIOUS
  <2>5. PICK room \in Nat : room = IF left > 0 THEN left - 1 ELSE 0
    BY <2>2
  <2>6. PICK t : t = Append(w.text, e)
    OBVIOUS
  <2>7. PICK x : x = [budget |-> room, text |-> t]
    OBVIOUS
  <2>8. Put(w, p) = x
    BY <1>5, <2>1, <2>3, <2>4, <2>5, <2>6, <2>7, Zenon DEF Put
  <2>9. n = k /\ \A i \in 1..n : w.text[i].part = q[i] /\ w.text[i].whole = TRUE
    BY <1>2, <1>3, <1>5 DEF Wrote
  <2>10. e \in Entry
    BY <2>3, <2>4 DEF Entry
  <2>11. Len(t) = n + 1 /\ t[n + 1] = e /\ \A i \in 1..n : t[i] = w.text[i]
    BY <1>2, <1>3, <2>6, <2>10
  <2>12. \A i \in 1..(n + 1) : i \in 1..n \/ i = n + 1
    BY <1>2
  <2>13. \A i \in 1..(n + 1) : t[i].part = q[i]
    BY <1>1, <2>4, <2>9, <2>11, <2>12
  <2>14. room > 0 => e.whole = TRUE
    BY <2>2, <2>3, <2>4, <2>5
  <2>15. \A i \in 1..(n + 1) : i < n + 1 \/ room > 0 => t[i].whole = TRUE
    <3>1. ASSUME NEW i \in 1..(n + 1), i < n + 1 \/ room > 0 PROVE t[i].whole = TRUE
      <4>1. CASE i \in 1..n
        BY <2>9, <2>11, <4>1
      <4>2. CASE i = n + 1
        BY <2>11, <2>14, <3>1, <4>2
      <4> QED
        BY <2>12, <4>1, <4>2
    <3> QED
      BY <3>1
  <2>16. x.budget = room /\ x.text = t
    BY <2>7
  <2>17. Wrote(x, q, k + 1)
    BY <1>2, <2>9, <2>11, <2>13, <2>15, <2>16 DEF Wrote
  <2> QED
    BY <1>1, <2>8, <2>17
<1> QED
  BY <1>4, <1>5
\* What writing the parts leaves behind.
LEMMA WriteIs ==
  ASSUME NEW q \in Seq(Parts), NEW n \in Nat, n = Len(q), NEW start,
         start = [budget |-> EvidenceBudget, text |-> << >>]
  PROVE  /\ FoldLeft(Put, start, q) \in Writing
         /\ Wrote(FoldLeft(Put, start, q), q, n)
<1>1. q \in [1..n -> Parts] /\ DOMAIN q = 1..n
  OBVIOUS
<1>2. EvidenceBudget \in Nat /\ EvidenceBudget > 0
  BY RetrievalAssumption
<1>3. start \in Writing /\ start.budget > 0 /\ start.text = << >>
  BY <1>2 DEF Writing
<1>4. PICK g \in [Writing \X Parts -> Writing] :
        \A w \in Writing, p \in Parts : g[<<w, p>>] = Put(w, p)
  <2>1. PICK g : g = [x \in Writing \X Parts |-> Put(x[1], x[2])]
    OBVIOUS
  <2>2. \A w \in Writing, p \in Parts : Put(w, p) \in Writing
    BY PutIs
  <2>3. \A x \in Writing \X Parts : Put(x[1], x[2]) \in Writing
    BY <2>2
  <2> QED
    BY <2>1, <2>3
<1>5. PICK h \in [SUBSET (1..n) -> Writing] : Folded(h, start, g, q, n)
  BY <1>1, <1>3, <1>4, FoldExists
<1>6. h = [s \in SUBSET (1..n) |->
             IF s = {} THEN start ELSE Put(h[s \ {Max(s)}], q[Max(s)])]
  <2>1. ASSUME NEW s \in SUBSET (1..n), s # {}
        PROVE  g[<<h[s \ {Max(s)}], q[Max(s)]>>] = Put(h[s \ {Max(s)}], q[Max(s)])
    <3>1. Max(s) \in 1..n
      BY <2>1, LargestOf
    <3>2. h[s \ {Max(s)}] \in Writing /\ q[Max(s)] \in Parts
      BY <1>1, <1>5, <3>1
    <3> QED
      BY <1>4, <3>2
  <2> QED
    BY <1>5, <2>1 DEF Folded
<1>7. PICK f : /\ f = [s \in SUBSET (1..n) |->
                         IF s = {} THEN start ELSE Put(f[s \ {Max(s)}], q[Max(s)])]
               /\ FoldLeft(Put, start, q) = f[1..n]
  <2>1. PICK f : f = CHOOSE i : i = [s \in SUBSET (1..n) |->
                         IF s = {} THEN start ELSE Put(i[s \ {Max(s)}], q[Max(s)])]
    OBVIOUS
  <2>2. FoldLeft(Put, start, q) = f[1..n]
    BY <1>1, <2>1 DEF FoldLeft, MapThenFoldSet
  <2> QED
    BY <1>6, <2>1, <2>2
<1>8. f[{}] = start
  BY <1>7
<1>9. ASSUME NEW s \in SUBSET (1..n), s # {}, f[s \ {Max(s)}] \in Writing
      PROVE  f[s] = g[<<f[s \ {Max(s)}], q[Max(s)]>>]
  <2>1. Max(s) \in 1..n
    BY <1>9, LargestOf
  <2>2. q[Max(s)] \in Parts
    BY <1>1, <2>1
  <2> QED
    BY <1>4, <1>7, <1>9, <2>2
<1>10. Follows(f, Writing, g, q, n)
  <2>1. \A s \in SUBSET (1..n) : s # {} /\ f[s \ {Max(s)}] \in Writing =>
          f[s] = g[<<f[s \ {Max(s)}], q[Max(s)]>>]
    BY <1>9
  <2>2. f[{}] \in Writing
    BY <1>3, <1>8
  <2> QED
    BY <2>1, <2>2, Zenon DEF Follows
<1>11. PICK v \in [0..n -> Writing] : Prefixed(v, f, g, q, n)
  BY <1>1, <1>4, <1>10, FoldSteps
<1>12. PICK T : T = {k \in Nat : k <= n => Wrote(v[k], q, k)}
  OBVIOUS
<1>13. 0 \in T
  <2>1. v[0] = start
    BY <1>8, <1>11 DEF Prefixed
  <2>2. Wrote(start, q, 0)
    BY <1>3 DEF Wrote
  <2> QED
    BY <1>12, <2>1, <2>2
<1>14. ASSUME NEW k \in T PROVE k + 1 \in T
  <2>1. k \in Nat
    BY <1>12
  <2>2. ASSUME k + 1 <= n PROVE Wrote(v[k + 1], q, k + 1)
    <3>1. k + 1 \in 1..n /\ k \in 0..n /\ (k + 1) - 1 = k
      BY <2>1, <2>2
    <3>2. PICK w \in Writing : w = v[k]
      BY <1>11, <3>1
    <3>3. Wrote(w, q, k)
      BY <1>12, <1>14, <3>1, <3>2
    <3>4. k = 0 => w.budget > 0
      BY <1>3, <1>8, <1>11, <3>2 DEF Prefixed
    <3>5. q[k + 1] \in Parts
      BY <1>1, <3>1
    <3>6. v[k + 1] = g[<<v[k], q[k + 1]>>]
      BY <1>11, <3>1, Zenon DEF Prefixed
    <3>7. v[k + 1] = Put(w, q[k + 1])
      BY <1>4, <3>2, <3>5, <3>6
    <3>8. Wrote(Put(w, q[k + 1]), q, k + 1)
      BY <2>1, <3>3, <3>4, <3>5, PutStep
    <3> QED
      BY <3>7, <3>8
  <2> QED
    BY <1>12, <2>1, <2>2
<1>15. T = Nat
  <2>1. T \subseteq Nat
    BY <1>12
  <2> QED
    BY <1>13, <1>14, <2>1, Induction
<1>16. Wrote(v[n], q, n)
  BY <1>12, <1>15
<1>17. FoldLeft(Put, start, q) = v[n] /\ v[n] \in Writing
  <2>1. n \in 0..n
    OBVIOUS
  <2>2. v[n] = f[1..n]
    BY <1>11, Zenon DEF Prefixed
  <2> QED
    BY <1>7, <1>11, <2>1, <2>2
<1> QED
  BY <1>16, <1>17
\* The documents to write are some of the pool, and there are some if it has any.
ChosenInv ==
  /\ chosen \in Seq(pool)
  /\ stage \in {"write", "ready"} /\ pool # {} => chosen # << >>

LEMMA Sequenced ==
  ASSUME NEW S, IsFiniteSet(S), NEW s \in SetToSeqs(S)
  PROVE  s \in Seq(S) /\ (S # {} => s # << >>)
<1>1. PICK n \in Nat : n = Cardinality(S)
  BY FS_CardinalityType
<1>2. s \in [1..n -> S]
  BY <1>1 DEF SetToSeqs
<1>3. S # {} => n # 0
  BY <1>1, FS_EmptySet
<1>4. s \in Seq(S) /\ Len(s) = n
  BY <1>2
<1> QED
  BY <1>3, <1>4

LEMMA ChosenStep ==
  ASSUME PoolInv, ChosenInv, [RetrievalNext]_retrievalVars
  PROVE  ChosenInv'
<1>1. CASE Gathering
  <2>1. chosen' = chosen /\ pool \subseteq pool' /\ stage' \notin {"write", "ready"}
    BY <1>1 DEF Gathering, poolVars
  <2> QED
    BY <2>1 DEF ChosenInv
<1>2. CASE Rebuilding
  BY <1>2 DEF Rebuilding, poolVars, ChosenInv
<1>3. CASE Deduplicate \/ Rerank \/ RerankLocally \/ Write
  <2>1. /\ chosen' = chosen /\ pool' = pool
        /\ stage' \in {"write", "ready"} => stage \in {"write", "ready"}
    BY <1>3 DEF Deduplicate, Rerank, RerankLocally, Write
  <2> QED
    BY <2>1 DEF ChosenInv
<1>4. CASE UseAsIs
  <2>1. chosen' \in SetToSeqs(pool) /\ pool' = pool
    BY <1>4 DEF UseAsIs
  <2>2. IsFiniteSet(pool)
    BY FS_Subset, RetrievalAssumption DEF PoolInv
  <2>3. PICK s \in SetToSeqs(pool) : s = chosen'
    BY <2>1
  <2>4. s \in Seq(pool) /\ (pool # {} => s # << >>)
    BY <2>2, Sequenced
  <2> QED
    BY <2>1, <2>3, <2>4 DEF ChosenInv
<1>5. CASE Choose
  <2>1. PICK order \in Ordered : chosen' = SelectDiverse(order)
    BY <1>5 DEF Choose
  <2>2. PICK S : S # {} /\ S \subseteq kept /\ order \in SetToSeqs(S)
    <3>1. PICK above : above = {d \in kept : rank[d] >= RerankMinScore}
      OBVIOUS
    <3>2. order \in SetToSeqs(IF above = {} THEN kept ELSE above)
      BY <2>1, <3>1 DEF Ordered
    <3>3. kept # {}
      BY <1>5 DEF Choose, PoolInv
    <3> QED
      BY <3>1, <3>2, <3>3
  <2>3. S \subseteq pool /\ S \in SUBSET Documents /\ IsFiniteSet(S)
    BY <2>2, FS_Subset, RetrievalAssumption DEF PoolInv
  <2>4. order \in Seq(S) /\ order # << >>
    BY <2>2, <2>3, Sequenced
  <2>5. chosen' \in Seq(S) /\ chosen' # << >>
    BY <2>1, <2>3, <2>4, Diverse
  <2>6. pool' = pool
    BY <1>5 DEF Choose
  <2> QED
    BY <2>3, <2>5, <2>6 DEF ChosenInv
<1> QED
  BY <1>1, <1>2, <1>3, <1>4, <1>5, RetrievalCases

\* What stands in the context is of the pool or a section that was worded.
ContextInv ==
  /\ stage # "ready" => context = << >>
  /\ \A i \in DOMAIN context : context[i].part \in pool \cup {Part(g) : g \in general}
  /\ EvidenceSurvives

LEMMA PrioritySections ==
  ASSUME NEW n \in Nat, n = Len(chosen), chosen \in Seq(pool), pool \subseteq Documents,
         general \subseteq General
  PROVE  /\ InPriority \in Seq(Parts) /\ Len(InPriority) >= n
         /\ \A i \in 1..Len(InPriority) :
              IF i <= n THEN InPriority[i] = chosen[i]
              ELSE InPriority[i] \in {Part(g) : g \in general}
<1>1. PICK T : T = {Part(g) : g \in general}
  OBVIOUS
<1>2. ASSUME NEW name PROVE Section(name) \in Seq(T)
  <2>1. CASE name \in general
    <3>1. PICK p \in T : p = Part(name)
      BY <1>1, <2>1
    <3>2. <<p>> \in Seq(T)
      OBVIOUS
    <3> QED
      BY <2>1, <3>1, <3>2 DEF Section
  <2>2. CASE name \notin general
    BY <2>2 DEF Section
  <2> QED
    BY <2>1, <2>2
<1>3. PICK s \in Seq(T) : s = Sections
  <2>1. PICK a \in Seq(T) : a = Section("deps")
    BY <1>2
  <2>2. PICK b \in Seq(T) : b = Section("services")
    BY <1>2
  <2>3. a \o b \in Seq(T)
    OBVIOUS
  <2> QED
    BY <2>1, <2>2, <2>3 DEF Sections
<1>4. T \subseteq Parts /\ pool \subseteq Parts
  BY <1>1 DEF Parts
<1>5. PICK c \in Seq(pool) : c = chosen
  OBVIOUS
<1>6. PICK q : q = c \o s
  OBVIOUS
<1>7. q = InPriority
  BY <1>3, <1>5, <1>6 DEF InPriority
<1>8. c \in Seq(Parts) /\ s \in Seq(Parts)
  BY <1>4
<1>9. q \in Seq(Parts) /\ Len(q) = n + Len(s)
  BY <1>5, <1>6, <1>8
<1>10. \A i \in 1..Len(q) : IF i <= n THEN q[i] = c[i] ELSE q[i] = s[i - n]
  BY <1>5, <1>6, <1>8, <1>9
<1>11. ASSUME NEW i \in 1..Len(q), ~(i <= n) PROVE q[i] \in T
  <2>1. i - n \in 1..Len(s)
    BY <1>9, <1>11
  <2>2. s[i - n] \in T
    BY <2>1
  <2> QED
    BY <1>10, <1>11, <2>2
<1>12. ASSUME NEW i \in 1..Len(q)
       PROVE  IF i <= n THEN q[i] = chosen[i] ELSE q[i] \in T
  <2>1. CASE i <= n
    BY <1>5, <1>10, <2>1
  <2>2. CASE ~(i <= n)
    BY <1>11, <2>2
  <2> QED
    BY <2>1, <2>2
<1>13. q \in Seq(Parts) /\ Len(q) >= n
  <2>1. Len(s) \in Nat
    OBVIOUS
  <2> QED
    BY <1>9, <2>1
<1> QED
  BY <1>1, <1>7, <1>12, <1>13, Zenon

\* A section stands in the context only behind the chosen documents, all whole.
LEMMA WrittenSurvives ==
  ASSUME PoolInv, ChosenInv, Write
  PROVE  ContextInv'
<1>1. PICK n \in Nat : n = Len(chosen)
  BY DEF ChosenInv
<1>2. /\ chosen \in Seq(pool) /\ pool \subseteq Documents /\ general \subseteq General
      /\ pool # {} => n > 0
  BY <1>1 DEF ChosenInv, PoolInv, Write
<1>3. PICK q \in Seq(Parts) : q = InPriority
  BY <1>1, <1>2, PrioritySections
<1>4. PICK m \in Nat : m = Len(q)
  OBVIOUS
<1>5. /\ m >= n
      /\ \A i \in 1..m : IF i <= n THEN q[i] = chosen[i]
                         ELSE q[i] \in {Part(g) : g \in general}
  BY <1>1, <1>2, <1>3, <1>4, PrioritySections
<1>6. \A i \in 1..n : chosen[i] \in pool
  BY <1>1, <1>2
<1>7. PICK start : start = [budget |-> EvidenceBudget, text |-> << >>]
  OBVIOUS
<1>8. PICK out : out = FoldLeft(Put, start, q)
  OBVIOUS
<1>9. out \in Writing /\ Wrote(out, q, m)
  BY <1>4, <1>7, <1>8, WriteIs
<1>10. PICK t : t = out.text
  OBVIOUS
<1>11. /\ context' = t /\ stage' = "ready"
       /\ UNCHANGED <<pool, general, chosen>>
  BY <1>3, <1>7, <1>8, <1>10 DEF Write
<1>12. PICK len \in Nat : len = Len(t)
  BY <1>9, <1>10 DEF Writing
<1>13. /\ DOMAIN t = 1..len /\ \A i \in 1..len : t[i] \in Entry
       /\ t = << >> <=> len = 0
  BY <1>9, <1>10, <1>12 DEF Writing
<1>14. /\ len <= m /\ (m > 0 => len > 0)
       /\ \A i \in 1..len : t[i].part = q[i]
       /\ \A i \in 1..len : i < len => t[i].whole = TRUE
  BY <1>9, <1>10, <1>12 DEF Wrote
<1>15. \A i \in 1..len : /\ i <= n => t[i].part = chosen[i] /\ t[i].part \in pool
                         /\ i > n => t[i].part \in {Part(g) : g \in general}
  BY <1>5, <1>6, <1>14
<1>16. \A i \in DOMAIN t : t[i].part \in pool \cup {Part(g) : g \in general}
  BY <1>13, <1>15
<1>17. pool # {} => t # << >> /\ Head(t).part \in pool
  <2>1. ASSUME pool # {} PROVE t # << >> /\ Head(t).part \in pool
    <3>1. n > 0 /\ len > 0 /\ 1 \in 1..len
      BY <1>2, <1>5, <1>14, <2>1
    <3>2. Head(t) = t[1]
      BY <1>13, <3>1
    <3> QED
      BY <1>13, <1>15, <3>1, <3>2
  <2> QED
    BY <2>1
<1>18. ASSUME NEW i \in DOMAIN t, t[i].part.source \in General,
              NEW d \in ToSet(chosen)
       PROVE  [part |-> d, whole |-> TRUE] \in ToSet(t)
  <2>1. i \in 1..len /\ i > n
    <3>1. \A e \in pool : e.source \notin General
      BY <1>2, RetrievalAssumption DEF General
    <3> QED
      BY <1>13, <1>15, <1>18, <3>1
  <2>2. PICK j \in 1..n : d = chosen[j]
    BY <1>1, <1>2, <1>18 DEF ToSet
  <2>3. j \in 1..len /\ j < len
    BY <2>1
  <2>4. PICK e \in Entry : e = t[j]
    BY <1>13, <2>3
  <2>5. e.part = d /\ e.whole = TRUE
    BY <1>14, <1>15, <2>2, <2>3, <2>4
  <2>6. e = [part |-> d, whole |-> TRUE]
    BY <2>5 DEF Entry
  <2>7. j \in DOMAIN t
    BY <1>13, <2>3
  <2> QED
    BY <2>4, <2>6, <2>7 DEF ToSet
<1>19. EvidenceSurvives'
  BY <1>11, <1>17, <1>18 DEF EvidenceSurvives
<1> QED
  BY <1>11, <1>16, <1>19 DEF ContextInv

LEMMA ContextStep ==
  ASSUME PoolInv, ChosenInv, ContextInv, [RetrievalNext]_retrievalVars
  PROVE  ContextInv'
<1>1. CASE Gathering
  <2>1. /\ context' = context /\ context = << >>
        /\ stage' # "ready"
    BY <1>1 DEF Gathering, poolVars, ContextInv
  <2> QED
    BY <2>1 DEF ContextInv, EvidenceSurvives
<1>2. CASE Rebuilding
  BY <1>2 DEF Rebuilding, poolVars, ContextInv, EvidenceSurvives
<1>3. CASE Deduplicate \/ UseAsIs \/ Rerank \/ RerankLocally \/ Choose
  <2>1. /\ context' = context /\ stage # "ready" /\ stage' # "ready"
    BY <1>3 DEF Deduplicate, UseAsIs, Rerank, RerankLocally, Choose
  <2> QED
    BY <2>1 DEF ContextInv, EvidenceSurvives
<1>4. CASE Write
  BY <1>4, WrittenSurvives
<1> QED
  BY <1>1, <1>2, <1>3, <1>4, RetrievalCases

RetrievalInv == PoolInv /\ CopyTypeInv /\ RankInv /\ ChosenInv /\ ContextInv

LEMMA RetrievalInvariant == RetrievalSpec => []RetrievalInv
<1>1. ASSUME RetrievalInit PROVE RetrievalInv
  <2>1. CopyTypeInv
    <3>1. MaxRebuilds \in Nat
      BY RetrievalAssumption
    <3>2. 1 \in 1..(MaxRebuilds + 1) /\ 0 \in 0..1
      BY <3>1
    <3> QED
      BY <1>1, <3>2 DEF RetrievalInit, CopyTypeInv
  <2>2. RankInv
    BY <1>1 DEF RetrievalInit, RankInv
  <2>3. ChosenInv
    BY <1>1 DEF RetrievalInit, ChosenInv
  <2>4. ContextInv
    BY <1>1 DEF RetrievalInit, ContextInv, EvidenceSurvives
  <2> QED
    BY <1>1, <2>1, <2>2, <2>3, <2>4, PoolStart DEF RetrievalInv
<1>2. RetrievalInv /\ [RetrievalNext]_retrievalVars => RetrievalInv'
  BY PoolStep, CopyTypeStep, RankStep, ChosenStep, ContextStep DEF RetrievalInv
<1>3. RetrievalInit => RetrievalInv
  BY <1>1
<1> QED
  BY <1>2, <1>3, PTL DEF RetrievalSpec

\* What a retrieval holds is always of its type: what is cut, kept, ranked,
\* chosen and written comes from the pool, and every rank is a percentage
\* (RetrievePlan and the collectors and rankers it calls).
THEOREM RetrievalTyped == RetrievalSpec => []RetrievalTypeOK
<1>1. ASSUME RetrievalInv PROVE RetrievalTypeOK
  <2>1. ToSet(chosen) \subseteq pool
    BY <1>1 DEF RetrievalInv, ChosenInv, ToSet
  <2>2. \A i \in DOMAIN context : context[i].part \in pool \cup {Part(g) : g \in general}
    BY <1>1 DEF RetrievalInv, ContextInv
  <2> QED
    BY <1>1, <2>1, <2>2 DEF RetrievalInv, PoolInv, CopyTypeInv, RankInv, RetrievalTypeOK
<1>2. RetrievalInv => RetrievalTypeOK
  BY <1>1
<1> QED
  BY <1>2, RetrievalInvariant, PTL

\* Whatever search, collector or rerank service fails, and however small the
\* budget is, the context of a question for which anything was found starts with
\* a document, and what is not evidence comes only behind all that was chosen
\* (sortPartsByPriority, assemble).
THEOREM EvidenceFirst == RetrievalSpec => []EvidenceSurvives
<1>1. RetrievalInv => EvidenceSurvives
  BY DEF RetrievalInv, ContextInv
<1> QED
  BY <1>1, RetrievalInvariant, PTL
-----------------------------------------------------------------------------
(* Web search: reading a page.                                             *)

Remembered == [in : BOOLEAN, inTitle : BOOLEAN, depth : Nat, url : Blocks \cup {NoBlock},
               title : Blocks \cup {NoBlock}, snippet : SUBSET Blocks]

\* What is remembered comes from one result.
FromOne(r, b) ==
  r.url \in {NoBlock, b} /\ r.title \in {NoBlock, b} /\ r.snippet \subseteq {b}

\* The page up to its k-th token has been read.
ReadUpTo(p, k) ==
  /\ Len(tokens) = Len(p) - k /\ \A i \in 1..Len(tokens) : tokens[i] = p[k + i]
  /\ k = 0 => reader = Between
  /\ k > 0 => FromOne(reader, p[k].of) /\ reader.depth <= Opened(p, k) - Closed(p, k)

ReaderInv ==
  /\ engine \in Engines /\ reader \in Remembered
  /\ engine # "bing" => reader.depth = 0
  /\ at = "idle" => reader = Between
  /\ at = "read" => /\ tokens \in Seq([is : Kinds, of : Blocks])
                    /\ \E p \in Pages : \E k \in 0..Len(p) : ReadUpTo(p, k)

\* A division that starts or ends is counted from there on.
LEMMA Divisions ==
  ASSUME NEW p, NEW k \in Nat
  PROVE  /\ Opened(p, 0) = 0 /\ Closed(p, 0) = 0
         /\ Opened(p, k) \in Nat /\ Closed(p, k) \in Nat
         /\ Opened(p, k + 1) = Opened(p, k) + (IF p[k + 1].is \in {"div", "caption"} THEN 1 ELSE 0)
         /\ Closed(p, k + 1) = Closed(p, k) + (IF p[k + 1].is = "enddiv" THEN 1 ELSE 0)
<1>1. ASSUME NEW K
      PROVE  /\ Cardinality({j \in 1..0 : p[j].is \in K}) = 0
             /\ Cardinality({j \in 1..k : p[j].is \in K}) \in Nat
             /\ Cardinality({j \in 1..(k + 1) : p[j].is \in K})
                  = Cardinality({j \in 1..k : p[j].is \in K}) + (IF p[k + 1].is \in K THEN 1 ELSE 0)
  <2>1. PICK A : A = {j \in 1..k : p[j].is \in K}
    OBVIOUS
  <2>2. PICK B : B = {j \in 1..(k + 1) : p[j].is \in K}
    OBVIOUS
  <2>3. {j \in 1..0 : p[j].is \in K} = {}
    OBVIOUS
  <2>4. IsFiniteSet(1..k) /\ A \subseteq 1..k
    BY <2>1, FS_Interval
  <2>5. IsFiniteSet(A)
    BY <2>4, FS_Subset
  <2>6. Cardinality(A) \in Nat
    BY <2>5, FS_CardinalityType
  <2>7. Cardinality(B) = Cardinality(A) + (IF p[k + 1].is \in K THEN 1 ELSE 0)
    <3>1. CASE p[k + 1].is \in K
      <4>1. B = A \cup {k + 1} /\ k + 1 \notin A
        BY <2>1, <2>2, <3>1
      <4>2. Cardinality(A \cup {k + 1}) = Cardinality(A) + 1
        BY <2>5, <4>1, FS_AddElement
      <4> QED
        BY <3>1, <4>1, <4>2
    <3>2. CASE p[k + 1].is \notin K
      <4>1. B = A
        BY <2>1, <2>2, <3>2
      <4> QED
        BY <2>6, <3>2, <4>1
    <3> QED
      BY <3>1, <3>2
  <2> QED
    BY <2>1, <2>2, <2>3, <2>6, <2>7, FS_EmptySet
<1>2. \A i : Closed(p, i) = Cardinality({j \in 1..i : p[j].is \in {"enddiv"}})
  BY DEF Closed
<1>3. \A i : Opened(p, i) = Cardinality({j \in 1..i : p[j].is \in {"div", "caption"}})
  BY DEF Opened
<1>4. Opened(p, 0) = 0 /\ Opened(p, k) \in Nat
      /\ Opened(p, k + 1) = Opened(p, k) + (IF p[k + 1].is \in {"div", "caption"} THEN 1 ELSE 0)
  BY <1>1, <1>3
<1>5. Closed(p, 0) = 0 /\ Closed(p, k) \in Nat
      /\ Closed(p, k + 1) = Closed(p, k) + (IF p[k + 1].is \in {"enddiv"} THEN 1 ELSE 0)
  BY <1>1, <1>2
<1> QED
  BY <1>4, <1>5
LEMMA TailIs ==
  ASSUME NEW E, NEW s \in Seq(E), s # << >>, NEW m, m = Len(s)
  PROVE  /\ Head(s) = s[1] /\ s[1] \in E
         /\ Tail(s) \in Seq(E) /\ Len(Tail(s)) = m - 1
         /\ \A i \in 1..(m - 1) : Tail(s)[i] = s[i + 1]
<1>1. Len(s) \in Nat /\ Len(s) # 0
  OBVIOUS
<1>2. Head(s) = s[1] /\ s[1] \in E
  BY <1>1
<1>3. Tail(s) \in Seq(E) /\ Len(Tail(s)) = Len(s) - 1
  BY <1>1
<1>4. \A i \in 1..(Len(s) - 1) : Tail(s)[i] = s[i + 1]
  BY <1>1
<1> QED
  BY <1>2, <1>3, <1>4

LEMMA NextToken ==
  ASSUME NEW p \in Pages, NEW k \in 0..Len(p), ReadUpTo(p, k), ReaderInv, ReadToken
  PROVE  /\ k + 1 \in 1..Len(p) /\ Token = p[k + 1] /\ Token.is \in Kinds /\ Token.of \in Blocks
         /\ tokens' \in Seq([is : Kinds, of : Blocks])
         /\ Len(tokens') = Len(p) - (k + 1)
         /\ \A i \in 1..Len(tokens') : tokens'[i] = p[(k + 1) + i]
<1>1. PICK s \in Seq([is : Kinds, of : Blocks]) : s = tokens
  BY DEF ReaderInv, ReadToken
<1>2. PICK n \in Nat : n = Len(p)
  BY WebAssumption
<1>3. s # << >> /\ tokens' = Tail(s) /\ Token = Head(s)
  BY <1>1 DEF ReadToken, Token
<1>4. PICK m \in Nat : m = Len(s)
  OBVIOUS
<1>5. m = n - k /\ m > 0 /\ \A i \in 1..m : s[i] = p[k + i]
  BY <1>1, <1>2, <1>3, <1>4 DEF ReadUpTo
<1>6. /\ Head(s) = s[1] /\ s[1] \in [is : Kinds, of : Blocks]
      /\ Tail(s) \in Seq([is : Kinds, of : Blocks]) /\ Len(Tail(s)) = m - 1
      /\ \A i \in 1..(m - 1) : Tail(s)[i] = s[i + 1]
  <2>1. PICK E : E = [is : Kinds, of : Blocks]
    OBVIOUS
  <2>2. s \in Seq(E) /\ 1 \in 1..m
    BY <1>5, <2>1
  <2>3. /\ Head(s) = s[1] /\ s[1] \in E
        /\ Tail(s) \in Seq(E) /\ Len(Tail(s)) = m - 1
        /\ \A i \in 1..(m - 1) : Tail(s)[i] = s[i + 1]
    BY <1>3, <1>4, <2>2, TailIs
  <2> QED
    BY <2>1, <2>3
<1>7. \A i \in 1..(m - 1) : i + 1 \in 1..m /\ k + (i + 1) = (k + 1) + i
  BY <1>4
<1>8. \A i \in 1..(m - 1) : Tail(s)[i] = p[(k + 1) + i]
  BY <1>5, <1>6, <1>7
<1>9. 1 \in 1..m /\ k + 1 \in 1..n
  BY <1>5
<1> QED
  BY <1>2, <1>3, <1>5, <1>6, <1>8, <1>9

\* Within a result what is read goes on being of that result, and the reader is
\* never deeper in divisions than the page.
LEMMA ReadsWithin ==
  ASSUME ReaderInv, Token.is \in Kinds, Token.of \in Blocks, FromOne(reader, Token.of),
         IF engine = "bing" THEN ReadBing ELSE ReadDuckDuckGo
  PROVE  /\ reader' \in Remembered /\ FromOne(reader', Token.of)
         /\ engine # "bing" => reader'.depth = 0
         /\ \/ reader'.depth = 0
            \/ reader'.depth = reader.depth
                 + (IF Token.is \in {"div", "caption"} THEN 1 ELSE 0)
                 - (IF Token.is = "enddiv" THEN 1 ELSE 0)
<1>1. PICK r \in Remembered : r = reader
  BY DEF ReaderInv
<1>2. PICK t : t = Token
  OBVIOUS
<1>3. FromOne(r, t.of) /\ t.of \in Blocks
  BY <1>1, <1>2
<1>4. PICK fresh : fresh = StartResult
  OBVIOUS
<1>5. fresh \in Remembered /\ FromOne(fresh, t.of) /\ fresh.depth = 0
  <2>1. fresh = [in |-> TRUE, inTitle |-> r.inTitle, depth |-> 0, url |-> NoBlock,
                 title |-> NoBlock, snippet |-> {}]
    BY <1>1, <1>4 DEF StartResult, Between
  <2> QED
    BY <2>1 DEF Remembered, FromOne
<1>6. PICK named : named = Titled(r)
  OBVIOUS
<1>7. named \in Remembered /\ FromOne(named, t.of) /\ named.depth = r.depth
  BY <1>2, <1>3, <1>6 DEF Titled, Remembered, FromOne
<1>8. PICK linked : linked = [r EXCEPT !.url = t.of]
  OBVIOUS
<1>9. linked \in Remembered /\ FromOne(linked, t.of) /\ linked.depth = r.depth
  BY <1>3, <1>8 DEF Remembered, FromOne
<1>10. CASE engine # "bing"
  <2>1. r.depth = 0
    BY <1>1, <1>10 DEF ReaderInv
  <2>2. PICK out : out = [r EXCEPT !.in = FALSE]
    OBVIOUS
  <2>3. out \in Remembered /\ FromOne(out, t.of) /\ out.depth = r.depth
    BY <1>3, <2>2 DEF Remembered, FromOne
  <2>4. reader' \in {fresh, linked, named, out, r}
    BY <1>1, <1>2, <1>4, <1>6, <1>8, <1>10, <2>2 DEF ReadDuckDuckGo
  <2> QED
    BY <1>2, <1>3, <1>5, <1>7, <1>9, <2>1, <2>3, <2>4
<1>11. CASE engine = "bing"
  <2>1. CASE r.depth > 0
    <3>1. CASE t.is \in {"div", "caption"}
      <4>1. reader' = [r EXCEPT !.depth = r.depth + 1]
        BY <1>1, <1>2, <1>11, <2>1, <3>1 DEF ReadBing
      <4>2. t.is # "enddiv"
        BY <3>1
      <4> QED
        BY <1>1, <1>2, <1>3, <1>11, <3>1, <4>1, <4>2 DEF Remembered, FromOne
    <3>2. CASE t.is = "enddiv"
      <4>1. reader' = [r EXCEPT !.depth = r.depth - 1]
        BY <1>1, <1>2, <1>11, <2>1, <3>2 DEF ReadBing
      <4> QED
        BY <1>1, <1>2, <1>3, <1>11, <2>1, <3>2, <4>1 DEF Remembered, FromOne
    <3>3. CASE t.is \notin {"div", "caption", "enddiv"}
      <4>1. reader' = [r EXCEPT !.snippet = r.snippet \cup {t.of}] \/ reader' = r
        BY <1>1, <1>2, <1>11, <2>1, <3>3 DEF ReadBing
      <4>2. reader' \in Remembered /\ FromOne(reader', t.of) /\ reader'.depth = r.depth
        BY <1>3, <4>1 DEF Remembered, FromOne
      <4>3. r.depth \in Nat
        BY DEF Remembered
      <4> QED
        BY <1>1, <1>2, <1>11, <3>3, <4>2, <4>3
    <3> QED
      BY <3>1, <3>2, <3>3
  <2>2. CASE ~(r.depth > 0)
    <3>1. r.depth = 0
      BY <2>2 DEF Remembered
    <3>2. \/ reader' \in {fresh, linked, named, r}
          \/ t.is = "caption" /\ reader' = [r EXCEPT !.depth = 1, !.snippet = {}]
          \/ \E i, j \in BOOLEAN : reader' = [r EXCEPT !.in = i, !.inTitle = j]
      <4>1. PICK j \in BOOLEAN : j = (r.inTitle /\ ~r.in)
        BY DEF Remembered
      <4>2. \/ reader' \in {fresh, linked, named, r}
            \/ t.is = "caption" /\ reader' = [r EXCEPT !.depth = 1, !.snippet = {}]
            \/ reader' = [r EXCEPT !.inTitle = TRUE]
            \/ reader' = [r EXCEPT !.inTitle = FALSE]
            \/ reader' = [r EXCEPT !.in = FALSE, !.inTitle = j]
        BY <1>1, <1>2, <1>4, <1>6, <1>8, <1>11, <3>1, <4>1 DEF ReadBing
      <4>3. r.in \in BOOLEAN /\ \A b \in BOOLEAN : [r EXCEPT !.inTitle = b] = [r EXCEPT !.in = r.in, !.inTitle = b]
        BY DEF Remembered
      <4> QED
        BY <4>2, <4>3
    <3>3. CASE reader' \in {fresh, linked, named, r}
      BY <1>2, <1>3, <1>5, <1>7, <1>9, <1>11, <3>1, <3>3
    <3>4. CASE t.is = "caption" /\ reader' = [r EXCEPT !.depth = 1, !.snippet = {}]
      <4>1. PICK x : x = [r EXCEPT !.depth = 1, !.snippet = {}]
        OBVIOUS
      <4>2. x \in Remembered /\ FromOne(x, t.of) /\ x.depth = 1
        BY <1>3, <4>1 DEF Remembered, FromOne
      <4>3. t.is \in {"div", "caption"} /\ t.is # "enddiv"
        BY <3>4
      <4> QED
        BY <1>1, <1>2, <1>11, <3>1, <3>4, <4>1, <4>2, <4>3
    <3>5. CASE \E i, j \in BOOLEAN : reader' = [r EXCEPT !.in = i, !.inTitle = j]
      BY <1>2, <1>3, <1>11, <3>1, <3>5 DEF Remembered, FromOne
    <3> QED
      BY <3>2, <3>3, <3>4, <3>5
  <2> QED
    BY <2>1, <2>2
<1> QED
  BY <1>10, <1>11
\* One more token of the page is read.
LEMMA ReadsOn ==
  ASSUME NEW p \in Pages, NEW k \in 0..Len(p), ReadUpTo(p, k), ReaderInv, ReadToken
  PROVE  ReadUpTo(p, k + 1)' /\ k + 1 \in 0..Len(p) /\ ReaderInv'
<1>1. /\ k + 1 \in 1..Len(p) /\ Token = p[k + 1] /\ Token.is \in Kinds /\ Token.of \in Blocks
      /\ tokens' \in Seq([is : Kinds, of : Blocks])
      /\ Len(tokens') = Len(p) - (k + 1)
      /\ \A i \in 1..Len(tokens') : tokens'[i] = p[(k + 1) + i]
  BY NextToken
<1>2. PICK t : t = p[k + 1]
  OBVIOUS
<1>3. PICK o \in Nat : o = Opened(p, k)
  BY Divisions
<1>4. PICK c \in Nat : c = Closed(p, k)
  BY Divisions
<1>5. PICK oo \in Nat : oo = Opened(p, k + 1)
  BY Divisions
<1>6. PICK cc \in Nat : cc = Closed(p, k + 1)
  BY Divisions
<1>7. /\ oo = o + (IF t.is \in {"div", "caption"} THEN 1 ELSE 0)
      /\ cc = c + (IF t.is = "enddiv" THEN 1 ELSE 0)
  <2>1. k \in Nat
    OBVIOUS
  <2>2. Opened(p, k + 1) = Opened(p, k) + (IF p[k + 1].is \in {"div", "caption"} THEN 1 ELSE 0)
    BY <2>1, Divisions
  <2>3. Closed(p, k + 1) = Closed(p, k) + (IF p[k + 1].is = "enddiv" THEN 1 ELSE 0)
    BY <2>1, Divisions
  <2>4. oo = o + (IF t.is \in {"div", "caption"} THEN 1 ELSE 0)
    BY <1>2, <1>3, <1>5, <2>2, Zenon
  <2>5. cc = c + (IF t.is = "enddiv" THEN 1 ELSE 0)
    BY <1>2, <1>4, <1>6, <2>3, Zenon
  <2> QED
    BY <2>4, <2>5
<1>8. /\ cc <= oo
      /\ k + 1 = 1 \/ t.of # p[k].of => t.is = "result" /\ oo = cc
  <2>1. k + 1 \in DOMAIN p /\ (k + 1) - 1 = k
    BY <1>1, WebAssumption
  <2> QED
    BY <1>2, <1>5, <1>6, <2>1, WebAssumption
<1>9. IF engine = "bing" THEN ReadBing ELSE ReadDuckDuckGo
  BY DEF ReadToken
<1>10. PICK r \in Remembered : r = reader
  BY DEF ReaderInv
<1>11. r.depth \in Nat /\ (k > 0 => FromOne(r, p[k].of) /\ r.depth <= o - c) /\ (k = 0 => r = Between)
  BY <1>3, <1>4, <1>10 DEF ReadUpTo, Remembered
<1>12. PICK d : d = reader'
  OBVIOUS
<1>13. /\ d \in Remembered /\ FromOne(d, t.of) /\ d.depth <= oo - cc
       /\ engine # "bing" => d.depth = 0
  <2>1. CASE k > 0 /\ t.of = p[k].of
    <3>1. FromOne(reader, Token.of)
      BY <1>1, <1>2, <1>10, <1>11, <2>1
    <3>2. /\ reader' \in Remembered /\ FromOne(reader', Token.of)
          /\ engine # "bing" => reader'.depth = 0
          /\ \/ reader'.depth = 0
             \/ reader'.depth = reader.depth
                  + (IF Token.is \in {"div", "caption"} THEN 1 ELSE 0)
                  - (IF Token.is = "enddiv" THEN 1 ELSE 0)
      BY <1>1, <1>9, <3>1, ReadsWithin
    <3>3. \/ d.depth = 0
          \/ d.depth = r.depth + (IF t.is \in {"div", "caption"} THEN 1 ELSE 0)
                               - (IF t.is = "enddiv" THEN 1 ELSE 0)
      BY <1>1, <1>2, <1>10, <1>12, <3>2
    <3>4. r.depth \in Nat /\ r.depth <= o - c
      BY <1>11, <2>1
    <3>5. d.depth <= oo - cc
      <4>1. PICK u \in {0, 1} : u = IF t.is \in {"div", "caption"} THEN 1 ELSE 0
        OBVIOUS
      <4>2. PICK w \in {0, 1} : w = IF t.is = "enddiv" THEN 1 ELSE 0
        OBVIOUS
      <4>3. oo = o + u /\ cc = c + w /\ (d.depth = 0 \/ d.depth = r.depth + u - w)
        BY <1>7, <3>3, <4>1, <4>2
      <4>4. o \in Nat /\ c \in Nat /\ cc <= oo
        BY <1>3, <1>4, <1>8, Divisions
      <4>5. CASE d.depth = 0
        BY <4>3, <4>4, <4>5
      <4>6. CASE d.depth = r.depth + u - w
        BY <3>4, <4>3, <4>4, <4>6
      <4> QED
        BY <4>3, <4>5, <4>6
    <3> QED
      BY <1>1, <1>2, <1>12, <3>2, <3>5
  <2>2. CASE ~(k > 0 /\ t.of = p[k].of)
    <3>1. t.is = "result" /\ oo = cc
      BY <1>8, <2>2
    <3>2. o - c = 0
      BY <1>7, <3>1
    <3>3. r.depth = 0
      <4>1. CASE k = 0
        BY <1>11, <4>1 DEF Between
      <4>2. CASE k # 0
        BY <1>11, <3>2, <4>2
      <4> QED
        BY <4>1, <4>2
    <3>4. d = StartResult
      <4>1. CASE engine = "bing"
        <5>1. reader.depth = 0 /\ Token.is = "result" /\ ~(reader.depth > 0)
          BY <1>1, <1>2, <1>10, <3>1, <3>3
        <5>2. ReadBing
          BY <1>9, <4>1
        <5> QED
          BY <1>12, <5>1, <5>2 DEF ReadBing
      <4>2. CASE engine # "bing"
        BY <1>1, <1>2, <1>9, <1>12, <3>1, <4>2 DEF ReadDuckDuckGo
      <4> QED
        BY <4>1, <4>2
    <3>5. d = [in |-> TRUE, inTitle |-> r.inTitle, depth |-> 0, url |-> NoBlock,
               title |-> NoBlock, snippet |-> {}]
      BY <1>10, <3>4 DEF StartResult, Between
    <3>6. d \in Remembered /\ FromOne(d, t.of) /\ d.depth = 0
      BY <3>5 DEF Remembered, FromOne
    <3> QED
      BY <3>1, <3>6
  <2> QED
    BY <2>1, <2>2
<1>14. ReadUpTo(p, k + 1)'
  BY <1>1, <1>2, <1>5, <1>6, <1>12, <1>13 DEF ReadUpTo
<1>15. engine' = engine /\ at' = at /\ at = "read"
  BY DEF ReadToken
<1>16. ReaderInv'
  <2>1. k + 1 \in 0..Len(p)
    BY <1>1
  <2>2. \E pp \in Pages : \E kk \in 0..Len(pp) : ReadUpTo(pp, kk)'
    BY <1>14, <2>1
  <2> QED
    BY <1>1, <1>12, <1>13, <1>15, <2>2 DEF ReaderInv
<1> QED
  BY <1>1, <1>14, <1>16
-----------------------------------------------------------------------------
(* Web search: the passages of a page.                                     *)

LEMMA PassageSizes ==
  /\ IsFiniteSet(DOMAIN Passages)
  /\ \A i \in DOMAIN Passages : /\ Passages[i].size \in Nat
                                /\ Passages[i].size <= PassageBudget
  /\ PassageBudget \in Nat
<1>1. PICK n \in Nat : n = Len(Passages) /\ DOMAIN Passages = 1..n
  BY WebAssumption
<1>2. IsFiniteSet(1..n)
  BY FS_Interval
<1> QED
  BY <1>1, <1>2, WebAssumption

\* What the passages taken so far use of the budget.
UsesUp(v, s, n) ==
  v[0] = 0 /\ \A k \in 1..n : v[k] = v[k - 1] + Passages[s[k]].size

LEMMA UsedSteps ==
  ASSUME NEW s \in Seq(DOMAIN Passages), NEW n \in Nat, n = Len(s)
  PROVE  \E v \in [0..n -> Nat] : UsesUp(v, s, n) /\ Used(s) = v[n]
<1>1. PICK D : D = DOMAIN Passages
  OBVIOUS
<1>2. s \in [1..n -> D] /\ DOMAIN s = 1..n
  BY <1>1
<1>3. PICK g \in [Nat \X D -> Nat] :
        \A m \in Nat, i \in D : g[<<m, i>>] = m + Passages[i].size
  <2>1. PICK g : g = [x \in Nat \X D |-> x[1] + Passages[x[2]].size]
    OBVIOUS
  <2>2. \A m \in Nat, i \in D : m + Passages[i].size \in Nat
    BY <1>1, PassageSizes
  <2>3. \A x \in Nat \X D : x[1] + Passages[x[2]].size \in Nat
    BY <2>2
  <2> QED
    BY <2>1, <2>3
<1>4. PICK h \in [SUBSET (1..n) -> Nat] : Folded(h, 0, g, s, n)
  BY <1>2, <1>3, FoldExists
<1>5. h = [S \in SUBSET (1..n) |->
             IF S = {} THEN 0 ELSE h[S \ {Max(S)}] + Passages[s[Max(S)]].size]
  <2>1. ASSUME NEW S \in SUBSET (1..n), S # {}
        PROVE  g[<<h[S \ {Max(S)}], s[Max(S)]>>] = h[S \ {Max(S)}] + Passages[s[Max(S)]].size
    <3>1. Max(S) \in 1..n
      BY <2>1, LargestOf
    <3>2. h[S \ {Max(S)}] \in Nat /\ s[Max(S)] \in D
      BY <1>2, <1>4, <3>1
    <3> QED
      BY <1>3, <3>2
  <2> QED
    BY <1>4, <2>1 DEF Folded
<1>6. PICK f : /\ f = [S \in SUBSET (1..n) |->
                         IF S = {} THEN 0 ELSE f[S \ {Max(S)}] + Passages[s[Max(S)]].size]
               /\ Used(s) = f[1..n]
  <2>1. PICK f : f = CHOOSE i : i = [S \in SUBSET (1..n) |->
                         IF S = {} THEN 0 ELSE i[S \ {Max(S)}] + Passages[s[Max(S)]].size]
    OBVIOUS
  <2>2. Used(s) = f[1..n]
    BY <1>2, <2>1 DEF Used, FoldLeft, MapThenFoldSet
  <2> QED
    BY <1>5, <2>1, <2>2
<1>7. f[{}] = 0
  BY <1>6
<1>8. ASSUME NEW S \in SUBSET (1..n), S # {}, f[S \ {Max(S)}] \in Nat
      PROVE  f[S] = g[<<f[S \ {Max(S)}], s[Max(S)]>>]
  <2>1. Max(S) \in 1..n
    BY <1>8, LargestOf
  <2>2. s[Max(S)] \in D
    BY <1>2, <2>1
  <2> QED
    BY <1>3, <1>6, <1>8, <2>2
<1>9. Follows(f, Nat, g, s, n)
  <2>1. \A S \in SUBSET (1..n) : S # {} /\ f[S \ {Max(S)}] \in Nat =>
          f[S] = g[<<f[S \ {Max(S)}], s[Max(S)]>>]
    BY <1>8
  <2>2. f[{}] \in Nat
    BY <1>7
  <2> QED
    BY <2>1, <2>2, Zenon DEF Follows
<1>10. PICK v \in [0..n -> Nat] : Prefixed(v, f, g, s, n)
  BY <1>2, <1>3, <1>9, FoldSteps
<1>11. v[0] = 0 /\ Used(s) = v[n]
  BY <1>6, <1>7, <1>10, Zenon DEF Prefixed
<1>12. ASSUME NEW k \in 1..n PROVE v[k] = v[k - 1] + Passages[s[k]].size
  <2>1. k - 1 \in 0..n
    OBVIOUS
  <2>2. v[k - 1] \in Nat /\ s[k] \in D
    BY <1>2, <1>10, <2>1
  <2>3. v[k] = g[<<v[k - 1], s[k]>>]
    BY <1>10, Zenon DEF Prefixed
  <2> QED
    BY <1>3, <2>2, <2>3
<1> QED
  BY <1>11, <1>12 DEF UsesUp

LEMMA UsedAppend ==
  ASSUME NEW s \in Seq(DOMAIN Passages), NEW i \in DOMAIN Passages
  PROVE  Used(s) \in Nat /\ Used(Append(s, i)) = Used(s) + Passages[i].size
<1>1. PICK n \in Nat : n = Len(s)
  OBVIOUS
<1>2. PICK t : t = Append(s, i)
  OBVIOUS
<1>3. /\ t \in Seq(DOMAIN Passages) /\ Len(t) = n + 1 /\ n + 1 \in Nat
      /\ t[n + 1] = i /\ \A k \in 1..n : t[k] = s[k]
  <2>1. PICK D : D = DOMAIN Passages
    OBVIOUS
  <2>2. s \in Seq(D) /\ i \in D
    BY <2>1
  <2>3. t \in Seq(D) /\ Len(t) = n + 1 /\ t[n + 1] = i /\ \A k \in 1..n : t[k] = s[k]
    BY <1>1, <1>2, <2>2
  <2> QED
    BY <2>1, <2>3
<1>4. PICK v \in [0..n -> Nat] : UsesUp(v, s, n) /\ Used(s) = v[n]
  BY <1>1, UsedSteps
<1>5. PICK w \in [0..(n + 1) -> Nat] : UsesUp(w, t, n + 1) /\ Used(t) = w[n + 1]
  BY <1>3, UsedSteps
<1>6. PICK T : T = {k \in Nat : k <= n => w[k] = v[k]}
  OBVIOUS
<1>7. 0 \in T
  BY <1>4, <1>5, <1>6 DEF UsesUp
<1>8. ASSUME NEW k \in T PROVE k + 1 \in T
  <2>1. ASSUME k + 1 <= n PROVE w[k + 1] = v[k + 1]
    <3>1. /\ k \in Nat /\ w[k] = v[k] /\ (k + 1) - 1 = k
          /\ k + 1 \in 1..n /\ k + 1 \in 1..(n + 1)
      BY <1>6, <2>1
    <3>2. v[k + 1] = v[k] + Passages[s[k + 1]].size
      BY <1>4, <3>1 DEF UsesUp
    <3>3. w[k + 1] = w[k] + Passages[t[k + 1]].size
      BY <1>5, <3>1 DEF UsesUp
    <3> QED
      BY <1>3, <3>1, <3>2, <3>3
  <2> QED
    BY <1>6, <2>1
<1>9. T = Nat
  <2>1. T \subseteq Nat
    BY <1>6
  <2> QED
    BY <1>7, <1>8, <2>1, Induction
<1>10. w[n] = v[n]
  <2>1. n \in T /\ n <= n
    BY <1>9
  <2> QED
    BY <1>6, <2>1
<1>11. w[n + 1] = w[n] + Passages[i].size
  <2>1. n + 1 \in 1..(n + 1) /\ (n + 1) - 1 = n
    OBVIOUS
  <2> QED
    BY <1>3, <1>5, <2>1 DEF UsesUp
<1>12. v[n] \in Nat
  <2>1. n \in 0..n
    OBVIOUS
  <2> QED
    BY <1>4, <2>1
<1> QED
  BY <1>2, <1>4, <1>5, <1>10, <1>11, <1>12
LEMMA NothingUsed == Used(<< >>) = 0
<1>1. PICK s \in Seq(DOMAIN Passages) : s = << >>
  <2>1. \A D : << >> \in Seq(D)
    OBVIOUS
  <2>2. << >> \in Seq(DOMAIN Passages)
    BY <2>1, Zenon
  <2> QED
    BY <2>2
<1>2. PICK n \in Nat : n = Len(s) /\ n = 0
  BY <1>1
<1>3. PICK v \in [0..n -> Nat] : UsesUp(v, s, n) /\ Used(s) = v[n]
  BY <1>2, UsedSteps
<1> QED
  BY <1>1, <1>2, <1>3 DEF UsesUp

\* Passages that are within the budget.
Within == {s \in Seq(DOMAIN Passages) : Used(s) <= PassageBudget}

LEMMA TakeIs ==
  ASSUME NEW s \in Within, NEW i \in DOMAIN Passages
  PROVE  Take(s, i) \in Within
<1>1. PICK b \in Nat : b = PassageBudget
  BY PassageSizes
<1>2. PICK z \in Nat : z = Passages[i].size /\ z <= b
  BY <1>1, PassageSizes
<1>3. s \in Seq(DOMAIN Passages) /\ Used(s) <= b
  BY <1>1 DEF Within
<1>4. PICK u \in Nat : u = Used(s)
  BY <1>3, UsedAppend
<1>5. Used(Append(s, i)) = u + z
  BY <1>2, <1>3, <1>4, UsedAppend
<1>6. CASE s # << >> /\ u + z > b
  <2>1. Take(s, i) = s
    BY <1>1, <1>2, <1>4, <1>6, Zenon DEF Take
  <2> QED
    BY <2>1
<1>7. CASE ~(s # << >> /\ u + z > b)
  <2>1. u + z <= b
    <3>1. CASE s = << >>
      BY <1>2, <1>4, <3>1, NothingUsed
    <3>2. CASE s # << >>
      BY <1>7, <3>2
    <3> QED
      BY <3>1, <3>2
  <2>2. Append(s, i) \in Seq(DOMAIN Passages)
    <3>1. PICK D : D = DOMAIN Passages
      OBVIOUS
    <3>2. s \in Seq(D) /\ i \in D
      BY <1>3, <3>1
    <3>3. Append(s, i) \in Seq(D)
      BY <3>2
    <3> QED
      BY <3>1, <3>3
  <2>3. Append(s, i) \in Within
    BY <1>1, <1>5, <2>1, <2>2 DEF Within
  <2>4. PICK leave \in BOOLEAN : Take(s, i) = IF leave THEN s ELSE Append(s, i)
    BY DEF Take
  <2> QED
    BY <2>3, <2>4
<1> QED
  BY <1>6, <1>7

LEMMA TakenIs ==
  ASSUME NEW s \in Seq(DOMAIN Passages)
  PROVE  FoldLeft(Take, << >>, s) \in Within
<1>1. PICK D : D = DOMAIN Passages
  OBVIOUS
<1>2. PICK n \in Nat : n = Len(s)
  OBVIOUS
<1>3. s \in [1..n -> D] /\ DOMAIN s = 1..n
  BY <1>1, <1>2
<1>4. << >> \in Within
  BY NothingUsed, PassageSizes DEF Within
<1>5. PICK g \in [Within \X D -> Within] :
        \A t \in Within, i \in D : g[<<t, i>>] = Take(t, i)
  <2>1. PICK g : g = [x \in Within \X D |-> Take(x[1], x[2])]
    OBVIOUS
  <2>2. \A t \in Within, i \in D : Take(t, i) \in Within
    BY <1>1, TakeIs
  <2>3. \A x \in Within \X D : Take(x[1], x[2]) \in Within
    BY <2>2
  <2> QED
    BY <2>1, <2>3
<1>6. PICK h \in [SUBSET (1..n) -> Within] : Folded(h, << >>, g, s, n)
  BY <1>3, <1>4, <1>5, FoldExists
<1>7. h = [S \in SUBSET (1..n) |->
             IF S = {} THEN << >> ELSE Take(h[S \ {Max(S)}], s[Max(S)])]
  <2>1. ASSUME NEW S \in SUBSET (1..n), S # {}
        PROVE  g[<<h[S \ {Max(S)}], s[Max(S)]>>] = Take(h[S \ {Max(S)}], s[Max(S)])
    <3>1. Max(S) \in 1..n
      BY <2>1, LargestOf
    <3>2. h[S \ {Max(S)}] \in Within /\ s[Max(S)] \in D
      BY <1>3, <1>6, <3>1
    <3> QED
      BY <1>5, <3>2
  <2> QED
    BY <1>6, <2>1 DEF Folded
<1>8. PICK f : /\ f = [S \in SUBSET (1..n) |->
                         IF S = {} THEN << >> ELSE Take(f[S \ {Max(S)}], s[Max(S)])]
               /\ FoldLeft(Take, << >>, s) = f[1..n]
  <2>1. PICK f : f = CHOOSE i : i = [S \in SUBSET (1..n) |->
                         IF S = {} THEN << >> ELSE Take(i[S \ {Max(S)}], s[Max(S)])]
    OBVIOUS
  <2>2. FoldLeft(Take, << >>, s) = f[1..n]
    BY <1>3, <2>1 DEF FoldLeft, MapThenFoldSet
  <2> QED
    BY <1>7, <2>1, <2>2
<1>9. f[{}] = << >>
  BY <1>8
<1>10. ASSUME NEW S \in SUBSET (1..n), S # {}, f[S \ {Max(S)}] \in Within
       PROVE  f[S] = g[<<f[S \ {Max(S)}], s[Max(S)]>>]
  <2>1. Max(S) \in 1..n
    BY <1>10, LargestOf
  <2>2. s[Max(S)] \in D
    BY <1>3, <2>1
  <2> QED
    BY <1>5, <1>8, <1>10, <2>2
<1>11. Follows(f, Within, g, s, n)
  <2>1. \A S \in SUBSET (1..n) : S # {} /\ f[S \ {Max(S)}] \in Within =>
          f[S] = g[<<f[S \ {Max(S)}], s[Max(S)]>>]
    BY <1>10
  <2>2. f[{}] \in Within
    BY <1>4, <1>9
  <2> QED
    BY <2>1, <2>2, Zenon DEF Follows
<1>12. PICK v \in [0..n -> Within] : Prefixed(v, f, g, s, n)
  BY <1>3, <1>5, <1>11, FoldSteps
<1>13. FoldLeft(Take, << >>, s) = v[n]
  BY <1>8, <1>12, Zenon DEF Prefixed
<1>14. v[n] \in Within
  <2>1. n \in 0..n
    OBVIOUS
  <2> QED
    BY <1>12, <2>1
<1> QED
  BY <1>13, <1>14

\* One result of a page, and nothing of another one.
Candidate == {r \in Result : /\ r.url \in Blocks /\ r.title = r.url
                             /\ r.snippet \subseteq {r.url}}

SearchInv ==
  /\ at \in {"idle", "read", "candidates", "fetch", "done", "failed"}
  /\ results \in Seq(Candidate) /\ Len(results) <= Limit
  /\ fetched \in 0..Len(results)
  /\ at \in {"idle", "read", "candidates"} => fetched = 0
  /\ at = "fetch" => fetched # 0
  /\ passages # << >> => at = "done" /\ fetched # 0
  /\ passages \in Within
LEMMA ReaderStep ==
  ASSUME ReaderInv, [WebNext]_webVars
  PROVE  ReaderInv'
<1>1. CASE PageOf("duckduckgo") \/ PageOf("bing")
  <2>1. PICK p \in Pages : tokens' = p
    BY <1>1 DEF PageOf
  <2>2. at' = "read" /\ reader' = reader /\ reader = Between /\ engine' \in Engines
    BY <1>1 DEF PageOf, ReaderInv, Engines
  <2>3. Between.depth = 0
    BY DEF Between
  <2>4. p \in Seq([is : Kinds, of : Blocks]) /\ Len(p) \in Nat
    <3>1. p \in Seq([is : Kinds, of : Blocks])
      BY WebAssumption
    <3>2. \A E : p \in Seq(E) => Len(p) \in Nat
      OBVIOUS
    <3> QED
      BY <3>1, <3>2, Zenon
  <2>5. 0 \in 0..Len(p) /\ \A i : i \in 1..Len(p) => 0 + i = i
    BY <2>4
  <2>6. ReadUpTo(p, 0)'
    BY <2>1, <2>2, <2>4, <2>5 DEF ReadUpTo
  <2>7. \E pp \in Pages : \E k \in 0..Len(pp) : ReadUpTo(pp, k)'
    BY <2>5, <2>6
  <2>8. reader' \in Remembered
    BY <2>2 DEF ReaderInv
  <2> QED
    BY <2>1, <2>2, <2>3, <2>4, <2>7, <2>8 DEF ReaderInv
<1>2. CASE ReadToken
  <2>1. PICK p \in Pages : \E k \in 0..Len(p) : ReadUpTo(p, k)
    BY <1>2 DEF ReaderInv, ReadToken
  <2>2. PICK k \in 0..Len(p) : ReadUpTo(p, k)
    BY <2>1
  <2> QED
    BY <1>2, <2>2, ReadsOn
<1>3. CASE SearchBrave \/ SearchRefused \/ PageRead \/ PickCandidate \/ FetchFails \/ Fetch
  <2>1. /\ reader' = reader /\ at' \notin {"idle", "read"}
        /\ engine' = engine \/ (engine' = "brave" /\ reader = Between)
    BY <1>3 DEF SearchBrave, SearchRefused, PageRead, PickCandidate, FetchFails, Fetch, ReaderInv
  <2>2. Between.depth = 0 /\ "brave" \in Engines
    BY DEF Between, Engines
  <2> QED
    BY <2>1, <2>2 DEF ReaderInv
<1>4. CASE UNCHANGED webVars
  BY <1>4 DEF webVars, ReaderInv, ReadUpTo
<1> QED
  BY <1>1, <1>2, <1>3, <1>4 DEF WebNext, SearchDuckDuckGo, SearchBing

\* The result that a token closes is of one block.
LEMMA ClosedIs ==
  ASSUME ReaderInv, ReadToken, Closes
  PROVE  [url |-> reader.url, title |-> reader.title, snippet |-> reader.snippet] \in Candidate
<1>1. PICK p \in Pages : \E j \in 0..Len(p) : ReadUpTo(p, j)
  BY DEF ReaderInv, ReadToken
<1>2. PICK k \in 0..Len(p) : ReadUpTo(p, k)
  BY <1>1
<1>3. PICK r \in Remembered : r = reader
  BY DEF ReaderInv
<1>4. r.in /\ r.url # NoBlock /\ r.title # NoBlock
  BY <1>3 DEF Closes
<1>5. k > 0
  <2>1. CASE k = 0
    <3>1. r = Between
      BY <1>2, <1>3, <2>1 DEF ReadUpTo
    <3> QED
      BY <1>4, <3>1 DEF Between
  <2> QED
    BY <2>1
<1>6. FromOne(r, p[k].of)
  BY <1>2, <1>3, <1>5 DEF ReadUpTo
<1>7. k \in 1..Len(p)
  BY <1>5
<1>8. p[k].of \in Blocks
  <2>1. PICK E : E = [is : Kinds, of : Blocks]
    OBVIOUS
  <2>2. p \in Seq(E)
    BY <2>1, WebAssumption
  <2>3. p[k] \in E
    BY <1>7, <2>2
  <2> QED
    BY <2>1, <2>3
<1>9. r.url = p[k].of /\ r.title = r.url /\ r.snippet \subseteq {r.url} /\ r.url \in Blocks
  BY <1>4, <1>6, <1>8 DEF FromOne
<1>10. [url |-> r.url, title |-> r.title, snippet |-> r.snippet] \in Candidate
  BY <1>9 DEF Candidate, Result
<1> QED
  BY <1>3, <1>10

LEMMA SearchStep ==
  ASSUME ReaderInv, SearchInv, [WebNext]_webVars
  PROVE  SearchInv'
<1>1. PICK c \in Seq(Candidate) : c = results
  BY DEF SearchInv
<1>2. PICK n \in Nat : n = Len(c)
  OBVIOUS
<1>3. n <= Limit /\ Limit \in Nat /\ fetched \in 0..n
  BY <1>1, <1>2, WebAssumption DEF SearchInv
<1>4. CASE PageOf("duckduckgo") \/ PageOf("bing") \/ SearchRefused
  BY <1>4 DEF PageOf, SearchRefused, SearchInv
<1>5. CASE SearchBrave
  <2>1. PICK m \in 0..Limit : \E bs \in [1..m -> Blocks] :
          results' = [i \in 1..m |-> [url |-> bs[i], title |-> bs[i], snippet |-> {bs[i]}]]
    BY <1>5 DEF SearchBrave
  <2>2. PICK bs \in [1..m -> Blocks] :
          results' = [i \in 1..m |-> [url |-> bs[i], title |-> bs[i], snippet |-> {bs[i]}]]
    BY <2>1
  <2>3. \A b \in Blocks : [url |-> b, title |-> b, snippet |-> {b}] \in Candidate
    BY DEF Candidate, Result
  <2>4. PICK out : out = [i \in 1..m |-> [url |-> bs[i], title |-> bs[i], snippet |-> {bs[i]}]]
    OBVIOUS
  <2>5. \A i \in 1..m : out[i] \in Candidate
    BY <2>3, <2>4
  <2>6. out \in [1..m -> Candidate]
    BY <2>4, <2>5
  <2>7. m \in Nat /\ m <= Limit
    BY <1>3
  <2>8. out \in Seq(Candidate) /\ Len(out) = m
    BY <2>6, <2>7
  <2>9. /\ at' = "candidates" /\ fetched' = 0 /\ passages' = passages /\ passages = << >>
        /\ results' = out
    BY <1>5, <2>2, <2>4 DEF SearchBrave, SearchInv
  <2>10. 0 \in 0..m
    BY <2>7
  <2> QED
    BY <2>7, <2>8, <2>9, <2>10 DEF SearchInv
<1>6. CASE ReadToken
  <2>1. /\ at' = "read" /\ fetched' = 0 /\ passages' = passages /\ passages = << >> /\ n < Limit
    BY <1>1, <1>2, <1>6 DEF ReadToken, SearchInv
  <2>2. PICK r : r = [url |-> reader.url, title |-> reader.title, snippet |-> reader.snippet]
    OBVIOUS
  <2>3. CASE Closes
    <3>1. r \in Candidate /\ results' = Append(c, r)
      BY <1>1, <1>6, <2>2, <2>3, ClosedIs DEF ReadToken
    <3>2. Append(c, r) \in Seq(Candidate) /\ Len(Append(c, r)) = n + 1
      BY <1>2, <3>1
    <3> QED
      BY <1>3, <2>1, <3>1, <3>2 DEF SearchInv
  <2>4. CASE ~Closes
    <3>1. results' = results
      BY <1>6, <2>4 DEF ReadToken
    <3> QED
      BY <2>1, <3>1 DEF SearchInv
  <2> QED
    BY <2>3, <2>4
<1>7. CASE PageRead
  <2>1. /\ at' \in {"failed", "candidates"} /\ fetched' = 0 /\ passages' = passages
        /\ passages = << >> /\ results' \in {<< >>, c}
    BY <1>1, <1>7 DEF PageRead, SearchInv
  <2>2. << >> \in Seq(Candidate) /\ Len(<< >>) = 0
    OBVIOUS
  <2>3. PICK out \in Seq(Candidate) : out = results' /\ Len(out) <= Limit /\ Len(out) \in Nat
    <3>1. CASE results' = << >>
      <4>1. results' \in Seq(Candidate) /\ Len(results') = 0
        BY <2>2, <3>1, Zenon
      <4>2. 0 <= Limit /\ 0 \in Nat
        BY <1>3
      <4> QED
        BY <4>1, <4>2, Zenon
    <3>2. CASE results' = c
      BY <1>2, <1>3, <3>2
    <3> QED
      BY <2>1, <3>1, <3>2
  <2>4. 0 \in 0..Len(out)
    BY <2>3
  <2> QED
    BY <2>1, <2>3, <2>4 DEF SearchInv
<1>8. CASE PickCandidate
  <2>1. PICK relevant \in SUBSET DOMAIN results :
          IF relevant = {} THEN at' = "done" /\ fetched' = 0
          ELSE /\ at' = "fetch"
               /\ fetched' = CHOOSE i \in relevant : \A j \in relevant : i <= j
    BY <1>8 DEF PickCandidate
  <2>2. relevant \subseteq 1..n
    BY <1>1, <1>2, <2>1
  <2>3. UNCHANGED <<results, passages>> /\ passages = << >>
    BY <1>8 DEF PickCandidate, SearchInv
  <2>4. CASE relevant = {}
    BY <1>1, <1>2, <2>1, <2>3, <2>4 DEF SearchInv
  <2>5. CASE relevant # {}
    <3>1. relevant \subseteq Nat
      BY <2>2
    <3>2. \E x \in relevant : \A y \in relevant : x <= y
      BY <2>5, <3>1, Least
    <3>3. fetched' \in relevant
      BY <2>1, <2>5, <3>2
    <3>4. fetched' \in 1..n /\ at' = "fetch"
      BY <2>1, <2>2, <2>5, <3>3
    <3> QED
      BY <1>1, <1>2, <2>3, <3>4 DEF SearchInv
  <2> QED
    BY <2>4, <2>5
<1>9. CASE FetchFails
  <2>1. passages = << >>
    BY <1>9 DEF FetchFails, SearchInv
  <2> QED
    BY <1>1, <1>2, <1>9, <2>1 DEF FetchFails, SearchInv
<1>10. CASE Fetch
  <2>1. PICK order \in Ranked : passages' = FoldLeft(Take, << >>, order)
    BY <1>10 DEF Fetch
  <2>2. order \in SetToSeqs(DOMAIN Passages)
    BY DEF Ranked
  <2>3. order \in Seq(DOMAIN Passages)
    BY <2>2, PassageSizes, Sequenced
  <2>4. passages' \in Within
    BY <2>1, <2>3, TakenIs
  <2> QED
    BY <1>10, <2>4 DEF Fetch, SearchInv
<1>11. CASE UNCHANGED webVars
  BY <1>11 DEF webVars, SearchInv
<1> QED
  BY <1>4, <1>5, <1>6, <1>7, <1>8, <1>9, <1>10, <1>11 DEF WebNext, SearchDuckDuckGo, SearchBing

LEMMA WebInvariant == WebSpec => [](ReaderInv /\ SearchInv)
<1>1. ASSUME WebInit PROVE ReaderInv /\ SearchInv
  <2>1. ReaderInv
    BY <1>1 DEF WebInit, ReaderInv, Between, Remembered, Engines
  <2>2. << >> \in Within /\ << >> \in Seq(Candidate) /\ Len(<< >>) = 0
    BY NothingUsed, PassageSizes DEF Within
  <2>3. Limit \in Nat
    BY WebAssumption
  <2> QED
    BY <1>1, <2>1, <2>2, <2>3 DEF WebInit, SearchInv
<1>2. WebInit => ReaderInv /\ SearchInv
  BY <1>1
<1>3. ReaderInv /\ SearchInv /\ [WebNext]_webVars => (ReaderInv /\ SearchInv)'
  BY ReaderStep, SearchStep
<1> QED
  BY <1>2, <1>3, PTL DEF WebSpec

\* What a web search holds is always of its type (parseDDGResults, parseBingResults,
\* SelectWebPassages).
THEOREM WebTyped == WebSpec => []WebTypeOK
<1>1. ASSUME ReaderInv, SearchInv PROVE WebTypeOK
  <2>1. results \in Seq(Candidate) /\ Candidate \subseteq Result
    BY <1>1 DEF SearchInv, Candidate
  <2>2. ToSet(results) \subseteq Result
    BY <2>1 DEF ToSet
  <2>3. passages \in Seq(DOMAIN Passages)
    BY <1>1 DEF SearchInv, Within
  <2>4. ToSet(passages) \subseteq DOMAIN Passages
    BY <2>3 DEF ToSet
  <2> QED
    BY <1>1, <2>2, <2>4 DEF ReaderInv, SearchInv, WebTypeOK
<1>2. ReaderInv /\ SearchInv => WebTypeOK
  BY <1>1
<1> QED
  BY <1>2, WebInvariant, PTL

\* Whatever the results of a page leave out or repeat, a candidate never mixes two
\* of them, no more come back than were asked for, and what is shown of the page
\* that is fetched keeps to its budget (parseDDGResults, parseBingResults,
\* SelectWebPassages).
THEOREM CandidatesWhole == WebSpec => []CandidatesAreWhole
<1>1. ASSUME SearchInv PROVE CandidatesAreWhole
  <2>1. \A i \in DOMAIN results : results[i] \in Candidate
    BY <1>1 DEF SearchInv
  <2> QED
    BY <1>1, <2>1 DEF SearchInv, Candidate, Within, CandidatesAreWhole
<1>2. SearchInv => CandidatesAreWhole
  BY <1>1
<1> QED
  BY <1>2, WebInvariant, PTL
-----------------------------------------------------------------------------
(* Tool output.  First what its operators return, sums and folds.          *)

\* The sum of f over each subset, an element at a time.
Summed(h, f, S) ==
  h = [s \in SUBSET S |->
         IF s = {} THEN 0
         ELSE f[CHOOSE x \in s : TRUE] + h[s \ {CHOOSE x \in s : TRUE}]]

\* A set without one of its elements.
LEMMA OneLess ==
  ASSUME NEW S, IsFiniteSet(S), NEW s \in SUBSET S, s # {}, NEW m \in Nat,
         Cardinality(s) <= m + 1
  PROVE  /\ (CHOOSE x \in s : TRUE) \in s
         /\ s \ {CHOOSE x \in s : TRUE} \in SUBSET S
         /\ Cardinality(s \ {CHOOSE x \in s : TRUE}) <= m
<1>1. PICK x : x = CHOOSE y \in s : TRUE
  OBVIOUS
<1>2. x \in s
  BY <1>1
<1>3. IsFiniteSet(s) /\ Cardinality(s) \in Nat
  BY FS_Subset, FS_CardinalityType
<1>4. Cardinality(s \ {x}) = Cardinality(s) - 1
  BY <1>2, <1>3, FS_RemoveElement
<1>5. Cardinality(s \ {x}) <= m
  BY <1>3, <1>4
<1> QED
  BY <1>1, <1>2, <1>5

LEMMA SumExists ==
  ASSUME NEW S, IsFiniteSet(S), NEW f \in [S -> Nat]
  PROVE  \E h \in [SUBSET S -> Nat] : Summed(h, f, S)
<1> DEFINE Small(m) == {s \in SUBSET S : Cardinality(s) <= m}
           Partial(h, m) ==
             \A s \in Small(m) :
               h[s] = IF s = {} THEN 0
                      ELSE f[CHOOSE x \in s : TRUE] + h[s \ {CHOOSE x \in s : TRUE}]
<1>1. \A s \in SUBSET S : IsFiniteSet(s) /\ Cardinality(s) \in Nat
  BY FS_Subset, FS_CardinalityType
<1>2. PICK T : T = {m \in Nat : \E h \in [SUBSET S -> Nat] : Partial(h, m)}
  OBVIOUS
<1>3. 0 \in T
  <2>1. PICK h : h = [s \in SUBSET S |-> 0]
    OBVIOUS
  <2>2. h \in [SUBSET S -> Nat]
    BY <2>1
  <2>3. ASSUME NEW s \in Small(0) PROVE s = {}
    BY <1>1, FS_EmptySet
  <2>4. Partial(h, 0)
    BY <2>1, <2>3
  <2> QED
    BY <1>2, <2>2, <2>4
<1>4. ASSUME NEW m \in T PROVE m + 1 \in T
  <2>1. m \in Nat
    BY <1>2
  <2>2. PICK h \in [SUBSET S -> Nat] : Partial(h, m)
    BY <1>2
  <2>3. PICK w : w = [s \in SUBSET S |->
                        IF s = {} THEN 0
                        ELSE f[CHOOSE x \in s : TRUE] + h[s \ {CHOOSE x \in s : TRUE}]]
    OBVIOUS
  <2>4. ASSUME NEW s \in SUBSET S, s # {}
        PROVE  f[CHOOSE x \in s : TRUE] \in Nat /\ h[s \ {CHOOSE x \in s : TRUE}] \in Nat
    <3>1. (CHOOSE x \in s : TRUE) \in s
      BY <2>4
    <3>2. s \ {CHOOSE x \in s : TRUE} \in SUBSET S
      OBVIOUS
    <3> QED
      BY <3>1, <3>2
  <2>5. ASSUME NEW s \in SUBSET S PROVE w[s] \in Nat
    <3>1. CASE s = {}
      BY <2>3, <3>1
    <3>2. CASE s # {}
      <4>1. w[s] = f[CHOOSE x \in s : TRUE] + h[s \ {CHOOSE x \in s : TRUE}]
        BY <2>3, <3>2
      <4> QED
        BY <2>4, <3>2, <4>1
    <3> QED
      BY <3>1, <3>2
  <2>6. w \in [SUBSET S -> Nat]
    BY <2>3, <2>5
  <2>7. ASSUME NEW s \in Small(m) PROVE w[s] = h[s]
    BY <2>2, <2>3, <2>7
  <2>8. ASSUME NEW s \in Small(m + 1)
        PROVE  w[s] = IF s = {} THEN 0
                      ELSE f[CHOOSE x \in s : TRUE] + w[s \ {CHOOSE x \in s : TRUE}]
    <3>1. CASE s = {}
      BY <2>3, <3>1
    <3>2. CASE s # {}
      <4>1. s \ {CHOOSE x \in s : TRUE} \in Small(m)
        BY <2>1, <3>2, OneLess
      <4>2. w[s \ {CHOOSE x \in s : TRUE}] = h[s \ {CHOOSE x \in s : TRUE}]
        BY <2>7, <4>1
      <4>3. w[s] = f[CHOOSE x \in s : TRUE] + h[s \ {CHOOSE x \in s : TRUE}]
        BY <2>3, <3>2
      <4> QED
        BY <3>2, <4>2, <4>3
    <3> QED
      BY <3>1, <3>2
  <2>9. Partial(w, m + 1)
    BY <2>8, Zenon
  <2>10. m + 1 \in Nat
    BY <2>1
  <2> QED
    BY <1>2, <2>6, <2>9, <2>10
<1>5. T = Nat
  <2>1. T \subseteq Nat
    BY <1>2
  <2> QED
    BY <1>3, <1>4, <2>1, Induction
<1>6. PICK n \in Nat : n = Cardinality(S)
  BY FS_CardinalityType
<1>7. PICK h \in [SUBSET S -> Nat] : Partial(h, n)
  <2>1. n \in T
    BY <1>5
  <2> QED
    BY <1>2, <2>1
<1>8. \A s \in SUBSET S : s \in Small(n)
  BY <1>6, FS_Subset
<1>9. ASSUME NEW s \in SUBSET S
      PROVE  h[s] = IF s = {} THEN 0
                    ELSE f[CHOOSE x \in s : TRUE] + h[s \ {CHOOSE x \in s : TRUE}]
  BY <1>7, <1>8
<1>10. Summed(h, f, S)
  <2>1. h = [s \in SUBSET S |-> h[s]]
    OBVIOUS
  <2>2. [s \in SUBSET S |-> h[s]] =
        [s \in SUBSET S |->
           IF s = {} THEN 0
           ELSE f[CHOOSE x \in s : TRUE] + h[s \ {CHOOSE x \in s : TRUE}]]
    BY <1>9, Zenon
  <2> QED
    BY <2>1, <2>2, Zenon DEF Summed
<1> QED
  BY <1>10

LEMMA SumType ==
  ASSUME NEW S, IsFiniteSet(S), NEW f \in [S -> Nat], NEW h, Summed(h, f, S)
  PROVE  h[S] \in Nat
<1>1. \A s \in SUBSET S : IsFiniteSet(s) /\ Cardinality(s) \in Nat
  BY FS_Subset, FS_CardinalityType
<1>2. PICK T : T = {m \in Nat : \A s \in SUBSET S : Cardinality(s) <= m => h[s] \in Nat}
  OBVIOUS
<1>3. 0 \in T
  <2>1. ASSUME NEW s \in SUBSET S, Cardinality(s) <= 0 PROVE h[s] \in Nat
    <3>1. s = {}
      BY <1>1, <2>1, FS_EmptySet
    <3> QED
      BY <3>1 DEF Summed
  <2> QED
    BY <1>2, <2>1
<1>4. ASSUME NEW m \in T PROVE m + 1 \in T
  <2>1. m \in Nat
    BY <1>2
  <2>2. ASSUME NEW s \in SUBSET S, Cardinality(s) <= m + 1 PROVE h[s] \in Nat
    <3>1. CASE s = {}
      BY <3>1 DEF Summed
    <3>2. CASE s # {}
      <4>1. /\ (CHOOSE x \in s : TRUE) \in s
            /\ s \ {CHOOSE x \in s : TRUE} \in SUBSET S
            /\ Cardinality(s \ {CHOOSE x \in s : TRUE}) <= m
        BY <2>1, <2>2, <3>2, OneLess
      <4>2. h[s \ {CHOOSE x \in s : TRUE}] \in Nat
        BY <1>2, <4>1
      <4>3. f[CHOOSE x \in s : TRUE] \in Nat
        BY <4>1
      <4>4. h[s] = f[CHOOSE x \in s : TRUE] + h[s \ {CHOOSE x \in s : TRUE}]
        BY <3>2 DEF Summed
      <4> QED
        BY <4>2, <4>3, <4>4
    <3> QED
      BY <3>1, <3>2
  <2>3. m + 1 \in Nat
    BY <2>1
  <2> QED
    BY <1>2, <2>2, <2>3
<1>5. T = Nat
  <2>1. T \subseteq Nat
    BY <1>2
  <2> QED
    BY <1>3, <1>4, <2>1, Induction
<1>6. PICK n \in Nat : n = Cardinality(S)
  BY FS_CardinalityType
<1>7. n \in T /\ S \in SUBSET S
  BY <1>5
<1> QED
  BY <1>2, <1>6, <1>7

\* What some values or lines take is a size (token.go).
LEMMA SizeInType ==
  ASSUME NEW v, NEW I, IsFiniteSet(I), \A i \in I : v[i].size \in Nat
  PROVE  SizeIn(v, I) \in Nat
<1>1. PICK f \in [I -> Nat] : \A i \in I : f[i] = v[i].size
  <2>1. PICK f : f = [i \in I |-> v[i].size]
    OBVIOUS
  <2> QED
    BY <2>1
<1>2. PICK h \in [SUBSET I -> Nat] : Summed(h, f, I)
  BY SumExists
<1>3. ASSUME NEW w, NEW s \in SUBSET I
      PROVE  (IF s = {} THEN 0
              ELSE f[CHOOSE x \in s : TRUE] + w[s \ {CHOOSE x \in s : TRUE}])
             = (IF s = {} THEN 0
                ELSE v[CHOOSE x \in s : TRUE].size + w[s \ {CHOOSE x \in s : TRUE}])
  <2>1. CASE s # {}
    <3>1. (CHOOSE x \in s : TRUE) \in I
      BY <2>1
    <3>2. f[CHOOSE x \in s : TRUE] = v[CHOOSE x \in s : TRUE].size
      BY <1>1, <3>1
    <3> QED
      BY <3>2
  <2> QED
    BY <2>1
<1>4. PICK w : /\ w = [s \in SUBSET I |->
                         IF s = {} THEN 0
                         ELSE v[CHOOSE x \in s : TRUE].size + w[s \ {CHOOSE x \in s : TRUE}]]
               /\ SizeIn(v, I) = w[I]
  <2>1. PICK w : w = CHOOSE i : i = [s \in SUBSET I |->
                         IF s = {} THEN 0
                         ELSE v[CHOOSE x \in s : TRUE].size + i[s \ {CHOOSE x \in s : TRUE}]]
    OBVIOUS
  <2>2. SizeIn(v, I) = w[I]
    BY <2>1 DEF SizeIn, MapThenSumSet, MapThenFoldSet
  <2>3. h = [s \in SUBSET I |->
               IF s = {} THEN 0
               ELSE v[CHOOSE x \in s : TRUE].size + h[s \ {CHOOSE x \in s : TRUE}]]
    <3>1. h = [s \in SUBSET I |->
                 IF s = {} THEN 0
                 ELSE f[CHOOSE x \in s : TRUE] + h[s \ {CHOOSE x \in s : TRUE}]]
      BY <1>2 DEF Summed
    <3>2. ASSUME NEW s \in SUBSET I
          PROVE  h[s] = IF s = {} THEN 0
                        ELSE v[CHOOSE x \in s : TRUE].size + h[s \ {CHOOSE x \in s : TRUE}]
      <4>1. h[s] = IF s = {} THEN 0
                   ELSE f[CHOOSE x \in s : TRUE] + h[s \ {CHOOSE x \in s : TRUE}]
        BY <3>1, Zenon
      <4> QED
        BY <1>3, <4>1, Zenon
    <3>3. h = [s \in SUBSET I |-> h[s]]
      BY <1>2
    <3> QED
      BY <3>2, <3>3, Zenon
  <2> QED
    BY <2>1, <2>2, <2>3
<1>5. Summed(w, f, I)
  <2>1. w = [s \in SUBSET I |->
               IF s = {} THEN 0
               ELSE f[CHOOSE x \in s : TRUE] + w[s \ {CHOOSE x \in s : TRUE}]]
    <3>1. \A s \in SUBSET I :
            w[s] = IF s = {} THEN 0
                   ELSE v[CHOOSE x \in s : TRUE].size + w[s \ {CHOOSE x \in s : TRUE}]
      BY <1>4
    <3>2. ASSUME NEW s \in SUBSET I
          PROVE  w[s] = IF s = {} THEN 0
                        ELSE f[CHOOSE x \in s : TRUE] + w[s \ {CHOOSE x \in s : TRUE}]
      <4>1. w[s] = IF s = {} THEN 0
                   ELSE v[CHOOSE x \in s : TRUE].size + w[s \ {CHOOSE x \in s : TRUE}]
        BY <3>1
      <4> QED
        BY <1>3, <4>1, Zenon
    <3>3. w = [s \in SUBSET I |-> w[s]]
      BY <1>4
    <3> QED
      BY <3>2, <3>3, Zenon
  <2> QED
    BY <2>1 DEF Summed
<1> QED
  BY <1>4, <1>5, SumType

\* What some contexts take in an envelope is a size.
LEMMA SizeOfType ==
  ASSUME NEW I, IsFiniteSet(I), \A c \in I : c.size \in Nat
  PROVE  SizeOf(I) \in Nat
<1>1. PICK f \in [I -> Nat] : \A c \in I : f[c] = c.size + FrameSize
  <2>1. PICK f : f = [c \in I |-> c.size + FrameSize]
    OBVIOUS
  <2> QED
    BY <2>1, OutputAssumption
<1>2. PICK h \in [SUBSET I -> Nat] : Summed(h, f, I)
  BY SumExists
<1>3. ASSUME NEW w, NEW s \in SUBSET I
      PROVE  (IF s = {} THEN 0
              ELSE f[CHOOSE x \in s : TRUE] + w[s \ {CHOOSE x \in s : TRUE}])
             = (IF s = {} THEN 0
                ELSE ((CHOOSE x \in s : TRUE).size + FrameSize) + w[s \ {CHOOSE x \in s : TRUE}])
  <2>1. CASE s # {}
    <3>1. (CHOOSE x \in s : TRUE) \in I
      BY <2>1
    <3>2. f[CHOOSE x \in s : TRUE] = ((CHOOSE x \in s : TRUE).size + FrameSize)
      BY <1>1, <3>1
    <3> QED
      BY <3>2
  <2> QED
    BY <2>1
<1>4. PICK w : /\ w = [s \in SUBSET I |->
                         IF s = {} THEN 0
                         ELSE ((CHOOSE x \in s : TRUE).size + FrameSize) + w[s \ {CHOOSE x \in s : TRUE}]]
               /\ SizeOf(I) = w[I]
  <2>1. PICK w : w = CHOOSE i : i = [s \in SUBSET I |->
                         IF s = {} THEN 0
                         ELSE ((CHOOSE x \in s : TRUE).size + FrameSize) + i[s \ {CHOOSE x \in s : TRUE}]]
    OBVIOUS
  <2>2. SizeOf(I) = w[I]
    BY <2>1 DEF SizeOf, MapThenSumSet, MapThenFoldSet
  <2>3. h = [s \in SUBSET I |->
               IF s = {} THEN 0
               ELSE ((CHOOSE x \in s : TRUE).size + FrameSize) + h[s \ {CHOOSE x \in s : TRUE}]]
    <3>1. h = [s \in SUBSET I |->
                 IF s = {} THEN 0
                 ELSE f[CHOOSE x \in s : TRUE] + h[s \ {CHOOSE x \in s : TRUE}]]
      BY <1>2 DEF Summed
    <3>2. ASSUME NEW s \in SUBSET I
          PROVE  h[s] = IF s = {} THEN 0
                        ELSE ((CHOOSE x \in s : TRUE).size + FrameSize) + h[s \ {CHOOSE x \in s : TRUE}]
      <4>1. h[s] = IF s = {} THEN 0
                   ELSE f[CHOOSE x \in s : TRUE] + h[s \ {CHOOSE x \in s : TRUE}]
        BY <3>1, Zenon
      <4> QED
        BY <1>3, <4>1, Zenon
    <3>3. h = [s \in SUBSET I |-> h[s]]
      BY <1>2
    <3> QED
      BY <3>2, <3>3, Zenon
  <2> QED
    BY <2>1, <2>2, <2>3
<1>5. Summed(w, f, I)
  <2>1. w = [s \in SUBSET I |->
               IF s = {} THEN 0
               ELSE f[CHOOSE x \in s : TRUE] + w[s \ {CHOOSE x \in s : TRUE}]]
    <3>1. \A s \in SUBSET I :
            w[s] = IF s = {} THEN 0
                   ELSE ((CHOOSE x \in s : TRUE).size + FrameSize) + w[s \ {CHOOSE x \in s : TRUE}]
      BY <1>4
    <3>2. ASSUME NEW s \in SUBSET I
          PROVE  w[s] = IF s = {} THEN 0
                        ELSE f[CHOOSE x \in s : TRUE] + w[s \ {CHOOSE x \in s : TRUE}]
      <4>1. w[s] = IF s = {} THEN 0
                   ELSE ((CHOOSE x \in s : TRUE).size + FrameSize) + w[s \ {CHOOSE x \in s : TRUE}]
        BY <3>1
      <4> QED
        BY <1>3, <4>1, Zenon
    <3>3. w = [s \in SUBSET I |-> w[s]]
      BY <1>4
    <3> QED
      BY <3>2, <3>3, Zenon
  <2> QED
    BY <2>1 DEF Summed
<1> QED
  BY <1>4, <1>5, SumType

\* The indexes of S up to k, in their order.
Listed(o, S, k) ==
  /\ o \in Seq(1..k)
  /\ {o[j] : j \in 1..Len(o)} = S \cap (1..k)
  /\ \A a, b \in 1..Len(o) : a < b => o[a] < o[b]

LEMMA ListedNext ==
  ASSUME NEW S, NEW k \in Nat, NEW o, Listed(o, S, k)
  PROVE  Listed(IF k + 1 \in S THEN Append(o, k + 1) ELSE o, S, k + 1)
<1>1. o \in Seq(1..k) /\ {o[j] : j \in 1..Len(o)} = S \cap (1..k)
      /\ \A a, b \in 1..Len(o) : a < b => o[a] < o[b]
  BY DEF Listed
<1>2. PICK m \in Nat : m = Len(o)
  BY <1>1
<1>3. o \in Seq(1..(k + 1)) /\ \A j \in 1..m : o[j] \in 1..k
  <2>1. 1..k \subseteq 1..(k + 1)
    OBVIOUS
  <2> QED
    BY <1>1, <1>2, <2>1
<1>4. CASE k + 1 \notin S
  <2>1. S \cap (1..(k + 1)) = S \cap (1..k)
    BY <1>4
  <2> QED
    BY <1>1, <1>3, <1>4, <2>1 DEF Listed
<1>5. CASE k + 1 \in S
  <2>1. PICK p : p = Append(o, k + 1)
    OBVIOUS
  <2>2. p \in Seq(1..(k + 1)) /\ Len(p) = m + 1
    BY <1>2, <1>3, <2>1
  <2>3. p[m + 1] = k + 1 /\ \A j \in 1..m : p[j] = o[j]
    BY <1>2, <1>3, <2>1
  <2>4. {p[j] : j \in 1..Len(p)} = S \cap (1..(k + 1))
    <3>1. ASSUME NEW j \in 1..(m + 1) PROVE p[j] \in S \cap (1..(k + 1))
      <4>1. CASE j \in 1..m
        BY <1>1, <1>2, <1>3, <2>3, <4>1
      <4>2. CASE j = m + 1
        BY <1>5, <2>3, <4>2
      <4> QED
        BY <4>1, <4>2
    <3>2. ASSUME NEW i \in S \cap (1..(k + 1)) PROVE \E j \in 1..(m + 1) : p[j] = i
      <4>1. CASE i = k + 1
        BY <1>2, <2>3, <4>1
      <4>2. CASE i \in 1..k
        <5>1. PICK j \in 1..m : o[j] = i
          BY <1>1, <1>2, <4>2
        <5> QED
          BY <1>2, <2>3, <5>1
      <4> QED
        BY <4>1, <4>2
    <3> QED
      BY <2>2, <3>1, <3>2
  <2>5. ASSUME NEW a \in 1..(m + 1), NEW b \in 1..(m + 1), a < b PROVE p[a] < p[b]
    <3>1. a \in 1..m
      BY <1>2, <2>5
    <3>2. CASE b \in 1..m
      BY <1>1, <1>2, <2>3, <2>5, <3>1, <3>2
    <3>3. CASE b = m + 1
      BY <1>3, <2>3, <3>1, <3>3
    <3> QED
      BY <3>2, <3>3
  <2>6. Listed(p, S, k + 1)
    BY <2>2, <2>4, <2>5 DEF Listed
  <2> QED
    BY <1>5, <2>1, <2>6
<1> QED
  BY <1>4, <1>5

\* Indexes are put in the order of the sequence, none twice (envelope.go).
LEMMA InOrderIs ==
  ASSUME NEW S, NEW v, NEW n \in Nat, DOMAIN v = 1..n
  PROVE  Listed(InOrder(S, v), S, n)
<1> DEFINE AddIndex(o, i) == IF i \in S THEN Append(o, i) ELSE o
<1>18. PICK E : E = 1..n
  OBVIOUS
<1>1. PICK q \in [1..n -> E] : q = [i \in DOMAIN v |-> i] /\ \A i \in 1..n : q[i] = i
  <2>1. PICK q : q = [i \in 1..n |-> i]
    OBVIOUS
  <2>2. q \in [1..n -> E] /\ \A i \in 1..n : q[i] = i
    BY <1>18, <2>1
  <2> QED
    BY <2>1, <2>2
<1>2. PICK R : R = Seq(1..n)
  OBVIOUS
<1>3. << >> \in R /\ \A o \in R, i \in E : AddIndex(o, i) \in R
  <2>1. \A o \in Seq(1..n), i \in 1..n : Append(o, i) \in Seq(1..n)
    OBVIOUS
  <2>2. << >> \in Seq(1..n)
    OBVIOUS
  <2> QED
    BY <1>2, <1>18, <2>1, <2>2, Zenon
<1>0. PICK e \in R : e = << >>
  BY <1>3, Zenon
<1> HIDE DEF AddIndex
<1>4. PICK g \in [R \X E -> R] : \A o \in R, i \in E : g[<<o, i>>] = AddIndex(o, i)
  <2>1. PICK g : g = [x \in R \X E |-> AddIndex(x[1], x[2])]
    OBVIOUS
  <2>2. \A x \in R \X E : AddIndex(x[1], x[2]) \in R
    BY <1>3
  <2> QED
    BY <2>1, <2>2
<1>5. PICK h \in [SUBSET (1..n) -> R] : Folded(h, e, g, q, n)
  <2>1. e \in R /\ g \in [R \X E -> R] /\ q \in [1..n -> E] /\ n \in Nat
    BY <1>1, <1>4
  <2> QED
    BY <2>1, FoldExists, Zenon
<1>6. h = [s \in SUBSET (1..n) |->
             IF s = {} THEN e ELSE AddIndex(h[s \ {Max(s)}], q[Max(s)])]
  <2>1. ASSUME NEW s \in SUBSET (1..n), s # {}
        PROVE  g[<<h[s \ {Max(s)}], q[Max(s)]>>] = AddIndex(h[s \ {Max(s)}], q[Max(s)])
    <3>1. Max(s) \in 1..n
      BY <2>1, LargestOf
    <3>2. h[s \ {Max(s)}] \in R /\ q[Max(s)] \in E
      BY <1>1, <1>5, <3>1
    <3> QED
      BY <1>4, <3>2
  <2> QED
    BY <1>5, <2>1 DEF Folded
<1>7. PICK f : /\ f = [s \in SUBSET (1..n) |->
                         IF s = {} THEN e ELSE AddIndex(f[s \ {Max(s)}], q[Max(s)])]
               /\ InOrder(S, v) = f[1..n]
  <2>1. PICK f : f = CHOOSE i : i = [s \in SUBSET (1..n) |->
                         IF s = {} THEN e ELSE AddIndex(i[s \ {Max(s)}], q[Max(s)])]
    OBVIOUS
  <2>2. FoldLeft(AddIndex, e, q) = f[1..n]
    BY <1>1, <2>1 DEF FoldLeft, MapThenFoldSet
  <2>3. InOrder(S, v) = FoldLeft(AddIndex, e, q)
    BY <1>0, <1>1 DEF InOrder, FoldLeftDomain, AddIndex
  <2> QED
    BY <1>6, <2>1, <2>2, <2>3
<1>8. f[{}] = e
  BY <1>7
<1>9. ASSUME NEW s \in SUBSET (1..n), s # {}, f[s \ {Max(s)}] \in R
      PROVE  f[s] = g[<<f[s \ {Max(s)}], q[Max(s)]>>]
  <2>1. Max(s) \in 1..n
    BY <1>9, LargestOf
  <2>2. q[Max(s)] \in E
    BY <1>1, <2>1
  <2> QED
    BY <1>4, <1>7, <1>9, <2>2
<1>10. Follows(f, R, g, q, n)
  <2>1. \A s \in SUBSET (1..n) : s # {} /\ f[s \ {Max(s)}] \in R =>
          f[s] = g[<<f[s \ {Max(s)}], q[Max(s)]>>]
    BY <1>9
  <2>2. f[{}] \in R
    BY <1>8
  <2> QED
    BY <2>1, <2>2, Zenon DEF Follows
<1>11. PICK w \in [0..n -> R] : Prefixed(w, f, g, q, n)
  <2>1. g \in [R \X E -> R] /\ q \in [1..n -> E] /\ n \in Nat
    BY <1>1, <1>4
  <2> QED
    BY <1>10, <2>1, FoldSteps, Zenon
<1>12. PICK T : T = {k \in Nat : k <= n => Listed(w[k], S, k)}
  OBVIOUS
<1>13. 0 \in T
  <2>1. w[0] = << >>
    BY <1>0, <1>8, <1>11 DEF Prefixed
  <2>2. Listed(<< >>, S, 0)
    BY DEF Listed
  <2> QED
    BY <1>12, <2>1, <2>2
<1>14. ASSUME NEW k \in T PROVE k + 1 \in T
  <2>1. k \in Nat
    BY <1>12
  <2>2. ASSUME k + 1 <= n PROVE Listed(w[k + 1], S, k + 1)
    <3>1. k + 1 \in 1..n /\ k \in 0..n /\ (k + 1) - 1 = k
      BY <2>1, <2>2
    <3>2. PICK o \in R : o = w[k]
      BY <1>11, <3>1
    <3>3. Listed(o, S, k)
      BY <1>12, <2>1, <2>2, <3>2
    <3>4. w[k + 1] = g[<<w[k], q[k + 1]>>]
      BY <1>11, <3>1 DEF Prefixed
    <3>5. w[k + 1] = AddIndex(o, k + 1)
      BY <1>1, <1>18, <1>4, <3>1, <3>2, <3>4
    <3> QED
      BY <2>1, <3>3, <3>5, ListedNext DEF AddIndex
  <2>3. k + 1 \in Nat
    BY <2>1
  <2> QED
    BY <1>12, <2>2, <2>3
<1>15. T = Nat
  <2>1. T \subseteq Nat
    BY <1>12
  <2> QED
    BY <1>13, <1>14, <2>1, Induction
<1>16. n \in T /\ w[n] = f[1..n]
  BY <1>11, <1>15 DEF Prefixed
<1>17. n <= n
  OBVIOUS
<1> QED
  BY <1>7, <1>12, <1>16, <1>17, Zenon

\* The fields that stand around the pieces of an object are values of the answer.
LEMMA ContextFieldsType ==
  ASSUME NEW vs, NEW n \in Nat, DOMAIN vs = 1..n, NEW target, NEW i
  PROVE  ContextFields(vs, target, i) \subseteq 1..n
<1> DEFINE Step(fits, k) == AddField(vs, target, i, fits, k)
           Fold == FoldLeftDomain(LAMBDA fits, k : AddField(vs, target, i, fits, k), {}, vs)
<1>1. PICK E : E = 1..n
  OBVIOUS
<1>2. PICK q \in [1..n -> E] : q = [k \in DOMAIN vs |-> k] /\ \A k \in 1..n : q[k] = k
  <2>1. PICK q : q = [k \in 1..n |-> k]
    OBVIOUS
  <2>2. q \in [1..n -> E] /\ \A k \in 1..n : q[k] = k
    BY <1>1, <2>1
  <2> QED
    BY <2>1, <2>2
<1>3. PICK R : R = SUBSET (1..n)
  OBVIOUS
<1>4. PICK e \in R : e = {}
  BY <1>3
<1>5. \A r \in R, k \in E : Step(r, k) \in R
  BY <1>3 DEF AddField, Fields
<1> HIDE DEF Step, Fold
<1>6. PICK g \in [R \X E -> R] : \A r \in R, k \in E : g[<<r, k>>] = Step(r, k)
  <2>1. PICK g : g = [x \in R \X E |-> Step(x[1], x[2])]
    OBVIOUS
  <2>2. \A x \in R \X E : Step(x[1], x[2]) \in R
    BY <1>5
  <2> QED
    BY <2>1, <2>2
<1>7. g \in [R \X E -> R] /\ q \in [1..n -> E] /\ n \in Nat /\ e \in R
  BY <1>2, <1>6
<1>8. PICK h \in [SUBSET (1..n) -> R] : Folded(h, e, g, q, n)
  BY <1>7, FoldExists, Zenon
<1>9. h = [s \in SUBSET (1..n) |->
             IF s = {} THEN e ELSE Step(h[s \ {Max(s)}], q[Max(s)])]
  <2>1. ASSUME NEW s \in SUBSET (1..n), s # {}
        PROVE  g[<<h[s \ {Max(s)}], q[Max(s)]>>] = Step(h[s \ {Max(s)}], q[Max(s)])
    <3>1. Max(s) \in 1..n
      BY <2>1, LargestOf
    <3>2. h[s \ {Max(s)}] \in R /\ q[Max(s)] \in E
      BY <1>2, <1>8, <3>1
    <3> QED
      BY <1>6, <3>2
  <2> QED
    BY <1>8, <2>1 DEF Folded
<1>10. PICK f : /\ f = [s \in SUBSET (1..n) |->
                          IF s = {} THEN e ELSE Step(f[s \ {Max(s)}], q[Max(s)])]
                /\ Fold = f[1..n]
  <2>1. PICK f : f = CHOOSE w : w = [s \in SUBSET (1..n) |->
                         IF s = {} THEN e ELSE Step(w[s \ {Max(s)}], q[Max(s)])]
    OBVIOUS
  <2>2. FoldLeft(Step, e, q) = f[1..n]
    BY <1>2, <2>1 DEF FoldLeft, MapThenFoldSet
  <2>3. Fold = FoldLeft(Step, e, q)
    BY <1>2, <1>4 DEF FoldLeftDomain, Step, Fold
  <2> QED
    BY <1>9, <2>1, <2>2, <2>3
<1>11. ASSUME NEW s \in SUBSET (1..n), s # {}, f[s \ {Max(s)}] \in R
       PROVE  f[s] = g[<<f[s \ {Max(s)}], q[Max(s)]>>]
  <2>1. Max(s) \in 1..n
    BY <1>11, LargestOf
  <2>2. q[Max(s)] \in E
    BY <1>2, <2>1
  <2> QED
    BY <1>6, <1>10, <1>11, <2>2
<1>12. Follows(f, R, g, q, n)
  <2>1. \A s \in SUBSET (1..n) : s # {} /\ f[s \ {Max(s)}] \in R =>
          f[s] = g[<<f[s \ {Max(s)}], q[Max(s)]>>]
    BY <1>11
  <2>2. f[{}] \in R
    BY <1>10
  <2> QED
    BY <2>1, <2>2, Zenon DEF Follows
<1>13. PICK w \in [0..n -> R] : Prefixed(w, f, g, q, n)
  BY <1>7, <1>12, FoldSteps, Zenon
<1>14. w[n] = f[1..n] /\ w[n] \in R
  BY <1>13 DEF Prefixed
<1> QED
  BY <1>3, <1>10, <1>14 DEF ContextFields, Fold

\* A piece of text: some lines that follow each other.
TextPieces(lines) == {TextChunk(lines, a, b) : a \in DOMAIN lines, b \in DOMAIN lines}

\* The pieces of a text are lines of it that follow each other (text.go).
LEMMA TextChunksType ==
  ASSUME NEW lines, NEW n \in Nat, DOMAIN lines = 1..n, NEW target
  PROVE  TextChunks(lines, target) \in Seq(TextPieces(lines))
<1> DEFINE Step(cs, k) == AddLine(lines, target, cs, k)
<1>1. PICK E : E = 1..n
  OBVIOUS
<1>2. PICK q \in [1..n -> E] : q = [k \in DOMAIN lines |-> k] /\ \A k \in 1..n : q[k] = k
  <2>1. PICK q : q = [k \in 1..n |-> k]
    OBVIOUS
  <2>2. q \in [1..n -> E] /\ \A k \in 1..n : q[k] = k
    BY <1>1, <2>1
  <2> QED
    BY <2>1, <2>2
<1>3. PICK R : R = Seq(TextPieces(lines))
  OBVIOUS
<1>4. PICK e \in R : e = << >>
  <2>1. << >> \in Seq(TextPieces(lines))
    OBVIOUS
  <2> QED
    BY <1>3, <2>1, Zenon
<1>5. \A r \in R, k \in E : Step(r, k) \in R
  <2>1. PICK P : P = TextPieces(lines)
    OBVIOUS
  <2>2. \A a, b \in E : TextChunk(lines, a, b) \in P
    BY <1>1, <2>1 DEF TextPieces
  <2>3. \A c \in P : c.ref[1] \in E
    BY <1>1, <2>1 DEF TextPieces, TextChunk, Chunk
  <2>4. ASSUME NEW cs \in Seq(P), NEW k \in E PROVE Step(cs, k) \in Seq(P)
    <3>1. PICK c \in P : c = TextChunk(lines, k, k)
      BY <2>2
    <3>2. Append(cs, c) \in Seq(P)
      OBVIOUS
    <3>3. CASE cs # << >>
      <4>1. Last(cs) \in P /\ Front(cs) \in Seq(P)
        BY <3>3 DEF Last, Front
      <4>2. PICK d \in P : d = TextChunk(lines, Last(cs).ref[1], k)
        BY <2>2, <2>3, <4>1
      <4>3. Append(Front(cs), d) \in Seq(P)
        BY <4>1
      <4> QED
        BY <3>1, <3>2, <4>2, <4>3, Zenon DEF Step, AddLine
    <3>4. CASE ~(cs # << >>)
      BY <3>1, <3>2, <3>4, Zenon DEF Step, AddLine
    <3> QED
      BY <3>3, <3>4
  <2> QED
    BY <1>3, <2>1, <2>4, Zenon
<1> HIDE DEF Step
<1>6. PICK g \in [R \X E -> R] : \A r \in R, k \in E : g[<<r, k>>] = Step(r, k)
  <2>1. PICK g : g = [x \in R \X E |-> Step(x[1], x[2])]
    OBVIOUS
  <2>2. \A x \in R \X E : Step(x[1], x[2]) \in R
    BY <1>5
  <2> QED
    BY <2>1, <2>2
<1>7. g \in [R \X E -> R] /\ q \in [1..n -> E] /\ n \in Nat /\ e \in R
  BY <1>2, <1>6
<1>8. PICK h \in [SUBSET (1..n) -> R] : Folded(h, e, g, q, n)
  BY <1>7, FoldExists, Zenon
<1>9. h = [s \in SUBSET (1..n) |->
             IF s = {} THEN e ELSE Step(h[s \ {Max(s)}], q[Max(s)])]
  <2>1. ASSUME NEW s \in SUBSET (1..n), s # {}
        PROVE  g[<<h[s \ {Max(s)}], q[Max(s)]>>] = Step(h[s \ {Max(s)}], q[Max(s)])
    <3>1. Max(s) \in 1..n
      BY <2>1, LargestOf
    <3>2. h[s \ {Max(s)}] \in R /\ q[Max(s)] \in E
      BY <1>2, <1>8, <3>1
    <3> QED
      BY <1>6, <3>2
  <2> QED
    BY <1>8, <2>1 DEF Folded
<1>10. PICK f : /\ f = [s \in SUBSET (1..n) |->
                          IF s = {} THEN e ELSE Step(f[s \ {Max(s)}], q[Max(s)])]
                /\ TextChunks(lines, target) = f[1..n]
  <2>1. PICK f : f = CHOOSE w : w = [s \in SUBSET (1..n) |->
                         IF s = {} THEN e ELSE Step(w[s \ {Max(s)}], q[Max(s)])]
    OBVIOUS
  <2>2. FoldLeft(Step, e, q) = f[1..n]
    BY <1>2, <2>1 DEF FoldLeft, MapThenFoldSet
  <2>3. TextChunks(lines, target) = FoldLeft(Step, e, q)
    BY <1>2, <1>4 DEF TextChunks, FoldLeftDomain, Step
  <2> QED
    BY <1>9, <2>1, <2>2, <2>3
<1>11. ASSUME NEW s \in SUBSET (1..n), s # {}, f[s \ {Max(s)}] \in R
       PROVE  f[s] = g[<<f[s \ {Max(s)}], q[Max(s)]>>]
  <2>1. Max(s) \in 1..n
    BY <1>11, LargestOf
  <2>2. q[Max(s)] \in E
    BY <1>2, <2>1
  <2> QED
    BY <1>6, <1>10, <1>11, <2>2
<1>12. Follows(f, R, g, q, n)
  <2>1. \A s \in SUBSET (1..n) : s # {} /\ f[s \ {Max(s)}] \in R =>
          f[s] = g[<<f[s \ {Max(s)}], q[Max(s)]>>]
    BY <1>11
  <2>2. f[{}] \in R
    BY <1>10
  <2> QED
    BY <2>1, <2>2, Zenon DEF Follows
<1>13. PICK w \in [0..n -> R] : Prefixed(w, f, g, q, n)
  BY <1>7, <1>12, FoldSteps, Zenon
<1>14. w[n] = f[1..n] /\ w[n] \in R
  BY <1>13 DEF Prefixed
<1> QED
  BY <1>3, <1>10, <1>14

\* A piece has a size and terms, and so have the contexts it needs.
Shaped(c) ==
  /\ c.size \in Nat /\ c.terms \subseteq Terms
  /\ IsFiniteSet(c.needs) /\ \A x \in c.needs : x.size \in Nat

\* Some indexes of a sequence take a size together.
LEMMA SomeSize ==
  ASSUME NEW v, NEW n \in Nat, \A i \in 1..n : v[i].size \in Nat, NEW I \in SUBSET (1..n)
  PROVE  SizeIn(v, I) \in Nat
<1>1. IsFiniteSet(1..n)
  BY FS_Interval
<1>2. IsFiniteSet(I)
  BY <1>1, FS_Subset
<1>3. \A i \in I : v[i].size \in Nat
  OBVIOUS
<1> QED
  BY <1>2, <1>3, SizeInType

LEMMA TextPieceShaped ==
  ASSUME NEW lines, IsText(lines), NEW c \in TextPieces(lines)
  PROVE  Shaped(c)
<1>1. PICK n \in Nat : DOMAIN lines = 1..n
  BY DEF IsText
<1>2. \A i \in 1..n : lines[i].size \in Nat /\ lines[i].terms \subseteq Terms
  <2>1. PICK K : K = [kind : {"json", "text", "blank"}, size : Nat, terms : SUBSET Terms]
    OBVIOUS
  <2>0. lines \in Seq(K)
    BY <2>1, Zenon DEF IsText
  <2>2. \A i \in 1..n : lines[i] \in K
    BY <1>1, <2>0
  <2>3. \A x \in K : x.size \in Nat /\ x.terms \subseteq Terms
    BY <2>1
  <2> QED
    BY <2>2, <2>3
<1>3. PICK a \in 1..n, b \in 1..n : c = TextChunk(lines, a, b)
  BY <1>1 DEF TextPieces
<1>4. a..b \in SUBSET (1..n)
  OBVIOUS
<1>5. SizeIn(lines, a..b) \in Nat
  BY <1>2, <1>4, SomeSize
<1>6. UNION {lines[i].terms : i \in a..b} \subseteq Terms
  BY <1>2, <1>4
<1> QED
  BY <1>3, <1>5, <1>6, FS_EmptySet DEF TextChunk, Chunk, Shaped

LEMMA Values ==
  ASSUME NEW vs, IsJSON(vs)
  PROVE  \E n \in Nat : /\ DOMAIN vs = 1..n
                        /\ \A i \in 1..n : /\ vs[i].size \in Nat /\ vs[i].terms \subseteq Terms
                                           /\ ToSet(vs[i].within) \subseteq 1..n
<1>1. PICK n \in Nat : DOMAIN vs = 1..n
  BY DEF IsJSON
<1>2. \A i \in 1..n : vs[i].size \in Nat /\ vs[i].terms \subseteq Terms
  <2>1. PICK K : K = [kind : {"array", "object", "scalar"}, size : Nat, terms : SUBSET Terms,
                      within : Seq(Nat)]
    OBVIOUS
  <2>0. vs \in Seq(K)
    BY <2>1, Zenon DEF IsJSON
  <2>2. \A i \in 1..n : vs[i] \in K
    BY <1>1, <2>0
  <2>3. \A x \in K : x.size \in Nat /\ x.terms \subseteq Terms
    BY <2>1
  <2> QED
    BY <2>2, <2>3
<1>3. ASSUME NEW i \in 1..n PROVE ToSet(vs[i].within) \subseteq 1..n
  <2>1. vs[i].within \in Seq(1..(i - 1))
    BY <1>1 DEF IsJSON
  <2>2. PICK s \in Seq(1..(i - 1)) : s = vs[i].within
    BY <2>1
  <2>3. \A k \in DOMAIN s : s[k] \in 1..(i - 1)
    OBVIOUS
  <2>4. \A k \in DOMAIN s : s[k] \in 1..n
    BY <2>3
  <2> QED
    BY <2>2, <2>4 DEF ToSet
<1> QED
  BY <1>1, <1>2, <1>3

LEMMA PieceShaped ==
  ASSUME NEW vs, IsJSON(vs), NEW target, NEW i \in DOMAIN vs
  PROVE  Shaped(PieceOf(vs, target, i))
<1>1. PICK n \in Nat : /\ DOMAIN vs = 1..n
                       /\ \A k \in 1..n : /\ vs[k].size \in Nat /\ vs[k].terms \subseteq Terms
                                          /\ ToSet(vs[k].within) \subseteq 1..n
  BY Values
<1>2. PICK divided : divided = {k \in {i} \cup ToSet(vs[i].within) : Divided(vs, target, k)}
  OBVIOUS
<1>3. PICK around : around = {k \in divided : ContextFields(vs, target, k) # {}}
  OBVIOUS
<1>4. divided \subseteq 1..n /\ around \subseteq divided
  BY <1>1, <1>2, <1>3
<1>5. PICK needs : needs = {[ref |-> k, size |-> SizeIn(vs, ContextFields(vs, target, k))] : k \in around}
  OBVIOUS
<1>6. /\ PieceOf(vs, target, i).size = IF i \in divided THEN 1 ELSE Tokens(vs, i)
      /\ PieceOf(vs, target, i).needs = needs
  BY <1>2, <1>3, <1>5 DEF PieceOf, Chunk
<1>7. Tokens(vs, i) \in Nat
  <2>1. Inner(vs, i) \in SUBSET (1..n)
    BY <1>1 DEF Inner
  <2> QED
    BY <1>1, <2>1, SomeSize DEF Tokens
<1>8. PieceOf(vs, target, i).terms \subseteq Terms
  <2>1. PieceOf(vs, target, i).terms =
          (UNION {vs[k].terms : k \in divided}) \cup (IF i \in divided THEN {} ELSE TermsIn(vs, i))
    BY <1>2 DEF PieceOf, Chunk
  <2>2. UNION {vs[k].terms : k \in divided} \subseteq Terms /\ TermsIn(vs, i) \subseteq Terms
    BY <1>1, <1>4 DEF TermsIn, Inner
  <2> QED
    BY <2>1, <2>2
<1>9. \A x \in needs : x.size \in Nat
  <2>1. ASSUME NEW k PROVE SizeIn(vs, ContextFields(vs, target, k)) \in Nat
    <3>1. ContextFields(vs, target, k) \in SUBSET (1..n)
      BY <1>1, ContextFieldsType
    <3> QED
      BY <1>1, <3>1, SomeSize
  <2> QED
    BY <1>5, <2>1
<1>10. IsFiniteSet(needs)
  <2>1. IsFiniteSet(around)
    <3>1. IsFiniteSet(1..n) /\ around \in SUBSET (1..n)
      BY <1>4, FS_Interval
    <3> QED
      BY <3>1, FS_Subset
  <2>2. PICK f : f = [k \in around |-> [ref |-> k, size |-> SizeIn(vs, ContextFields(vs, target, k))]]
    OBVIOUS
  <2>3. f \in Surjection(around, needs)
    BY <1>5, <2>2 DEF Surjection
  <2> QED
    BY <2>1, <2>3, FS_Surjection
<1>11. PICK c : c = PieceOf(vs, target, i)
  OBVIOUS
<1>12. c.size \in Nat
  BY <1>6, <1>7, <1>11
<1>13. c.terms \subseteq Terms
  BY <1>8, <1>11
<1> QED
  BY <1>6, <1>9, <1>10, <1>11, <1>12, <1>13 DEF Shaped

\* Whatever a tool answers is taken apart into pieces, each of a size (json.go,
\* text.go).
LEMMA ChunksShaped ==
  ASSUME NEW a \in Answers, NEW target
  PROVE  \E n \in Nat : /\ DOMAIN ChunksOf(a, target) = 1..n
                        /\ \A i \in 1..n : Shaped(ChunksOf(a, target)[i])
<1>1. \/ a.form = "json" /\ IsJSON(a.values)
      \/ a.form = "lines" /\ IsText(a.lines)
  BY OutputAssumption
<1>2. CASE a.form = "json" /\ IsJSON(a.values)
  <2>1. PICK vs : vs = a.values /\ IsJSON(vs)
    BY <1>2
  <2>2. PICK n \in Nat : DOMAIN vs = 1..n
    BY <2>1, Values
  <2>3. PICK p : p = InOrder({i \in DOMAIN vs : IsPiece(vs, target, i)}, vs)
    OBVIOUS
  <2>4. p \in Seq(1..n)
    BY <2>2, <2>3, InOrderIs DEF Listed
  <2>5. PICK m \in Nat : m = Len(p) /\ DOMAIN p = 1..m /\ \A k \in 1..m : p[k] \in 1..n
    BY <2>4
  <2>6. ChunksOf(a, target) = [k \in DOMAIN p |-> PieceOf(vs, target, p[k])]
    BY <1>2, <2>1, <2>3 DEF ChunksOf, Format, JSONChunks
  <2>7. \A k \in 1..m : Shaped(PieceOf(vs, target, p[k]))
    BY <2>1, <2>2, <2>5, PieceShaped
  <2> QED
    BY <2>5, <2>6, <2>7
<1>3. CASE a.form = "lines" /\ IsText(a.lines)
  <2>1. PICK lines : lines = a.lines /\ IsText(lines)
    BY <1>3
  <2>2. PICK n \in Nat : DOMAIN lines = 1..n
    BY <2>1 DEF IsText
  <2>3. CASE IsJSONL(lines)
    <3>1. PICK p : p = InOrder(LinesOfKind(lines, {"json", "text"}), lines)
      OBVIOUS
    <3>2. p \in Seq(1..n)
      BY <2>2, <3>1, InOrderIs DEF Listed
    <3>3. PICK m \in Nat : m = Len(p) /\ DOMAIN p = 1..m /\ \A k \in 1..m : p[k] \in 1..n
      BY <3>2
    <3>4. ChunksOf(a, target) = [k \in DOMAIN p |-> TextChunk(lines, p[k], p[k])]
      BY <1>3, <2>1, <2>3, <3>1 DEF ChunksOf, Format, JSONLChunks
    <3>5. \A k \in 1..m : TextChunk(lines, p[k], p[k]) \in TextPieces(lines)
      BY <2>2, <3>3 DEF TextPieces
    <3>6. \A k \in 1..m : Shaped(TextChunk(lines, p[k], p[k]))
      BY <2>1, <3>5, TextPieceShaped
    <3> QED
      BY <3>3, <3>4, <3>6
  <2>4. CASE ~IsJSONL(lines)
    <3>1. PICK p \in Seq(TextPieces(lines)) : p = TextChunks(lines, target)
      BY <2>2, TextChunksType
    <3>2. ChunksOf(a, target) = p
      BY <1>3, <2>1, <2>4, <3>1 DEF ChunksOf, Format
    <3>3. \A k \in DOMAIN p : Shaped(p[k])
      BY <2>1, TextPieceShaped
    <3> QED
      BY <3>2, <3>3
  <2> QED
    BY <2>3, <2>4
<1> QED
  BY <1>1, <1>2, <1>3

\* What stands while an answer is compressed (service.go, envelope.go).
OutputType ==
  /\ packing \in {"idle", "build", "pack", "fit", "excerpt", "done"}
  /\ answer \in Answers /\ budget \in Budgets /\ noticed \in NoticeSizes
  /\ \E n \in Nat : DOMAIN chunks = 1..n
  /\ \A i \in DOMAIN chunks : Shaped(chunks[i])
  /\ untried \subseteq DOMAIN chunks /\ selected \in Seq(DOMAIN chunks) /\ spent \in Nat

\* Nothing is said before the end, and an envelope that is fitted has a piece.
OutputPhase ==
  /\ packing \in {"idle", "build"} => chunks = << >> /\ untried = {} /\ selected = << >>
  /\ packing = "fit" => selected # << >>
  /\ packing # "done" => message = NoMessage

MessageType ==
  /\ message.strategy \in {"none", "passthrough", "extractive", "fallback"}
  /\ ToSet(message.kept) \subseteq DOMAIN chunks
  /\ {message.chunk, message.item, message.field} \subseteq Coverages

OutputInv == OutputType /\ OutputPhase /\ MessageType /\ OutputIsHonest

LEMMA Larger == ASSUME NEW a \in Int, NEW b \in Int
                PROVE  Max({a, b}) \in {a, b} /\ a <= Max({a, b}) /\ b <= Max({a, b})
<1>1. \E x \in {a, b} : \A y \in {a, b} : x >= y
  <2>1. CASE a >= b
    BY <2>1
  <2>2. CASE b >= a
    BY <2>2
  <2> QED
    BY <2>1, <2>2
<1> QED
  BY <1>1 DEF Max

LEMMA Lesser == ASSUME NEW a \in Int, NEW b \in Int
                PROVE  Min({a, b}) \in {a, b} /\ Min({a, b}) <= a /\ Min({a, b}) <= b
<1>1. \E x \in {a, b} : \A y \in {a, b} : x <= y
  <2>1. CASE a <= b
    BY <2>1
  <2>2. CASE b <= a
    BY <2>2
  <2> QED
    BY <2>1, <2>2
<1> QED
  BY <1>1 DEF Min

LEMMA OutputSizes == /\ Budgets \subseteq Int /\ NoticeSizes \subseteq Nat /\ Growths \subseteq Nat
                     /\ BaseSize \in Nat /\ FrameSize \in Nat
BY OutputAssumption

LEMMA AnswerSizeType == ASSUME NEW a \in Answers PROVE AnswerSize(a) \in Nat
<1>1. CASE a.form = "json" /\ IsJSON(a.values)
  <2>1. PICK vs : vs = a.values /\ IsJSON(vs)
    BY <1>1
  <2>2. PICK n \in Nat : DOMAIN vs = 1..n /\ \A i \in 1..n : vs[i].size \in Nat
    BY <2>1, Values
  <2>3. Inner(vs, 1) \in SUBSET (1..n)
    BY <2>2 DEF Inner
  <2>4. SizeIn(vs, Inner(vs, 1)) \in Nat
    BY <2>2, <2>3, SomeSize
  <2> QED
    BY <1>1, <2>1, <2>4 DEF AnswerSize, Tokens
<1>2. CASE a.form = "lines" /\ IsText(a.lines)
  <2>1. PICK lines : lines = a.lines /\ IsText(lines)
    BY <1>2
  <2>2. PICK K : K = [kind : {"json", "text", "blank"}, size : Nat, terms : SUBSET Terms]
    OBVIOUS
  <2>3. lines \in Seq(K)
    BY <2>1, <2>2, Zenon DEF IsText
  <2>4. PICK n \in Nat : DOMAIN lines = 1..n /\ \A i \in 1..n : lines[i] \in K
    BY <2>3
  <2>5. \A i \in 1..n : lines[i].size \in Nat
    BY <2>2, <2>4
  <2>6. 1..n \in SUBSET (1..n)
    OBVIOUS
  <2>7. SizeIn(lines, DOMAIN lines) \in Nat
    BY <2>4, <2>5, <2>6, SomeSize
  <2> QED
    BY <1>2, <2>1, <2>7 DEF AnswerSize
<1> QED
  BY <1>1, <1>2, OutputAssumption

LEMMA CostType ==
  ASSUME OutputType, NEW i \in DOMAIN chunks, NEW taken
  PROVE  Cost(i, taken) \in Nat
<1>1. PICK c : c = chunks[i] /\ Shaped(c)
  BY DEF OutputType
<1>2. PICK I \in SUBSET c.needs : I = c.needs \ Contexts(taken)
  OBVIOUS
<1>3. IsFiniteSet(I) /\ \A x \in I : x.size \in Nat
  BY <1>1, FS_Subset DEF Shaped
<1>4. SizeOf(I) \in Nat
  BY <1>3, SizeOfType
<1>5. c.size \in Nat
  BY <1>1 DEF Shaped
<1>6. Cost(i, taken) = c.size + FrameSize + SizeOf(I)
  BY <1>1, <1>2 DEF Cost
<1> QED
  BY <1>4, <1>5, <1>6, OutputSizes

LEMMA EnvelopeSizeType ==
  ASSUME OutputType, NEW taken \in SUBSET (DOMAIN chunks)
  PROVE  EnvelopeSize(taken) \in Nat
<1>1. PICK n \in Nat : DOMAIN chunks = 1..n
  BY DEF OutputType
<1>2. IsFiniteSet(taken)
  BY <1>1, FS_Interval, FS_Subset
<1>3. \A i \in 1..n : chunks[i].size \in Nat
  BY <1>1 DEF OutputType, Shaped
<1>4. SizeIn(chunks, taken) \in Nat
  BY <1>1, <1>3, SomeSize
<1>5. PICK N : N = {chunks[i].needs : i \in taken}
  OBVIOUS
<1>6. IsFiniteSet(N)
  <2>1. PICK f : f = [i \in taken |-> chunks[i].needs]
    OBVIOUS
  <2>2. f \in Surjection(taken, N)
    BY <1>5, <2>1 DEF Surjection
  <2> QED
    BY <1>2, <2>2, FS_Surjection
<1>7. \A S \in N : IsFiniteSet(S) /\ \A x \in S : x.size \in Nat
  BY <1>5 DEF OutputType, Shaped
<1>8. IsFiniteSet(UNION N) /\ \A x \in UNION N : x.size \in Nat
  BY <1>6, <1>7, FS_UNION
<1>9. SizeOf(UNION N) \in Nat
  BY <1>8, SizeOfType
<1>10. SizeOf(Contexts(taken)) \in Nat
  BY <1>5, <1>9 DEF Contexts
<1>11. Cardinality(taken) \in Nat
  BY <1>2, FS_CardinalityType
<1>12. noticed \in Nat
  BY OutputSizes DEF OutputType
<1>13. FrameSize * Cardinality(taken) \in Nat
  BY <1>11, OutputSizes
<1> QED
  BY <1>4, <1>10, <1>12, <1>13, OutputSizes DEF EnvelopeSize

\* Where the envelope says that nothing is missing, nothing is (envelope.go).
LEMMA CoverageIs ==
  ASSUME NEW taken \in SUBSET (DOMAIN chunks), NEW excerpted \in BOOLEAN, NEW c,
         c = Coverage(taken, excerpted)
  PROVE  /\ {c.chunk, c.item, c.field} \subseteq Coverages
         /\ c.item # "partial" /\ c.field = "full" => taken = DOMAIN chunks /\ ~excerpted
         /\ c.field = "full" =>
              \A i \in taken, j \in DOMAIN chunks : chunks[j].item = chunks[i].item => j \in taken
         /\ c.item = "full" =>
              \A j \in DOMAIN chunks : chunks[j].item # NoItem =>
                \E i \in taken : chunks[i].item = chunks[j].item
<1>1. /\ c.chunk = IF taken = DOMAIN chunks THEN "full" ELSE "partial"
      /\ c.item = IF Format(answer) # "json" \/ ItemsOf(DOMAIN chunks) = {} THEN "not_applicable"
                  ELSE IF ItemsOf(taken) = ItemsOf(DOMAIN chunks) THEN "full" ELSE "partial"
      /\ c.field = IF Format(answer) # "json" THEN "not_applicable"
                   ELSE IF \/ excerpted
                           \/ \E i \in DOMAIN chunks \ taken : chunks[i].item = NoItem
                           \/ \E x \in ItemsOf(taken) : ~(PiecesOf(x) \subseteq taken)
                   THEN "partial" ELSE "full"
  BY DEF Coverage
<1>2. {c.chunk, c.item, c.field} \subseteq Coverages
  BY <1>1 DEF Coverages
<1>3. \A i \in DOMAIN chunks : chunks[i].item # NoItem => chunks[i].item \in ItemsOf(DOMAIN chunks)
  BY DEF ItemsOf
<1>4. \A x \in ItemsOf(taken) : \E i \in taken : chunks[i].item = x
  BY DEF ItemsOf
<1>5. \A i \in taken : chunks[i].item # NoItem => chunks[i].item \in ItemsOf(taken)
  BY DEF ItemsOf
<1>6. ASSUME c.field = "full"
      PROVE  /\ ~excerpted
             /\ \A i \in DOMAIN chunks \ taken : chunks[i].item # NoItem
             /\ \A x \in ItemsOf(taken) : PiecesOf(x) \subseteq taken
  BY <1>1, <1>6
<1>7. ASSUME c.field = "full", NEW i \in taken, NEW j \in DOMAIN chunks,
             chunks[j].item = chunks[i].item
      PROVE  j \in taken
  <2>1. CASE chunks[j].item = NoItem
    BY <1>6, <1>7, <2>1
  <2>2. CASE chunks[j].item # NoItem
    <3>1. chunks[j].item \in ItemsOf(taken)
      BY <1>5, <1>7, <2>2
    <3>2. j \in PiecesOf(chunks[j].item)
      BY DEF PiecesOf
    <3> QED
      BY <1>6, <1>7, <3>1, <3>2
  <2> QED
    BY <2>1, <2>2
<1>8. ASSUME c.item = "full", NEW j \in DOMAIN chunks, chunks[j].item # NoItem
      PROVE  \E i \in taken : chunks[i].item = chunks[j].item
  <2>1. ItemsOf(taken) = ItemsOf(DOMAIN chunks)
    BY <1>1, <1>8
  <2> QED
    BY <1>3, <1>4, <1>8, <2>1
<1>9. ASSUME c.item # "partial", c.field = "full", NEW j \in DOMAIN chunks PROVE j \in taken
  <2>1. SUFFICES ASSUME j \notin taken PROVE FALSE
    OBVIOUS
  <2>2. chunks[j].item # NoItem
    BY <1>6, <1>9, <2>1
  <2>3. chunks[j].item \in ItemsOf(DOMAIN chunks)
    BY <1>3, <2>2
  <2>4. Format(answer) = "json"
    BY <1>1, <1>9
  <2>5. c.item = "full"
    BY <1>1, <1>9, <2>3, <2>4
  <2>6. PICK i \in taken : chunks[i].item = chunks[j].item
    BY <1>8, <2>2, <2>5
  <2>7. j \in taken
    BY <1>7, <1>9, <2>6
  <2> QED
    BY <2>1, <2>7
<1> QED
  BY <1>2, <1>6, <1>7, <1>8, <1>9

\* An envelope within the budget is honest of the pieces it is made of.
LEMMA EnvelopeHonest ==
  ASSUME OutputType, NEW taken \in SUBSET (DOMAIN chunks), NEW excerpted \in BOOLEAN,
         NEW size \in Int, size <= budget, UNCHANGED <<answer, budget, chunks>>,
         message' = Envelope(taken, excerpted, size)
  PROVE  MessageType' /\ OutputIsHonest'
<1>1. PICK n \in Nat : DOMAIN chunks = 1..n
  BY DEF OutputType
<1>2. PICK c : c = Coverage(taken, excerpted)
  OBVIOUS
<1>3. PICK o : o = InOrder(taken, chunks) /\ Listed(o, taken, n)
  BY <1>1, InOrderIs
<1>4. o \in Seq(1..n) /\ ToSet(o) = taken
  <2>1. o \in Seq(1..n) /\ {o[j] : j \in 1..Len(o)} = taken \cap (1..n)
    BY <1>3 DEF Listed
  <2>2. taken \cap (1..n) = taken
    BY <1>1
  <2> QED
    BY <2>1, <2>2 DEF ToSet
<1>5. /\ message'.strategy = "extractive" /\ message'.kept = o
      /\ message'.contexts = IF excerpted THEN {} ELSE Contexts(taken)
      /\ message'.truncated = excerpted /\ message'.size = size
      /\ message'.chunk = c.chunk /\ message'.item = c.item /\ message'.field = c.field
  BY <1>2, <1>3 DEF Envelope
<1>6. /\ {c.chunk, c.item, c.field} \subseteq Coverages
      /\ c.item # "partial" /\ c.field = "full" => taken = DOMAIN chunks /\ ~excerpted
      /\ c.field = "full" =>
           \A i \in taken, j \in DOMAIN chunks : chunks[j].item = chunks[i].item => j \in taken
      /\ c.item = "full" =>
           \A j \in DOMAIN chunks : chunks[j].item # NoItem =>
             \E i \in taken : chunks[i].item = chunks[j].item
  BY <1>2, CoverageIs
<1>7. MessageType'
  BY <1>4, <1>5, <1>6 DEF MessageType
<1>8. size <= Max({budget, 0})
  <2>1. budget \in Int
    BY OutputSizes DEF OutputType
  <2>2. PICK b : b = budget /\ b \in Int
    BY <2>1
  <2>3. 0 \in Int
    OBVIOUS
  <2>4. b <= Max({b, 0}) /\ Max({b, 0}) \in {b, 0}
    BY <2>2, <2>3, Larger
  <2> QED
    BY <2>2, <2>4
<1>9. \A i, j \in DOMAIN o : i < j => o[i] < o[j]
  BY <1>3, <1>4 DEF Listed
<1>10. excerpted \/ \A i \in taken : chunks[i].needs \subseteq Contexts(taken)
  BY DEF Contexts
<1>11. PICK shown : shown = ToSet(message.kept)' /\ shown = taken
  BY <1>4, <1>5
<1>12. message'.size <= Max({budget', 0})
  BY <1>5, <1>8
<1>13. \A i, j \in DOMAIN message'.kept : i < j => message'.kept[i] < message'.kept[j]
  BY <1>5, <1>9
<1>14. message'.truncated \/ \A i \in taken : chunks[i].needs \subseteq message'.contexts
  BY <1>5, <1>10
<1> QED
  BY <1>5, <1>6, <1>7, <1>11, <1>12, <1>13, <1>14 DEF OutputIsHonest

\* The ends of an answer say nothing of pieces, and keep to the budget.
LEMMA FallbackHonest ==
  ASSUME Fallback, answer' \in Answers, budget' \in Budgets, noticed' \in NoticeSizes
  PROVE  packing' = "done" /\ MessageType' /\ OutputIsHonest'
<1>1. PICK b \in Int : b = budget'
  BY OutputSizes
<1>2. PICK s \in Nat : s = AnswerSize(answer') + noticed'
  BY AnswerSizeType, OutputSizes
<1>3. PICK m : m = Max({0, Min({b, s})})
  OBVIOUS
<1>4. m <= Max({b, 0})
  <2>1. Min({b, s}) \in {b, s} /\ Min({b, s}) <= b
    BY Lesser
  <2>2. PICK k \in Int : k = Min({b, s}) /\ k <= b
    BY <2>1
  <2>3. 0 \in Int
    OBVIOUS
  <2>4. m \in {0, k}
    BY <1>3, <2>2, <2>3, Larger
  <2>5. Max({b, 0}) \in {b, 0} /\ b <= Max({b, 0}) /\ 0 <= Max({b, 0})
    BY <2>3, Larger
  <2> QED
    BY <2>2, <2>4, <2>5
<1>5. /\ packing' = "done" /\ message'.strategy = "fallback" /\ message'.size = m
      /\ message'.kept = << >> /\ message'.chunk = "partial"
      /\ message'.item = "not_applicable" /\ message'.field = "not_applicable"
  BY <1>1, <1>2, <1>3 DEF Fallback, NoMessage
<1>6. MessageType'
  <2>1. ToSet(<< >>) = {}
    BY DEF ToSet
  <2> QED
    BY <1>5, <2>1 DEF MessageType, Coverages
<1>7. OutputIsHonest'
  BY <1>1, <1>4, <1>5 DEF OutputIsHonest
<1> QED
  BY <1>5, <1>6, <1>7

LEMMA OutputStart == ASSUME OutputInit PROVE OutputInv
<1>1. answer \in Answers /\ budget \in Budgets /\ noticed \in NoticeSizes
  BY OutputAssumption DEF OutputInit
<1>2. chunks = << >> /\ untried = {} /\ selected = << >> /\ spent = 0 /\ packing = "idle"
      /\ message = NoMessage
  BY DEF OutputInit
<1>3. DOMAIN chunks = 1..0 /\ 0 \in Nat
  BY <1>2
<1>4. OutputType
  BY <1>1, <1>2, <1>3 DEF OutputType
<1>5. OutputPhase
  BY <1>2 DEF OutputPhase
<1>6. MessageType
  BY <1>2 DEF MessageType, NoMessage, ToSet, Coverages
<1>7. OutputIsHonest
  BY <1>2 DEF OutputIsHonest
<1> QED
  BY <1>4, <1>5, <1>6, <1>7 DEF OutputInv

LEMMA CompressStep == ASSUME OutputInv, Compress PROVE OutputInv'
<1>1. /\ packing = "idle" /\ chunks = << >> /\ untried = {} /\ selected = << >>
      /\ message = NoMessage
      /\ UNCHANGED <<chunks, untried, selected, spent>>
      /\ answer' \in Answers /\ budget' \in Budgets /\ noticed' \in NoticeSizes
  BY DEF Compress, OutputInv, OutputPhase
<1>2. PICK s \in Nat : s = AnswerSize(answer') + noticed'
  BY <1>1, AnswerSizeType, OutputSizes
<1>3. PICK b \in Int : b = budget'
  BY <1>1, OutputSizes
<1>4. /\ packing' \in {"done", "build"}
      /\ packing' = "done" \/ message' = NoMessage
      /\ MessageType' /\ OutputIsHonest'
  <2>1. CASE s <= b /\ b > 0
    <3>1. packing' = "done" /\ message' = [NoMessage EXCEPT !.strategy = "passthrough", !.size = s]
      BY <1>2, <1>3, <2>1 DEF Compress
    <3>2. 0 \in Int
      OBVIOUS
    <3>3. b <= Max({b, 0}) /\ Max({b, 0}) \in {b, 0}
      BY <3>2, Larger
    <3>4. s <= Max({b, 0})
      BY <3>3, <2>1
    <3>5. MessageType'
      <4>1. ToSet(<< >>) = {}
        BY DEF ToSet
      <4> QED
        BY <3>1, <4>1 DEF MessageType, NoMessage, Coverages
    <3>6. OutputIsHonest'
      BY <1>3, <3>1, <3>4 DEF OutputIsHonest, NoMessage
    <3> QED
      BY <3>1, <3>5, <3>6
  <2>2. CASE ~(s <= b /\ b > 0) /\ b <= 0
    <3>1. Fallback
      BY <1>2, <1>3, <2>2 DEF Compress
    <3> QED
      BY <1>1, <3>1, FallbackHonest
  <2>3. CASE ~(s <= b /\ b > 0) /\ ~(b <= 0)
    <3>1. packing' = "build" /\ message' = message
      BY <1>2, <1>3, <2>3 DEF Compress
    <3>2. MessageType'
      BY <1>1, <3>1 DEF OutputInv, MessageType
    <3>3. OutputIsHonest'
      BY <3>1 DEF OutputIsHonest
    <3> QED
      BY <1>1, <3>1, <3>2, <3>3
  <2> QED
    BY <2>1, <2>2, <2>3
<1>5. OutputType'
  BY <1>1, <1>4 DEF OutputInv, OutputType
<1>6. OutputPhase'
  BY <1>1, <1>4 DEF OutputPhase
<1> QED
  BY <1>4, <1>5, <1>6 DEF OutputInv

LEMMA BuildStep == ASSUME OutputInv, BuildChunks PROVE OutputInv'
<1>1. /\ packing = "build" /\ selected = << >> /\ message = NoMessage
      /\ UNCHANGED <<answer, budget, noticed, selected>>
      /\ untried' = DOMAIN chunks' /\ spent' = BaseSize + noticed
      /\ answer \in Answers /\ budget \in Budgets /\ noticed \in NoticeSizes
  BY DEF BuildChunks, OutputInv, OutputPhase, OutputType
<1>2. PICK c : c = chunks' /\ c = ChunksOf(answer, ChunkTarget(budget))
  BY DEF BuildChunks
<1>3. PICK n \in Nat : DOMAIN c = 1..n /\ \A i \in 1..n : Shaped(c[i])
  BY <1>1, <1>2, ChunksShaped
<1>4. spent' \in Nat
  BY <1>1, OutputSizes
<1>5. /\ packing' \in {"done", "pack"}
      /\ packing' = "done" \/ message' = NoMessage
      /\ MessageType' /\ OutputIsHonest'
  <2>1. CASE chunks' = << >> \/ spent' >= budget
    <3>1. Fallback
      BY <2>1 DEF BuildChunks
    <3> QED
      BY <1>1, <3>1, FallbackHonest
  <2>2. CASE ~(chunks' = << >> \/ spent' >= budget)
    <3>1. packing' = "pack" /\ message' = message
      BY <2>2 DEF BuildChunks
    <3>2. MessageType'
      BY <1>1, <3>1 DEF MessageType, NoMessage, ToSet, Coverages
    <3>3. OutputIsHonest'
      BY <3>1 DEF OutputIsHonest
    <3> QED
      BY <1>1, <3>1, <3>2, <3>3
  <2> QED
    BY <2>1, <2>2
<1>6. OutputType'
  <2>1. << >> \in Seq(DOMAIN c)
    OBVIOUS
  <2>2. \A i \in DOMAIN chunks' : Shaped(chunks'[i])
    BY <1>2, <1>3
  <2>3. (\A i \in DOMAIN chunks : Shaped(chunks[i]))'
    BY <2>2 DEF Shaped
  <2> QED
    BY <1>1, <1>2, <1>3, <1>4, <1>5, <2>1, <2>3 DEF OutputType
<1>7. OutputPhase'
  BY <1>5 DEF OutputPhase
<1> QED
  BY <1>5, <1>6, <1>7 DEF OutputInv

\* While pieces are tried, only which are left, which fit and what they take change.
LEMMA PackingStep ==
  ASSUME OutputInv, SelectChunk \/ Selected
  PROVE  OutputInv'
<1>1. /\ packing = "pack" /\ message = NoMessage
      /\ UNCHANGED <<answer, budget, noticed, chunks, message>>
  BY DEF SelectChunk, Selected, OutputInv, OutputPhase
<1>2. PICK D : D = DOMAIN chunks
  OBVIOUS
<1>3. /\ packing' \in {"pack", "excerpt", "fit"}
      /\ packing' = "fit" => selected' # << >>
      /\ untried' \subseteq D /\ selected' \in Seq(D) /\ spent' \in Nat
  <2>1. selected \in Seq(D) /\ untried \subseteq D /\ spent \in Nat
    BY <1>2 DEF OutputInv, OutputType
  <2>2. CASE Selected
    BY <2>1, <2>2 DEF Selected
  <2>3. CASE SelectChunk
    <3>1. PICK i \in untried :
            /\ untried' = untried \ {i} /\ packing' = packing
            /\ \/ UNCHANGED <<selected, spent>>
               \/ /\ selected' = Append(selected, i)
                  /\ spent' = spent + Cost(i, ToSet(selected))
      BY <2>3 DEF SelectChunk
    <3>2. Cost(i, ToSet(selected)) \in Nat
      BY <1>2, <2>1, CostType DEF OutputInv
    <3>3. Append(selected, i) \in Seq(D)
      BY <2>1
    <3> QED
      BY <1>1, <2>1, <3>1, <3>2, <3>3
  <2> QED
    BY <2>2, <2>3
<1>4. OutputType'
  BY <1>1, <1>2, <1>3 DEF OutputInv, OutputType, Shaped
<1>5. OutputPhase' /\ MessageType' /\ OutputIsHonest'
  BY <1>1, <1>3 DEF OutputInv, OutputPhase, MessageType, OutputIsHonest
<1> QED
  BY <1>4, <1>5 DEF OutputInv

LEMMA FitStep == ASSUME OutputInv, FitEnvelope PROVE OutputInv'
<1>1. /\ packing = "fit" /\ message = NoMessage /\ selected # << >>
      /\ UNCHANGED <<answer, budget, noticed, chunks, untried, spent>>
  BY DEF FitEnvelope, OutputInv, OutputPhase
<1>2. PICK D : D = DOMAIN chunks
  OBVIOUS
<1>3. PICK taken \in SUBSET D : taken = ToSet(selected) /\ selected \in Seq(D)
  <2>1. selected \in Seq(D)
    BY <1>2 DEF OutputInv, OutputType
  <2>2. ToSet(selected) \in SUBSET D
    BY <2>1 DEF ToSet
  <2> QED
    BY <2>1, <2>2
<1>4. PICK g \in Growths :
        IF EnvelopeSize(taken) + g <= budget
        THEN /\ packing' = "done" /\ selected' = selected
             /\ message' = Envelope(taken, FALSE, EnvelopeSize(taken) + g)
        ELSE /\ selected' = Front(selected)
             /\ packing' = IF Len(selected) = 1 THEN "excerpt" ELSE "fit"
             /\ message' = message
  BY <1>3 DEF FitEnvelope
<1>5. EnvelopeSize(taken) + g \in Int
  BY <1>2, EnvelopeSizeType, OutputSizes DEF OutputInv
<1>6. CASE EnvelopeSize(taken) + g <= budget
  <2>1. packing' = "done" /\ selected' = selected
        /\ message' = Envelope(taken, FALSE, EnvelopeSize(taken) + g)
    BY <1>4, <1>6
  <2>2. MessageType' /\ OutputIsHonest'
    BY <1>1, <1>2, <1>5, <1>6, <2>1, EnvelopeHonest DEF OutputInv
  <2>3. OutputType'
    BY <1>1, <2>1 DEF OutputInv, OutputType, Shaped
  <2>4. OutputPhase'
    BY <2>1 DEF OutputPhase
  <2> QED
    BY <2>2, <2>3, <2>4 DEF OutputInv
<1>7. CASE ~(EnvelopeSize(taken) + g <= budget)
  <2>1. /\ selected' = Front(selected) /\ message' = message
        /\ packing' = IF Len(selected) = 1 THEN "excerpt" ELSE "fit"
    BY <1>4, <1>7
  <2>2. PICK m \in Nat : m = Len(selected) /\ m # 0
    BY <1>1, <1>3
  <2>3. selected' \in Seq(D) /\ Len(selected') = m - 1
    BY <1>1, <1>3, <2>1, <2>2 DEF Front
  <2>4. packing' \in {"excerpt", "fit"} /\ (packing' = "fit" => selected' # << >>)
    BY <2>1, <2>2, <2>3
  <2>5. OutputType'
    BY <1>1, <1>2, <2>3, <2>4 DEF OutputInv, OutputType, Shaped
  <2>6. OutputPhase' /\ MessageType' /\ OutputIsHonest'
    BY <1>1, <2>1, <2>4 DEF OutputInv, OutputPhase, MessageType, OutputIsHonest
  <2> QED
    BY <2>5, <2>6 DEF OutputInv
<1> QED
  BY <1>6, <1>7

LEMMA ExcerptStep == ASSUME OutputInv, PackTruncatedChunk PROVE OutputInv'
<1>1. /\ UNCHANGED <<answer, budget, noticed, chunks, untried, selected, spent>>
      /\ answer \in Answers /\ budget \in Budgets /\ noticed \in NoticeSizes
  BY DEF PackTruncatedChunk, OutputInv, OutputType
<1>2. PICK best \in DOMAIN chunks, size \in Int :
        IF size > budget THEN Fallback
        ELSE packing' = "done" /\ message' = Envelope({best}, TRUE, size)
  <2>1. PICK best \in DOMAIN chunks, g \in Growths :
          LET excerpt == Min({chunks[best].size, Max({16, budget \div 3})})
              size == BaseSize + noticed + excerpt + FrameSize + g
          IN IF size > budget THEN Fallback
             ELSE packing' = "done" /\ message' = Envelope({best}, TRUE, size)
    BY DEF PackTruncatedChunk
  <2>2. PICK third \in Int : third = Max({16, budget \div 3})
    <3>1. PICK b \in Int : b = budget
      BY <1>1, OutputSizes
    <3>2. b \div 3 \in Int /\ 16 \in Int
      OBVIOUS
    <3>3. Max({16, b \div 3}) \in {16, b \div 3}
      BY <3>2, Larger
    <3> QED
      BY <3>1, <3>2, <3>3
  <2>3. PICK s \in Int : s = chunks[best].size
    BY DEF OutputInv, OutputType, Shaped
  <2>4. PICK excerpt \in Int : excerpt = Min({s, third})
    BY Lesser
  <2>5. PICK size \in Int : size = BaseSize + noticed + excerpt + FrameSize + g
    BY <1>1, OutputSizes
  <2> QED
    BY <2>1, <2>2, <2>3, <2>4, <2>5
<1>3. packing' = "done" /\ MessageType' /\ OutputIsHonest'
  <2>1. CASE size > budget
    BY <1>1, <1>2, <2>1, FallbackHonest
  <2>2. CASE ~(size > budget)
    <3>1. size <= budget
      BY <1>1, <2>2, OutputSizes
    <3>2. {best} \in SUBSET (DOMAIN chunks) /\ TRUE \in BOOLEAN
      OBVIOUS
    <3>3. packing' = "done" /\ message' = Envelope({best}, TRUE, size)
      BY <1>2, <2>2
    <3> QED
      BY <1>1, <3>1, <3>2, <3>3, EnvelopeHonest DEF OutputInv
  <2> QED
    BY <2>1, <2>2
<1>4. OutputType'
  BY <1>1, <1>3 DEF OutputInv, OutputType, Shaped
<1>5. OutputPhase'
  BY <1>3 DEF OutputPhase
<1> QED
  BY <1>3, <1>4, <1>5 DEF OutputInv

LEMMA OutputInvariant == OutputSpec => []OutputInv
<1>1. OutputInit => OutputInv
  BY OutputStart
<1>2. ASSUME OutputInv, [OutputNext]_outputVars PROVE OutputInv'
  <2>1. CASE UNCHANGED outputVars
    BY <1>2, <2>1 DEF outputVars, OutputInv, OutputType, OutputPhase, MessageType, OutputIsHonest,
                      Shaped
  <2>2. CASE OutputNext
    BY <1>2, <2>2, CompressStep, BuildStep, PackingStep, FitStep, ExcerptStep DEF OutputNext
  <2> QED
    BY <1>2, <2>1, <2>2
<1>3. OutputInv /\ [OutputNext]_outputVars => OutputInv'
  BY <1>2
<1> QED
  BY <1>1, <1>3, PTL DEF OutputSpec

\* What is kept of an answer while it is compressed is always of its type (Compress,
\* buildChunks, packEnvelope).
THEOREM OutputTyped == OutputSpec => []OutputTypeOK
<1>1. ASSUME OutputInv PROVE OutputTypeOK
  <2>1. ToSet(selected) \subseteq DOMAIN chunks
    BY <1>1 DEF OutputInv, OutputType, ToSet
  <2>2. \A i \in DOMAIN chunks : chunks[i].size \in Nat /\ chunks[i].terms \subseteq Terms
    BY <1>1 DEF OutputInv, OutputType, Shaped
  <2> QED
    BY <1>1, <2>1, <2>2 DEF OutputInv, OutputType, MessageType, OutputTypeOK
<1>2. OutputInv => OutputTypeOK
  BY <1>1
<1> QED
  BY <1>2, OutputInvariant, PTL

\* Whatever the answer, the question and the budget, what the model is shown keeps
\* to the budget and to the order of the answer, has the fields around every piece
\* it shows, and says of nothing that it is covered where a piece is missing
\* (packEnvelope, packTruncatedChunk, coverage).
THEOREM OutputHonest == OutputSpec => []OutputIsHonest
<1>1. OutputInv => OutputIsHonest
  BY DEF OutputInv
<1> QED
  BY <1>1, OutputInvariant, PTL
-----------------------------------------------------------------------------
(* The requests together.                                                  *)

Alone == /\ [QuestionNext]_questionVars /\ [RetrievalNext]_retrievalVars
         /\ [ChainNext]_chainVars /\ [WebNext]_webVars
         /\ [OutputNext]_outputVars /\ [AccountsNext]_accountVars

\* A step of the service is a step of the part that serves the request, or none,
\* and no step of any other part.
LEMMA StepAlone == ASSUME [Next]_vars PROVE Alone /\ serving' = serving
<1>1. CASE UNCHANGED vars
  BY <1>1 DEF vars, Alone
<1>2. CASE Next
  <2>1. serving' = serving
    BY <1>2 DEF Next
  <2>2. \/ QuestionNext
           /\ UNCHANGED <<retrievalVars, chainVars, webVars, outputVars, accountVars>>
        \/ RetrievalNext
           /\ UNCHANGED <<questionVars, chainVars, webVars, outputVars, accountVars>>
        \/ ChainNext
           /\ UNCHANGED <<questionVars, retrievalVars, webVars, outputVars, accountVars>>
        \/ WebNext
           /\ UNCHANGED <<questionVars, retrievalVars, chainVars, outputVars, accountVars>>
        \/ OutputNext
           /\ UNCHANGED <<questionVars, retrievalVars, chainVars, webVars, accountVars>>
        \/ AccountsNext
           /\ UNCHANGED <<questionVars, retrievalVars, chainVars, webVars, outputVars>>
    BY <1>2, Zenon DEF Next
  <2>3. Alone
    BY <2>2 DEF Alone
  <2> QED
    BY <2>1, <2>3
<1> QED
  BY <1>1, <1>2

\* Whatever kind of request is served, each part keeps to its own specification.
THEOREM PartsKept ==
  Spec => /\ QuestionSpec /\ RetrievalSpec /\ ChainSpec
          /\ WebSpec /\ OutputSpec /\ AccountsSpec
<1>1. Init => /\ QuestionInit /\ RetrievalInit /\ ChainInit
              /\ WebInit /\ OutputInit /\ AccountsInit
  BY DEF Init
<1>2. [Next]_vars => /\ [QuestionNext]_questionVars /\ [RetrievalNext]_retrievalVars
                     /\ [ChainNext]_chainVars /\ [WebNext]_webVars
                     /\ [OutputNext]_outputVars /\ [AccountsNext]_accountVars
  BY StepAlone DEF Alone
<1> QED
  BY <1>1, <1>2, PTL DEF Spec, QuestionSpec, RetrievalSpec, ChainSpec, WebSpec, OutputSpec,
                         AccountsSpec

\* The state of every part is always of its type, whichever request is served.
THEOREM ServiceTyped == Spec => []TypeOK
<1>1. Init => serving \in Requests
  BY DEF Init
<1>2. serving \in Requests /\ [Next]_vars => (serving \in Requests)'
  BY StepAlone
<1>3. Spec => [](serving \in Requests)
  BY <1>1, <1>2, PTL DEF Spec
<1>4. /\ serving \in Requests
      /\ QuestionTypeOK /\ RetrievalTypeOK /\ ChainTypeOK /\ WebTypeOK
      /\ OutputTypeOK /\ AccountsTypeOK
      => TypeOK
  BY DEF TypeOK
<1> QED
  BY <1>3, <1>4, PartsKept, QuestionTyped, RetrievalTyped, TypeCorrect, WebTyped, OutputTyped,
     AccountsTyped, PTL

\* What each part promises holds of the service, whichever request it serves.
THEOREM ServiceKeepsPromises ==
  Spec => [](/\ NothingIsWithheld /\ StartsComplete /\ EvidenceSurvives /\ BestOfEachFile
             /\ CopyIsCurrent /\ TraceIsSound /\ CandidatesAreWhole /\ OutputIsHonest
             /\ AuthorityIsKept)
BY PartsKept, NothingWithheld, CompleteAtStart, EvidenceFirst, BestKept, CopyCurrent, TraceSound,
   CandidatesWhole, OutputHonest, AuthorityKept, PTL
=============================================================================
