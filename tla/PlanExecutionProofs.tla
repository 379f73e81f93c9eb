------------------------ MODULE PlanExecutionProofs ------------------------
(***************************************************************************)
(* Proofs about the executions of a plan, for any plans, limits, times,    *)
(* number of overlapping executions and faults.                            *)
(***************************************************************************)
EXTENDS PlanExecution, FiniteSetTheorems, NaturalsInduction, TLAPS

-----------------------------------------------------------------------------
(* The inductive invariants *)

\* The record of an execution: the timer of a request started at the HTTP client's
\* timeout, and from the limits to the response the request is for the next page.
RunOK(r) ==
    /\ DOMAIN r = DOMAIN Idle
    /\ r.cursor \in Nat /\ r.start \in Nat /\ r.page \in Nat
    /\ r.pc \in {"issue", "answer", "flight"} => r.timer \in 0..HttpTimeout
    /\ r.pc \in {"acquire", "window", "pause", "send", "flight"} => r.page = r.cursor + 1
    /\ r.pc \in {"acquire", "window", "pause"} => r.limit \in Limits
RunsOK ==
    /\ case \in DOMAIN Plans /\ stored \in Nat
    /\ DOMAIN run = Executions
    /\ \A x \in Executions : RunOK(run[x])

\* A token is younger than its expiry says by what its answer took at most.
TokenOK(r) ==
    /\ r.token \in Int /\ r.token # 0
    /\ r.pc \in {"token", "issue", "answer", "cache"} => plan.life > 0
    /\ r.pc = "answer" => r.token + HttpTimeout >= plan.life + r.timer
    /\ r.pc = "cache" => r.token + HttpTimeout >= plan.life
TokensOK ==
    /\ token \in [left : Nat, alive : Nat, ttl : Int] /\ token.alive + HttpTimeout >= token.left
    /\ \A x \in Executions : TokenOK(run[x])

\* Every page up to the cursor of an execution was dealt with, except the one that
\* it has in hand; and by the execution itself, from the page it started after.
Emitted(p) == \E s \in seen : s[2] = p
EmittedBy(x, p) == \E s \in seen : s[1] = x /\ s[2] = p
InHand(r) == r.pc \in {"result", "subs", "emit"}
Passed(x, r) ==
    r.pc \notin {"hung", "done"} =>
        /\ \A p \in 1..r.cursor : Emitted(p) \/ (InHand(r) /\ p = r.page)
        /\ ~r.cut => \A p \in (r.start + 1)..r.cursor : EmittedBy(x, p) \/ (InHand(r) /\ p = r.page)
\* A loop that was not cut short ends at the last page.
Whole(x, r) ==
    /\ InHand(r) /\ ~r.cut => IF r.kind = "break" THEN r.pc = "result"
                             ELSE r.more \/ r.cursor = plan.pages
    /\ r.pc = "save" \/ r.result = "success" =>
         /\ r.pc \in {"save", "mark", "report", "done"}
         /\ ~r.cut => \A p \in (r.start + 1)..plan.pages : EmittedBy(x, p)
PagesOK ==
    /\ \A p \in 1..stored : Emitted(p)
    /\ \A x \in Executions : Passed(x, run[x]) /\ Whole(x, run[x])

\* From the limit on, an execution has its slot, which outlives the request.
Holding(r, l) ==
    /\ plan.limits[l].concurrent > 0
    /\ \/ r.pc = "acquire" /\ l < r.limit
       \/ r.pc = "window" /\ l <= r.limit
       \/ r.pc \in {"send", "flight"}
Rest(r) == IF r.pc = "flight" THEN r.timer ELSE HttpTimeout
SlotOf(x, l, i) == slots[l][i].owner = x /\ slots[l][i].left + HttpTimeout >= SlotTTL + Rest(run[x])
SlotsShape ==
    /\ DOMAIN slots = Limits
    /\ \A l \in Limits : DOMAIN slots[l] = 1..plan.limits[l].concurrent
    /\ \A l \in Limits : \A i \in DOMAIN slots[l] : slots[l][i] \in [owner : {""} \union Executions, left : Nat]
SlotsHeld ==
    \A x \in Executions : \A l \in Limits : Holding(run[x], l) => \E i \in DOMAIN slots[l] : SlotOf(x, l, i)

PInv == RunsOK /\ TokensOK /\ PagesOK /\ SlotsShape /\ SlotsHeld

-----------------------------------------------------------------------------
(* Numbers and records *)

\* The smaller of two numbers.
LEMMA MinOfTwo ==
  ASSUME NEW a \in Nat, NEW b \in Nat
  PROVE  /\ Min({a, b}) \in Nat /\ Min({a, b}) <= a /\ Min({a, b}) <= b
         /\ b <= a => Min({a, b}) = b
<1>1. \E x \in {a, b} : \A y \in {a, b} : x <= y
  <2>1. CASE a <= b
    BY <2>1
  <2>2. CASE b <= a
    BY <2>2
  <2> QED BY <2>1, <2>2
<1>2. Min({a, b}) \in {a, b} /\ \A y \in {a, b} : Min({a, b}) <= y
  BY <1>1 DEF Min
<1> QED BY <1>2

\* Some numbers have a least one.
LEMMA LeastOne ==
  ASSUME NEW S, S \subseteq Nat, S # {}
  PROVE  \E n \in S : \A k \in S : n <= k
<1> DEFINE R == OpToRel(<, Nat)
<1>1. IsWellFoundedOn(R, Nat)
  BY NatLessThanWellFounded
<1>2. \A x, y \in Nat : <<y, x>> \notin R => x <= y
  BY DEF OpToRel
<1> HIDE DEF R
<1>3. PICK x \in S : \A y \in S : ~(<<y, x>> \in R)
  BY <1>1, WFMin
<1> QED BY <1>2, <1>3

\* The least of some numbers is one of them.
LEMMA MinOfMany ==
  ASSUME NEW S, S \subseteq Nat, S # {}
  PROVE  Min(S) \in S /\ \A k \in S : Min(S) <= k
  BY LeastOne DEF Min

LEMMA Fields ==
  DOMAIN Idle = {"pc", "left", "step", "wait", "timer", "try", "loops", "cursor", "start", "page",
                 "limit", "kind", "more", "error", "abort", "token", "result", "cut"}
  BY DEF Idle

LEMMA ThePlan ==
  ASSUME RunsOK
  PROVE  /\ plan.pages \in Nat /\ plan.life \in Nat
         /\ plan.life = 0 \/ HttpTimeout < plan.life
         /\ Limits = 1..Len(plan.limits) /\ Len(plan.limits) \in Nat
         /\ \A l \in Limits : plan.limits[l].concurrent \in Nat
  BY PlansAssumption, TimesAssumption DEF RunsOK, plan, Limits

\* A plan with limits has a first one.
LEMMA SomeLimit ==
  ASSUME RunsOK, plan.limits # <<>>
  PROVE  1 \in Limits
  BY ThePlan DEF Limits

LEMMA Times == /\ HttpTimeout \in Nat /\ SlotTTL \in Nat /\ Skew \in Nat /\ MaxRun \in Nat
               /\ HttpTimeout < SlotTTL /\ HttpTimeout <= Skew
  BY TimesAssumption

\* One execution moves, the others stay where they are.
LEMMA OneMoves ==
  ASSUME RunsOK, NEW x \in Executions, NEW r, Goes(x, r)
  PROVE  run'[x] = r /\ DOMAIN run' = Executions /\ \A y \in Executions : y # x => run'[y] = run[y]
  BY DEF RunsOK, Goes

\* Where a step takes an execution: its record, its token and its pages are in order.
InOrder(x) == RunOK(run[x]) /\ TokenOK(run[x]) /\ Passed(x, run[x]) /\ Whole(x, run[x])

LEMMA AllInOrder ==
  ASSUME RunsOK, TokensOK, PagesOK, NEW x \in Executions
  PROVE  InOrder(x)
  BY DEF RunsOK, TokensOK, PagesOK, InOrder

\* The execution ends without success.
LEMMA FailsInOrder ==
  ASSUME RunsOK, NEW x \in Executions, NEW res, res # "success", Fails(x, res), UNCHANGED case
  PROVE  InOrder(x)'
<1> DEFINE r == [Idle EXCEPT !.pc = "mark", !.result = res, !.start = run[x].start, !.cut = run[x].cut]
<1>1. run'[x] = r
  BY OneMoves DEF Fails
<1>2. /\ DOMAIN r = DOMAIN Idle /\ r.pc = "mark" /\ r.cursor = 0 /\ r.page = 0 /\ r.token = -1
      /\ r.start = run[x].start /\ r.result = res
  BY DEF Idle
<1>3. run[x].start \in Nat
  BY DEF RunsOK, RunOK
<1> HIDE DEF r
<1>4. RunOK(run[x])'
  BY <1>1, <1>2, <1>3 DEF RunOK
<1>5. TokenOK(run[x])'
  BY <1>1, <1>2 DEF TokenOK
<1>6. Passed(x, run[x])'
  <2>1. 1..0 = {} /\ (run[x].start + 1)..0 = {}
    BY <1>3
  <2> QED BY <1>1, <1>2, <2>1 DEF Passed
<1>7. Whole(x, run[x])'
  BY <1>1, <1>2 DEF Whole, InHand
<1> QED BY <1>4, <1>5, <1>6, <1>7 DEF InOrder

\* What a page needs of the record, and nothing else.
SamePages(x) ==
    /\ run'[x].cursor = run[x].cursor /\ run'[x].start = run[x].start
    /\ run'[x].cut = run[x].cut /\ run'[x].result = run[x].result

\* The execution moves on without a response.
LEMMA QuietPages ==
  ASSUME PagesOK, NEW x \in Executions, SamePages(x), UNCHANGED <<case, seen>>,
         run[x].pc \notin {"hung", "done"}, ~InHand(run[x]), ~InHand(run[x])', run'[x].pc # "save",
         run[x].pc \in {"mark", "report"} => run'[x].pc \in {"mark", "report", "done"},
         run[x].pc # "save"
  PROVE  Passed(x, run[x])' /\ Whole(x, run[x])'
<1>1. Passed(x, run[x]) /\ Whole(x, run[x])
  BY DEF PagesOK
<1>2. Passed(x, run[x])'
  BY <1>1 DEF Passed, SamePages, InHand, Emitted, EmittedBy
<1>3. Whole(x, run[x])'
  BY <1>1 DEF Whole, SamePages, InHand, EmittedBy, plan
<1> QED BY <1>2, <1>3

\* The process dies.
LEMMA CrashInOrder ==
  ASSUME RunsOK, TokensOK, PagesOK, NEW x \in Executions, GoesTo(x, "done"), UNCHANGED <<case, seen>>
  PROVE  InOrder(x)'
<1> DEFINE r == [run[x] EXCEPT !.pc = "done"]
<1>1. run'[x] = r /\ InOrder(x)
  BY OneMoves, AllInOrder DEF GoesTo
<1>2. /\ DOMAIN r = DOMAIN Idle /\ r.pc = "done" /\ r.cursor = run[x].cursor /\ r.page = run[x].page
      /\ r.token = run[x].token /\ r.start = run[x].start /\ r.result = run[x].result /\ r.cut = run[x].cut
  BY <1>1, Fields DEF InOrder, RunOK
<1> HIDE DEF r
<1>3. RunOK(run[x])' /\ TokenOK(run[x])'
  BY <1>1, <1>2 DEF InOrder, RunOK, TokenOK, plan
<1>4. Passed(x, run[x])' /\ Whole(x, run[x])'
  BY <1>1, <1>2 DEF InOrder, Passed, Whole, InHand, EmittedBy, plan
<1> QED BY <1>3, <1>4 DEF InOrder

-----------------------------------------------------------------------------
(* Before the first request *)

LEMMA StartInOrder ==
  ASSUME RunsOK, TokensOK, PagesOK, NEW x \in Executions, Begin(x) \/ MarkStarted(x) \/ LoadPlan(x)
  PROVE  InOrder(x)'
<1>0. UNCHANGED <<case, seen>> /\ InOrder(x)
  BY AllInOrder DEF Begin, MarkStarted, LoadPlan
<1>1. CASE Fails(x, "failed")
  BY <1>0, <1>1, FailsInOrder
<1>2. CASE GoesTo(x, "done")
  BY <1>0, <1>2, CrashInOrder
<1>3. ASSUME NEW r, Goes(x, r), run[x].pc \in {"idle", "start", "load"},
             \/ r = [run[x] EXCEPT !.pc = "start", !.left = MaxRun]
             \/ \E pc \in {"load", "context"} : r = [run[x] EXCEPT !.pc = pc]
      PROVE  InOrder(x)'
  <2>1. /\ run'[x] = r /\ DOMAIN r = DOMAIN Idle /\ r.pc \in {"start", "load", "context"}
        /\ r.cursor = run[x].cursor /\ r.page = run[x].page /\ r.token = run[x].token
        /\ r.start = run[x].start /\ r.result = run[x].result /\ r.cut = run[x].cut
    BY <1>0, <1>3, OneMoves, Fields DEF InOrder, RunOK
  <2>2. RunOK(run[x])' /\ TokenOK(run[x])'
    BY <1>0, <2>1 DEF InOrder, RunOK, TokenOK, plan
  <2>3. Passed(x, run[x])' /\ Whole(x, run[x])'
    BY <1>0, <1>3, <2>1, QuietPages DEF SamePages, InHand
  <2> QED BY <2>2, <2>3 DEF InOrder
<1> QED BY <1>1, <1>2, <1>3 DEF Begin, MarkStarted, LoadPlan, At, GoesTo

\* The cursor is the stored one, all of whose pages were dealt with.
LEMMA LoadContextInOrder ==
  ASSUME RunsOK, TokensOK, PagesOK, NEW x \in Executions, LoadContext(x)
  PROVE  InOrder(x)'
<1>0. UNCHANGED <<case, seen>> /\ InOrder(x) /\ run[x].pc = "context"
  BY AllInOrder DEF LoadContext, At
<1>1. CASE Fails(x, "failed")
  BY <1>0, <1>1, FailsInOrder
<1>2. ASSUME NEW r, Goes(x, r),
             r = [run[x] EXCEPT !.pc = IF plan.life > 0 THEN "token" ELSE "loop",
                                !.cursor = stored, !.start = stored]
      PROVE  InOrder(x)'
  <2>1. /\ run'[x] = r /\ DOMAIN r = DOMAIN Idle
        /\ r.pc = (IF plan.life > 0 THEN "token" ELSE "loop")
        /\ r.cursor = stored /\ r.page = run[x].page /\ r.token = run[x].token
        /\ r.start = stored /\ r.result = run[x].result
    BY <1>0, <1>2, OneMoves, Fields DEF InOrder, RunOK
  <2>2. stored \in Nat /\ \A p \in 1..stored : Emitted(p)
    BY DEF RunsOK, PagesOK
  <2>3. RunOK(run[x])'
    BY <1>0, <2>1, <2>2 DEF InOrder, RunOK
  <2>4. TokenOK(run[x])'
    BY <1>0, <2>1 DEF InOrder, TokenOK, plan
  <2>5. Passed(x, run[x])'
    <3>1. (stored + 1)..stored = {}
      BY <2>2
    <3> QED BY <1>0, <2>1, <2>2, <3>1 DEF Passed, Emitted
  <2>6. Whole(x, run[x])'
    BY <1>0, <2>1 DEF InOrder, Whole, InHand
  <2> QED BY <2>3, <2>4, <2>5, <2>6 DEF InOrder
<1> QED BY <1>1, <1>2 DEF LoadContext

-----------------------------------------------------------------------------
(* The token *)

LEMMA TokenInOrder ==
  ASSUME RunsOK, TokensOK, PagesOK, NEW x \in Executions,
         GetCachedToken(x) \/ Issue(x) \/ Answer(x) \/ CacheToken(x)
  PROVE  InOrder(x)'
<1>0. UNCHANGED <<case, seen>> /\ InOrder(x) /\ run[x].pc \in {"token", "issue", "answer", "cache"}
  BY AllInOrder DEF GetCachedToken, Issue, Answer, CacheToken, At
<1>1. plan.life \in Nat /\ plan.life > HttpTimeout /\ plan' = plan
  BY <1>0, ThePlan, Times DEF InOrder, TokenOK, plan
<1>2. CASE Fails(x, "failed")
  BY <1>0, <1>2, FailsInOrder
<1>3. ASSUME NEW r, Goes(x, r), DOMAIN r = DOMAIN Idle, r.cursor = run[x].cursor, r.page = run[x].page,
             r.start = run[x].start, r.result = run[x].result, r.cut = run[x].cut,
             r.token \in Int, r.token # 0, r.pc \in {"loop", "issue", "answer", "cache"},
             r.pc \in {"issue", "answer"} => r.timer \in 0..HttpTimeout,
             r.pc = "answer" => r.token + HttpTimeout >= plan.life + r.timer,
             r.pc = "cache" => r.token + HttpTimeout >= plan.life
      PROVE  InOrder(x)'
  <2>1. run'[x] = r
    BY <1>3, OneMoves
  <2>2. RunOK(run[x])'
    BY <1>0, <1>3, <2>1 DEF InOrder, RunOK
  <2>3. TokenOK(run[x])'
    <3>1. plan'.life > 0
      BY <1>1, Times
    <3> QED BY <1>1, <1>3, <2>1, <3>1 DEF TokenOK
  <2>4. Passed(x, run[x])' /\ Whole(x, run[x])'
    BY <1>0, <1>3, <2>1, QuietPages DEF SamePages, InHand
  <2> QED BY <2>2, <2>3, <2>4 DEF InOrder
<1>4. CASE GetCachedToken(x)
  <2>1. ASSUME token # NoToken, ~IsExpired(token),
               Goes(x, [run[x] EXCEPT !.pc = "loop", !.token = token.alive])
        PROVE  InOrder(x)'
    <3> DEFINE r == [run[x] EXCEPT !.pc = "loop", !.token = token.alive]
    <3>1. /\ DOMAIN r = DOMAIN Idle /\ r.pc = "loop" /\ r.token = token.alive
          /\ r.cursor = run[x].cursor /\ r.page = run[x].page
          /\ r.start = run[x].start /\ r.result = run[x].result /\ r.cut = run[x].cut
      BY <1>0, Fields DEF InOrder, RunOK
    <3>2. token.alive \in Nat /\ token.alive > 0
      BY <2>1, Times DEF TokensOK, IsExpired
    <3>3. Goes(x, r)
      BY <2>1
    <3> HIDE DEF r
    <3>4. r.token \in Int /\ r.token # 0
      BY <3>1, <3>2
    <3> QED BY <1>3, <3>1, <3>2, <3>3, <3>4
  <2>2. ASSUME Goes(x, [run[x] EXCEPT !.pc = "issue", !.timer = HttpTimeout])
        PROVE  InOrder(x)'
    <3> DEFINE r == [run[x] EXCEPT !.pc = "issue", !.timer = HttpTimeout]
    <3>1. /\ DOMAIN r = DOMAIN Idle /\ r.pc = "issue" /\ r.token = run[x].token /\ r.timer = HttpTimeout
          /\ r.cursor = run[x].cursor /\ r.page = run[x].page
          /\ r.start = run[x].start /\ r.result = run[x].result /\ r.cut = run[x].cut
      BY <1>0, Fields DEF InOrder, RunOK
    <3>2. r.token \in Int /\ r.token # 0 /\ r.timer \in 0..HttpTimeout
      BY <1>0, <3>1, Times DEF InOrder, TokenOK
    <3>3. Goes(x, r)
      BY <2>2
    <3> HIDE DEF r
    <3> QED BY <1>3, <3>1, <3>2, <3>3
  <2> QED BY <1>4, <2>1, <2>2 DEF GetCachedToken
<1>5. CASE Issue(x)
  <2> DEFINE r == [run[x] EXCEPT !.pc = "answer", !.token = plan.life]
  <2>1. /\ DOMAIN r = DOMAIN Idle /\ r.pc = "answer" /\ r.token = plan.life /\ r.timer = run[x].timer
        /\ r.cursor = run[x].cursor /\ r.page = run[x].page
        /\ r.start = run[x].start /\ r.result = run[x].result /\ r.cut = run[x].cut
    BY <1>0, Fields DEF InOrder, RunOK
  <2>2. run[x].timer \in 0..HttpTimeout
    BY <1>0, <1>5 DEF InOrder, RunOK, Issue, At
  <2>3. Goes(x, r)
    BY <1>5 DEF Issue
  <2> HIDE DEF r
  <2>4. r.token \in Int /\ r.token # 0 /\ r.timer \in 0..HttpTimeout
        /\ r.token + HttpTimeout >= plan.life + r.timer
    BY <1>1, <2>1, <2>2, Times
  <2> QED BY <1>3, <2>1, <2>3, <2>4
<1>6. CASE Answer(x) /\ ~Fails(x, "failed")
  <2> DEFINE r == [run[x] EXCEPT !.pc = "cache"]
  <2>1. /\ DOMAIN r = DOMAIN Idle /\ r.pc = "cache" /\ r.token = run[x].token
        /\ r.cursor = run[x].cursor /\ r.page = run[x].page
        /\ r.start = run[x].start /\ r.result = run[x].result /\ r.cut = run[x].cut
    BY <1>0, Fields DEF InOrder, RunOK
  <2>2. Goes(x, r) /\ run[x].pc = "answer"
    BY <1>6 DEF Answer, GoesTo, At
  <2>3. run[x].timer \in 0..HttpTimeout /\ run[x].token \in Int /\ run[x].token # 0
        /\ run[x].token + HttpTimeout >= plan.life + run[x].timer
    BY <1>0, <2>2 DEF InOrder, RunOK, TokenOK
  <2> HIDE DEF r
  <2>4. r.token + HttpTimeout >= plan.life
    BY <1>1, <2>1, <2>3, Times
  <2> QED BY <1>3, <2>1, <2>2, <2>3, <2>4
<1>7. CASE CacheToken(x)
  <2> DEFINE r == [run[x] EXCEPT !.pc = "loop", !.timer = 0]
  <2>1. /\ DOMAIN r = DOMAIN Idle /\ r.pc = "loop" /\ r.token = run[x].token
        /\ r.cursor = run[x].cursor /\ r.page = run[x].page
        /\ r.start = run[x].start /\ r.result = run[x].result /\ r.cut = run[x].cut
    BY <1>0, Fields DEF InOrder, RunOK
  <2>2. Goes(x, r)
    BY <1>7 DEF CacheToken
  <2>3. run[x].token \in Int /\ run[x].token # 0
    BY <1>0 DEF InOrder, TokenOK
  <2> HIDE DEF r
  <2> QED BY <1>3, <2>1, <2>2, <2>3
<1> QED BY <1>2, <1>4, <1>5, <1>6, <1>7

\* The cached token is as young as its expiry says, or younger by a request.
LEMMA CachedYoung ==
  ASSUME RunsOK, TokensOK, NEW x \in Executions, CacheToken(x)
  PROVE  token' \in [left : Nat, alive : Nat, ttl : Int] /\ token'.alive + HttpTimeout >= token'.left
<1> DEFINE t == [left |-> plan.life, alive |-> run[x].token, ttl |-> 0]
<1>1. CASE UNCHANGED token
  BY <1>1 DEF TokensOK
<1>2. CASE token' = [t EXCEPT !.ttl = TTL(t)]
  <2>1. /\ run[x].pc = "cache" /\ run[x].token \in Int /\ plan.life \in Nat /\ plan.life > HttpTimeout
        /\ run[x].token + HttpTimeout >= plan.life
    BY ThePlan DEF CacheToken, At, TokensOK, TokenOK
  <2>2. TTL(t) \in Int
    BY <2>1, Times DEF TTL
  <2>3. run[x].token \in Nat
    BY <2>1, Times
  <2> QED BY <1>2, <2>1, <2>2, <2>3
<1> QED BY <1>1, <1>2 DEF CacheToken

-----------------------------------------------------------------------------
(* The loop, the limits and the request *)

\* What a record keeps when it is put in order for the next request.
Requested(x, r) ==
    /\ DOMAIN r = DOMAIN Idle /\ r.token \in Int /\ r.token # 0
    /\ r.cursor = run[x].cursor \/ r.cursor = 0
    /\ r.start = run[x].start /\ r.cut = run[x].cut
    /\ r.result = run[x].result \/ r.result = ""

LEMMA RequestInOrder ==
  ASSUME RunsOK, TokensOK, PagesOK, NEW x \in Executions, NEW r, Goes(x, r), UNCHANGED <<case, seen>>,
         Requested(x, r), r.page \in Nat,
         run[x].pc \in {"loop", "build", "acquire", "window", "pause", "send", "flight", "sleep"},
         r.pc \in {"build", "acquire", "window", "pause", "send", "flight", "sleep"},
         r.pc \in {"acquire", "window", "pause", "send", "flight"} => r.page = r.cursor + 1,
         r.pc \in {"acquire", "window", "pause"} => r.limit \in Limits,
         r.pc = "flight" => r.timer \in 0..HttpTimeout
  PROVE  InOrder(x)'
<1>0. InOrder(x) /\ run'[x] = r /\ Limits' = Limits
  BY AllInOrder, OneMoves DEF Limits, plan
<1>1. RunOK(run[x])'
  <2>1. run[x].cursor \in Nat /\ run[x].start \in Nat
    BY <1>0 DEF InOrder, RunOK
  <2>2. r.cursor = run[x].cursor \/ r.cursor = 0
    BY DEF Requested
  <2>3. r.cursor \in Nat
    <3>1. CASE r.cursor = run[x].cursor
      BY <2>1, <3>1, Zenon
    <3>2. CASE r.cursor = 0
      BY <3>2
    <3> QED BY <2>2, <3>1, <3>2
  <2> QED BY <1>0, <2>1, <2>3 DEF RunOK, Requested
<1>2. TokenOK(run[x])'
  BY <1>0 DEF TokenOK, Requested
<1>3. Passed(x, run[x])'
  <2>1. run[x].start \in Nat /\ 1..0 = {} /\ (run[x].start + 1)..0 = {}
    BY <1>0 DEF InOrder, RunOK
  <2> QED BY <1>0, <2>1 DEF InOrder, Passed, Requested, InHand, Emitted, EmittedBy
<1>4. Whole(x, run[x])'
  BY <1>0 DEF InOrder, Whole, Requested, InHand
<1> QED BY <1>1, <1>2, <1>3, <1>4 DEF InOrder

LEMMA LoopInOrder ==
  ASSUME RunsOK, TokensOK, PagesOK, NEW x \in Executions, LoopHead(x) \/ Build(x)
  PROVE  InOrder(x)'
<1>0. UNCHANGED <<case, seen>> /\ InOrder(x)
  BY AllInOrder DEF LoopHead, Build
<1>1. CASE Fails(x, "failed")
  BY <1>0, <1>1, FailsInOrder
<1>2. ASSUME NEW r, Goes(x, r), run[x].pc = "loop",
             r = [Between(x, "build") EXCEPT !.loops = @ + 1, !.step = StepTimeout]
      PROVE  InOrder(x)'
  <2>1. DOMAIN r = DOMAIN Idle /\ r.pc = "build" /\ r.result = ""
    BY <1>2 DEF Between, Idle
  <2>2. r.cursor = run[x].cursor /\ r.start = run[x].start /\ r.cut = run[x].cut
    BY <1>2 DEF Between, Idle
  <2>3. r.token \in Int /\ r.token # 0
    BY <1>2 DEF Between, Idle
  <2>4. Requested(x, r)
    BY <2>1, <2>2, <2>3 DEF Requested
  <2>5. Goes(x, r) /\ run[x].pc = "loop"
    BY <1>2
  <2>6. r.page \in Nat
    BY <1>2 DEF Between, Idle
  <2> QED BY <1>0, <2>1, <2>4, <2>5, <2>6, RequestInOrder
<1>3. CASE Build(x) /\ ~Fails(x, "failed")
  <2> DEFINE r == [run[x] EXCEPT !.pc = IF plan.limits = <<>> THEN "send" ELSE "acquire",
                                 !.page = run[x].cursor + 1,
                                 !.limit = 1, !.wait = IF plan.limits = <<>> THEN 0 ELSE MaxWait]
  <2>1. Goes(x, r) /\ run[x].pc = "build"
    BY <1>3 DEF Build, At
  <2>2. /\ DOMAIN r = DOMAIN Idle /\ r.pc = (IF plan.limits = <<>> THEN "send" ELSE "acquire")
        /\ r.page = run[x].cursor + 1 /\ r.limit = 1 /\ r.cursor = run[x].cursor
        /\ r.token = run[x].token /\ r.start = run[x].start /\ r.cut = run[x].cut
        /\ r.result = run[x].result
    BY <1>0, Fields DEF InOrder, RunOK
  <2> HIDE DEF r
  <2>3. Requested(x, r) /\ r.page \in Nat /\ r.page = r.cursor + 1
    BY <1>0, <2>2 DEF InOrder, RunOK, TokenOK, Requested
  <2>4. r.pc = "acquire" => 1 \in Limits
    BY <2>2, SomeLimit
  <2> QED BY <1>0, <2>1, <2>2, <2>3, <2>4, RequestInOrder
<1>4. CASE LoopHead(x)
  BY <1>1, <1>2, <1>4 DEF LoopHead, At
<1> QED BY <1>1, <1>3, <1>4

\* A step of the same request: only the position, the limit and the timer change.
LEMMA OnTheWay ==
  ASSUME RunsOK, TokensOK, PagesOK, NEW x \in Executions, NEW r, Goes(x, r), UNCHANGED <<case, seen>>,
         run[x].pc \in {"acquire", "window", "pause", "send"},
         DOMAIN r = DOMAIN Idle, r.cursor = run[x].cursor, r.page = run[x].page, r.token = run[x].token,
         r.start = run[x].start, r.cut = run[x].cut, r.result = run[x].result,
         r.pc \in {"acquire", "window", "pause", "send", "flight"},
         r.pc \in {"acquire", "window", "pause"} => r.limit \in Limits,
         r.pc = "flight" => r.timer = HttpTimeout
  PROVE  InOrder(x)'
<1>1. InOrder(x)
  BY AllInOrder
<1>2. Requested(x, r) /\ r.page \in Nat /\ r.page = r.cursor + 1
  BY <1>1 DEF InOrder, RunOK, TokenOK, Requested
<1>3. r.pc = "flight" => r.timer \in 0..HttpTimeout
  BY Times
<1> QED BY <1>2, <1>3, RequestInOrder

LEMMA DenyInOrder ==
  ASSUME RunsOK, TokensOK, PagesOK, NEW x \in Executions, NEW t, Deny(x, t), UNCHANGED <<case, seen>>,
         run[x].pc \in {"acquire", "window"}
  PROVE  InOrder(x)'
<1>1. CASE Fails(x, "failed")
  BY <1>1, FailsInOrder
<1>2. CASE Goes(x, [run[x] EXCEPT !.pc = "pause", !.timer = t])
  <2> DEFINE r == [run[x] EXCEPT !.pc = "pause", !.timer = t]
  <2>1. /\ DOMAIN r = DOMAIN Idle /\ r.cursor = run[x].cursor /\ r.page = run[x].page
        /\ r.token = run[x].token /\ r.start = run[x].start /\ r.cut = run[x].cut
        /\ r.result = run[x].result /\ r.pc = "pause" /\ r.limit = run[x].limit
    BY AllInOrder, Fields DEF InOrder, RunOK
  <2>2. Goes(x, r) /\ run[x].limit \in Limits
    BY <1>2, AllInOrder DEF InOrder, RunOK
  <2> HIDE DEF r
  <2> QED BY <2>1, <2>2, OnTheWay
<1> QED BY <1>1, <1>2 DEF Deny

LEMMA LimitsInOrder ==
  ASSUME RunsOK, TokensOK, PagesOK, NEW x \in Executions,
         Acquire(x) \/ CheckWindow(x) \/ Pause(x) \/ Send(x)
  PROVE  InOrder(x)'
<1>0. /\ UNCHANGED <<case, seen>> /\ InOrder(x) /\ run[x].pc \in {"acquire", "window", "pause", "send"}
      /\ DOMAIN run[x] = DOMAIN Idle
  BY AllInOrder DEF Acquire, CheckWindow, Pause, Send, At, InOrder, RunOK
<1>1. CASE Fails(x, "failed")
  BY <1>0, <1>1, FailsInOrder
<1>2. ASSUME run[x].pc \in {"acquire", "window"}, NEW t, Deny(x, t) PROVE InOrder(x)'
  BY <1>0, <1>2, DenyInOrder
<1>3. CASE Acquire(x) /\ GoesTo(x, "window")
  <2> DEFINE r == [run[x] EXCEPT !.pc = "window"]
  <2>1. /\ DOMAIN r = DOMAIN Idle /\ r.cursor = run[x].cursor /\ r.page = run[x].page
        /\ r.token = run[x].token /\ r.start = run[x].start /\ r.cut = run[x].cut
        /\ r.result = run[x].result /\ r.pc = "window" /\ r.limit = run[x].limit
    BY <1>0, Fields
  <2>2. Goes(x, r) /\ run[x].limit \in Limits
    BY <1>0, <1>3 DEF GoesTo, Acquire, At, InOrder, RunOK
  <2> HIDE DEF r
  <2> QED BY <1>0, <2>1, <2>2, OnTheWay
<1>4. ASSUME CheckWindow(x), NEW r, Goes(x, r),
             r = IF run[x].limit < Len(plan.limits) THEN [run[x] EXCEPT !.pc = "acquire", !.limit = @ + 1]
                 ELSE [run[x] EXCEPT !.pc = "send"]
      PROVE  InOrder(x)'
  <2>1. /\ DOMAIN r = DOMAIN Idle /\ r.cursor = run[x].cursor /\ r.page = run[x].page
        /\ r.token = run[x].token /\ r.start = run[x].start /\ r.cut = run[x].cut
        /\ r.result = run[x].result /\ r.pc \in {"acquire", "send"}
        /\ r.pc = "acquire" => run[x].limit < Len(plan.limits) /\ r.limit = run[x].limit + 1
    BY <1>0, <1>4, Fields
  <2>2. run[x].limit \in Limits
    BY <1>0, <1>4 DEF CheckWindow, At, InOrder, RunOK
  <2>3. r.pc = "acquire" => r.limit \in Limits
    BY <2>1, <2>2, ThePlan
  <2> QED BY <1>0, <1>4, <2>1, <2>3, OnTheWay
<1>5. CASE Pause(x) /\ ~Fails(x, "failed")
  <2> DEFINE r == [run[x] EXCEPT !.pc = "acquire", !.limit = 1]
  <2>1. /\ DOMAIN r = DOMAIN Idle /\ r.cursor = run[x].cursor /\ r.page = run[x].page
        /\ r.token = run[x].token /\ r.start = run[x].start /\ r.cut = run[x].cut
        /\ r.result = run[x].result /\ r.pc = "acquire" /\ r.limit = 1
    BY <1>0, Fields
  <2>2. Goes(x, r)
    BY <1>5 DEF Pause
  <2> HIDE DEF r
  <2>3. run[x].limit \in Limits
    BY <1>0, <1>5 DEF Pause, At, InOrder, RunOK
  <2>4. 1 \in Limits
    BY <2>3, ThePlan
  <2> QED BY <1>0, <2>1, <2>2, <2>4, OnTheWay
<1>6. CASE Send(x)
  <2> DEFINE r == [run[x] EXCEPT !.pc = "flight", !.timer = HttpTimeout]
  <2>1. /\ DOMAIN r = DOMAIN Idle /\ r.cursor = run[x].cursor /\ r.page = run[x].page
        /\ r.token = run[x].token /\ r.start = run[x].start /\ r.cut = run[x].cut
        /\ r.result = run[x].result /\ r.pc = "flight" /\ r.timer = HttpTimeout
    BY <1>0, Fields
  <2>2. Goes(x, r)
    BY <1>6 DEF Send
  <2> HIDE DEF r
  <2> QED BY <1>0, <2>1, <2>2, OnTheWay
<1>7. CASE Acquire(x)
  BY <1>1, <1>2, <1>3, <1>7 DEF Acquire, At
<1>8. CASE CheckWindow(x)
  BY <1>2, <1>4, <1>8 DEF CheckWindow, At
<1> QED BY <1>1, <1>5, <1>6, <1>7, <1>8

\* Another attempt, of a request that got no answer or was told to come back: whatever
\* the cursor has become, the page that it passes is one the execution has met.
LEMMA RetryInOrder ==
  ASSUME RunsOK, TokensOK, PagesOK, NEW x \in Executions, NEW s, NEW delays, Retry(x, s, delays),
         UNCHANGED case, seen \subseteq seen', run[x].pc \in {"send", "flight"},
         DOMAIN s = DOMAIN Idle, s.token = run[x].token, s.start = run[x].start, s.cut = run[x].cut,
         s.result = run[x].result, s.page = run[x].page, s.cursor \in Nat,
         \A p \in 1..s.cursor : p <= run[x].cursor \/ EmittedBy(x, p)'
  PROVE  InOrder(x)'
<1>0. PICK delay \in delays : Goes(x, [s EXCEPT !.pc = "sleep", !.timer = delay])
  BY DEF Retry
<1> DEFINE r == [s EXCEPT !.pc = "sleep", !.timer = delay]
<1>1. /\ DOMAIN r = DOMAIN Idle /\ r.cursor = s.cursor /\ r.page = s.page
      /\ r.token = s.token /\ r.start = s.start /\ r.cut = s.cut
      /\ r.result = s.result /\ r.pc = "sleep"
  BY Fields
<1>2. InOrder(x) /\ run'[x] = r
  BY <1>0, AllInOrder, OneMoves
<1> HIDE DEF r
<1>3. run[x].cursor \in Nat /\ run[x].start \in Nat
  BY <1>2 DEF InOrder, RunOK
<1>4. RunOK(run[x])' /\ TokenOK(run[x])'
  BY <1>1, <1>2 DEF InOrder, RunOK, TokenOK
<1>5. \A p : (Emitted(p) => Emitted(p)') /\ (EmittedBy(x, p) => EmittedBy(x, p)')
             /\ (EmittedBy(x, p)' => Emitted(p)')
  BY DEF Emitted, EmittedBy
<1>6. \A p \in 1..r.cursor : Emitted(p)'
  <2> SUFFICES ASSUME NEW p \in 1..r.cursor PROVE Emitted(p)'
    OBVIOUS
  <2>1. CASE p <= run[x].cursor
    BY <1>1, <1>2, <1>3, <1>5, <2>1 DEF InOrder, Passed, InHand
  <2>2. CASE EmittedBy(x, p)'
    BY <1>5, <2>2
  <2> QED BY <1>1, <2>1, <2>2
<1>7. ~r.cut => \A p \in (r.start + 1)..r.cursor : EmittedBy(x, p)'
  <2> SUFFICES ASSUME ~r.cut, NEW p \in (r.start + 1)..r.cursor PROVE EmittedBy(x, p)'
    OBVIOUS
  <2>1. CASE p <= run[x].cursor
    BY <1>1, <1>2, <1>3, <1>5, <2>1 DEF InOrder, Passed, InHand
  <2>2. p \in 1..s.cursor
    BY <1>1, <1>3
  <2> QED BY <2>1, <2>2
<1>8. Passed(x, run[x])'
  BY <1>1, <1>2, <1>6, <1>7 DEF Passed, Emitted, EmittedBy
<1>9. Whole(x, run[x])'
  BY <1>1, <1>2 DEF InOrder, Whole, InHand
<1> QED BY <1>4, <1>8, <1>9 DEF InOrder

LEMMA AgainInOrder ==
  ASSUME RunsOK, TokensOK, PagesOK, NEW x \in Executions, NetError(x) \/ Wake(x)
  PROVE  InOrder(x)'
<1>0. UNCHANGED <<case, seen>> /\ InOrder(x) /\ DOMAIN run[x] = DOMAIN Idle
  BY AllInOrder DEF NetError, Wake, InOrder, RunOK
<1>1. CASE Fails(x, "failed")
  BY <1>0, <1>1, FailsInOrder
<1>2. CASE NetError(x) /\ Retry(x, run[x], {CalculateBackoff(run[x].try + 1)})
  <2>1. run[x].pc \in {"send", "flight"}
    BY <1>2 DEF NetError, At
  <2>2. run[x].cursor \in Nat /\ \A p \in 1..run[x].cursor : p <= run[x].cursor
    BY <1>0 DEF InOrder, RunOK
  <2> QED BY <1>0, <1>2, <2>1, <2>2, RetryInOrder
<1>3. CASE Wake(x)
  <2> DEFINE r == [run[x] EXCEPT !.pc = "build", !.try = @ + 1]
  <2>1. /\ DOMAIN r = DOMAIN Idle /\ r.cursor = run[x].cursor /\ r.page = run[x].page
        /\ r.token = run[x].token /\ r.start = run[x].start /\ r.cut = run[x].cut
        /\ r.result = run[x].result /\ r.pc = "build"
    BY <1>0, Fields
  <2>2. Goes(x, r) /\ run[x].pc = "sleep"
    BY <1>3 DEF Wake, At
  <2> HIDE DEF r
  <2>3. Requested(x, r) /\ r.page \in Nat
    BY <1>0, <2>1 DEF Requested, InOrder, RunOK, TokenOK
  <2> QED BY <1>0, <2>1, <2>2, <2>3, RequestInOrder
<1> QED BY <1>1, <1>2, <1>3 DEF NetError

\* The cursor of a response passes at most the page that was asked for.
LEMMA ResponseInOrder ==
  ASSUME RunsOK, TokensOK, PagesOK, NEW x \in Executions, NEW r, NEW kind, Goes(x, r),
         UNCHANGED <<case, seen>>, run[x].pc = "flight",
         DOMAIN r = DOMAIN Idle, r.token = run[x].token, r.start = run[x].start, r.result = run[x].result,
         r.pc = "result", r.page = run[x].page,
         r.cursor = IF HasCursor(kind) THEN Min({run[x].page, plan.pages}) ELSE 0,
         r.more = (HasCursor(kind) /\ run[x].page < plan.pages),
         r.cut = (run[x].cut \/ ~HasCursor(kind))
  PROVE  InOrder(x)'
<1> DEFINE page == run[x].page
           c == run[x].cursor
           start == run[x].start
<1>0. InOrder(x) /\ run'[x] = r /\ plan' = plan
  BY AllInOrder, OneMoves DEF plan
<1>1. /\ page \in Nat /\ c \in Nat /\ start \in Nat /\ page = c + 1 /\ run[x].result # "success"
      /\ run[x].token \in Int /\ run[x].token # 0
  BY <1>0 DEF InOrder, RunOK, TokenOK, Whole
<1>2. plan.pages \in Nat
  BY ThePlan
<1>3. r.cursor \in Nat /\ r.cursor <= page /\ (HasCursor(kind) /\ plan.pages <= page => r.cursor = plan.pages)
  BY <1>1, <1>2, MinOfTwo
<1>4. RunOK(run[x])'
  BY <1>0, <1>1, <1>3 DEF RunOK
<1>5. TokenOK(run[x])'
  BY <1>0, <1>1 DEF TokenOK
<1>6. Passed(x, run[x])'
  <2>1. \A p \in 1..c : Emitted(p)
    BY <1>0 DEF InOrder, Passed, InHand
  <2>2. ~run[x].cut => \A p \in (start + 1)..c : EmittedBy(x, p)
    BY <1>0 DEF InOrder, Passed, InHand
  <2>3. \A p \in 1..r.cursor : p = page \/ p \in 1..c
    BY <1>1, <1>3
  <2>4. \A p \in (start + 1)..r.cursor : p = page \/ p \in (start + 1)..c
    BY <1>1, <1>3
  <2>5. \A p \in 1..r.cursor : Emitted(p) \/ p = page
    BY <2>1, <2>3
  <2>6. ~r.cut => \A p \in (start + 1)..r.cursor : EmittedBy(x, p) \/ p = page
    BY <2>2, <2>4
  <2> QED BY <1>0, <2>5, <2>6 DEF Passed, InHand, Emitted, EmittedBy
<1>7. Whole(x, run[x])'
  <2>1. ASSUME ~r.cut PROVE r.more \/ r.cursor = plan.pages
    <3>1. HasCursor(kind)
      BY <2>1
    <3>2. CASE page < plan.pages
      BY <3>1, <3>2
    <3>3. CASE plan.pages <= page
      BY <1>3, <3>1, <3>3
    <3> QED BY <1>1, <1>2, <3>2, <3>3
  <2> QED BY <1>0, <1>1, <2>1 DEF Whole, InHand
<1> QED BY <1>4, <1>5, <1>6, <1>7 DEF InOrder

LEMMA RespondInOrder ==
  ASSUME RunsOK, TokensOK, PagesOK, NEW x \in Executions, NEW kind, Respond(x, kind)
  PROVE  InOrder(x)'
<1> DEFINE s == [run[x] EXCEPT !.kind = kind.is,
                               !.cursor = IF HasCursor(kind) THEN Min({run[x].page, plan.pages}) ELSE 0,
                               !.more = HasCursor(kind) /\ run[x].page < plan.pages,
                               !.wait = 0, !.timer = 0]
           r == [s EXCEPT !.pc = "result", !.step = 0, !.try = 0, !.cut = @ \/ ~HasCursor(kind)]
<1>0. UNCHANGED case /\ InOrder(x) /\ run[x].pc = "flight" /\ DOMAIN run[x] = DOMAIN Idle
  BY AllInOrder DEF Respond, At, InOrder, RunOK
<1>1. /\ DOMAIN s = DOMAIN Idle /\ s.token = run[x].token /\ s.start = run[x].start
      /\ s.result = run[x].result /\ s.page = run[x].page /\ s.cut = run[x].cut
      /\ s.cursor = (IF HasCursor(kind) THEN Min({run[x].page, plan.pages}) ELSE 0)
      /\ s.more = (HasCursor(kind) /\ run[x].page < plan.pages)
  BY <1>0, Fields
<1>2. \/ Fails(x, "failed") /\ UNCHANGED seen
      \/ /\ Retry(x, s, Delays(x, kind))
         /\ seen' = IF HasCursor(kind) THEN seen \union {<<x, run[x].page, "retried">>} ELSE seen
      \/ Goes(x, r) /\ UNCHANGED seen
  BY DEF Respond
<1> HIDE DEF s
<1>3. /\ DOMAIN r = DOMAIN Idle /\ r.token = s.token /\ r.start = s.start
      /\ r.result = s.result /\ r.page = s.page /\ r.cut = (s.cut \/ ~HasCursor(kind))
      /\ r.cursor = s.cursor /\ r.more = s.more /\ r.pc = "result"
  BY <1>1, Fields
<1> HIDE DEF r
<1>4. CASE Fails(x, "failed") /\ UNCHANGED seen
  BY <1>0, <1>4, FailsInOrder
<1>5. CASE /\ Retry(x, s, Delays(x, kind))
           /\ seen' = IF HasCursor(kind) THEN seen \union {<<x, run[x].page, "retried">>} ELSE seen
  <2>1. run[x].page \in Nat /\ run[x].cursor \in Nat /\ run[x].page = run[x].cursor + 1 /\ plan.pages \in Nat
    BY <1>0, ThePlan DEF InOrder, RunOK
  <2>2. s.cursor \in Nat /\ (IF HasCursor(kind) THEN s.cursor <= run[x].page ELSE s.cursor = 0)
    BY <1>1, <2>1, MinOfTwo
  <2>3. ASSUME NEW p \in 1..s.cursor, ~(p <= run[x].cursor) PROVE EmittedBy(x, p)'
    <3>1. HasCursor(kind) /\ p = run[x].page
      BY <2>1, <2>2, <2>3
    <3> DEFINE e == <<x, run[x].page, "retried">>
    <3>2. e \in seen' /\ e[1] = x /\ e[2] = p
      BY <1>5, <3>1
    <3> HIDE DEF e
    <3> QED BY <3>2 DEF EmittedBy
  <2>4. seen \subseteq seen'
    BY <1>5
  <2> QED BY <1>0, <1>1, <1>5, <2>2, <2>3, <2>4, RetryInOrder
<1>6. CASE Goes(x, r) /\ UNCHANGED seen
  BY <1>0, <1>1, <1>3, <1>6, ResponseInOrder
<1> QED BY <1>2, <1>4, <1>5, <1>6

-----------------------------------------------------------------------------
(* The page in hand *)

\* The page in hand is dealt with, and the loop goes on or ends.
LEMMA DealtWith ==
  ASSUME RunsOK, TokensOK, PagesOK, NEW x \in Executions, NEW r, NEW how, Goes(x, r), UNCHANGED case,
         seen' = seen \union {<<x, run[x].page, how>>}, InHand(run[x]),
         DOMAIN r = DOMAIN Idle, r.token \in Int, r.token # 0, r.page \in Nat, r.result = "",
         r.cursor = run[x].cursor, r.start = run[x].start,
         r.pc \in {"loop", "save"}, ~r.cut => ~run[x].cut,
         r.pc = "save" /\ ~r.cut => run[x].kind # "break" /\ ~run[x].more
  PROVE  InOrder(x)'
<1> DEFINE page == run[x].page
           e == <<x, page, how>>
<1>0. InOrder(x) /\ run'[x] = r /\ plan' = plan
  BY AllInOrder, OneMoves DEF plan
<1>1. e \in seen' /\ e[1] = x /\ e[2] = page /\ \A s \in seen : s \in seen'
  OBVIOUS
<1> HIDE DEF e
<1>2. \A p : (Emitted(p) \/ p = page => Emitted(p)') /\ (EmittedBy(x, p) \/ p = page => EmittedBy(x, p)')
  BY <1>1 DEF Emitted, EmittedBy
<1>3. RunOK(run[x])'
  BY <1>0 DEF InOrder, RunOK
<1>4. TokenOK(run[x])'
  BY <1>0 DEF TokenOK
<1>5. \A p \in 1..r.cursor : Emitted(p)'
  BY <1>0, <1>2 DEF InOrder, Passed, InHand
<1>6. ~r.cut => \A p \in (r.start + 1)..r.cursor : EmittedBy(x, p)'
  BY <1>0, <1>2 DEF InOrder, Passed, InHand
<1>7. Passed(x, run[x])'
  BY <1>0, <1>5, <1>6 DEF Passed, Emitted, EmittedBy
<1>8. Whole(x, run[x])'
  <2>1. r.pc = "save" /\ ~r.cut => r.cursor = plan.pages
    BY <1>0 DEF InOrder, Whole
  <2>2. r.pc = "save" /\ ~r.cut => \A p \in (r.start + 1)..plan.pages : EmittedBy(x, p)'
    BY <1>6, <2>1
  <2> QED BY <1>0, <2>2 DEF Whole, InHand, EmittedBy
<1> QED BY <1>3, <1>4, <1>7, <1>8 DEF InOrder

\* The page stays in hand.
LEMMA StaysInHand ==
  ASSUME RunsOK, TokensOK, PagesOK, NEW x \in Executions, NEW r, Goes(x, r), UNCHANGED <<case, seen>>,
         InHand(run[x]), InHand(r),
         DOMAIN r = DOMAIN Idle, r.token = run[x].token, r.page = run[x].page, r.result = run[x].result,
         r.cursor = run[x].cursor, r.start = run[x].start, r.kind = run[x].kind,
         ~r.cut => ~run[x].cut /\ r.more = run[x].more /\ r.kind # "break"
  PROVE  InOrder(x)'
<1>0. InOrder(x) /\ run'[x] = r /\ plan' = plan
  BY AllInOrder, OneMoves DEF plan
<1>1. RunOK(run[x])'
  BY <1>0 DEF InOrder, RunOK, InHand
<1>2. TokenOK(run[x])'
  BY <1>0 DEF InOrder, TokenOK, InHand
<1>3. Passed(x, run[x])'
  BY <1>0 DEF InOrder, Passed, InHand, Emitted, EmittedBy
<1>4. Whole(x, run[x])'
  BY <1>0 DEF InOrder, Whole, InHand
<1> QED BY <1>1, <1>2, <1>3, <1>4 DEF InOrder

\* What is left of an execution between two loops.
LEMMA BetweenLoops ==
  ASSUME NEW x \in Executions, NEW pc
  PROVE  /\ DOMAIN Between(x, pc) = DOMAIN Idle /\ Between(x, pc).result = "" /\ Between(x, pc).pc = pc
         /\ Between(x, pc).cursor = run[x].cursor /\ Between(x, pc).start = run[x].start
         /\ Between(x, pc).cut = run[x].cut /\ Between(x, pc).page \in Nat
         /\ Between(x, pc).token \in Int /\ Between(x, pc).token # 0
<1> DEFINE r == Between(x, pc)
<1>1. DOMAIN r = DOMAIN Idle /\ r.result = "" /\ r.pc = pc
  BY DEF Between, Idle
<1>2. r.cursor = run[x].cursor /\ r.start = run[x].start /\ r.cut = run[x].cut
  BY DEF Between, Idle
<1>3. r.token \in Int /\ r.token # 0
  BY DEF Between, Idle
<1>4. r.page \in Nat
  BY DEF Between, Idle
<1> QED BY <1>1, <1>2, <1>3, <1>4

LEMMA ResultInOrder ==
  ASSUME RunsOK, TokensOK, PagesOK, NEW x \in Executions, Result(x)
  PROVE  InOrder(x)'
<1>0. UNCHANGED case /\ InOrder(x) /\ run[x].pc = "result" /\ InHand(run[x]) /\ DOMAIN run[x] = DOMAIN Idle
  BY AllInOrder DEF Result, At, InOrder, RunOK, InHand
<1>1. CASE Fails(x, "aborted")
  BY <1>0, <1>1, FailsInOrder
<1>2. CASE /\ Goes(x, [Between(x, "save") EXCEPT !.cut = TRUE])
           /\ seen' = seen \union {<<x, run[x].page, "broke">>}
  <2> DEFINE b == Between(x, "save")
             r == [b EXCEPT !.cut = TRUE]
  <2>1. /\ DOMAIN b = DOMAIN Idle /\ b.token \in Int /\ b.token # 0 /\ b.page \in Nat /\ b.result = ""
        /\ b.cursor = run[x].cursor /\ b.start = run[x].start /\ b.pc = "save"
    BY BetweenLoops
  <2>2. Goes(x, r)
    BY <1>2
  <2> HIDE DEF b
  <2>3. /\ DOMAIN r = DOMAIN Idle /\ r.token = b.token /\ r.page = b.page /\ r.result = b.result
        /\ r.cursor = b.cursor /\ r.start = b.start /\ r.pc = b.pc /\ r.cut = TRUE
    BY <2>1, Fields
  <2> HIDE DEF r
  <2> QED BY <1>0, <1>2, <2>1, <2>2, <2>3, DealtWith
<1>3. ASSUME run[x].kind # "break", UNCHANGED seen, NEW pc \in {"emit", "subs"}, GoesTo(x, pc)
      PROVE  InOrder(x)'
  <2> DEFINE r == [run[x] EXCEPT !.pc = pc]
  <2>1. /\ DOMAIN r = DOMAIN Idle /\ r.token = run[x].token /\ r.page = run[x].page
        /\ r.result = run[x].result /\ r.cursor = run[x].cursor /\ r.start = run[x].start
        /\ r.kind = run[x].kind /\ r.cut = run[x].cut /\ r.more = run[x].more /\ r.pc = pc
    BY <1>0, Fields
  <2>2. Goes(x, r)
    BY <1>3 DEF GoesTo
  <2> HIDE DEF r
  <2>3. InHand(r)
    BY <2>1 DEF InHand
  <2> QED BY <1>0, <1>3, <2>1, <2>2, <2>3, StaysInHand
<1> QED BY <1>1, <1>2, <1>3 DEF Result

\* Only a response with a cursor and no break gets past the result, unless the loop
\* is cut short.
LEMMA SubStepsInOrder ==
  ASSUME RunsOK, TokensOK, PagesOK, NEW x \in Executions, SubSteps(x)
  PROVE  InOrder(x)'
<1>0. /\ UNCHANGED <<case, seen>> /\ InOrder(x) /\ run[x].pc = "subs" /\ InHand(run[x])
      /\ DOMAIN run[x] = DOMAIN Idle
  BY AllInOrder DEF SubSteps, At, InOrder, RunOK, InHand
<1>1. ~run[x].cut => run[x].kind # "break"
  BY <1>0 DEF InOrder, Whole
<1>2. ASSUME NEW res \in {"failed", "aborted"}, Fails(x, res) PROVE InOrder(x)'
  BY <1>0, <1>2, FailsInOrder
<1>3. ASSUME NEW more, Goes(x, [run[x] EXCEPT !.pc = "emit", !.more = more, !.cut = @ \/ more # run[x].more])
      PROVE  InOrder(x)'
  <2> DEFINE r == [run[x] EXCEPT !.pc = "emit", !.more = more, !.cut = @ \/ more # run[x].more]
  <2>1. /\ DOMAIN r = DOMAIN Idle /\ r.token = run[x].token /\ r.page = run[x].page
        /\ r.result = run[x].result /\ r.cursor = run[x].cursor /\ r.start = run[x].start
        /\ r.kind = run[x].kind /\ r.cut = (run[x].cut \/ more # run[x].more) /\ r.more = more /\ r.pc = "emit"
    BY <1>0, Fields
  <2>2. Goes(x, r)
    BY <1>3
  <2> HIDE DEF r
  <2>3. InHand(r)
    BY <2>1 DEF InHand
  <2> QED BY <1>0, <1>1, <2>1, <2>2, <2>3, StaysInHand
<1>4. ASSUME NEW error, NEW abort, Goes(x, [run[x] EXCEPT !.pc = "emit", !.error = error, !.abort = abort])
      PROVE  InOrder(x)'
  <2> DEFINE r == [run[x] EXCEPT !.pc = "emit", !.error = error, !.abort = abort]
  <2>1. /\ DOMAIN r = DOMAIN Idle /\ r.token = run[x].token /\ r.page = run[x].page
        /\ r.result = run[x].result /\ r.cursor = run[x].cursor /\ r.start = run[x].start
        /\ r.kind = run[x].kind /\ r.cut = run[x].cut /\ r.more = run[x].more /\ r.pc = "emit"
    BY <1>0, Fields
  <2>2. Goes(x, r)
    BY <1>4
  <2> HIDE DEF r
  <2>3. InHand(r)
    BY <2>1 DEF InHand
  <2> QED BY <1>0, <1>1, <2>1, <2>2, <2>3, StaysInHand
<1>5. CASE GoesTo(x, "hung")
  <2> DEFINE r == [run[x] EXCEPT !.pc = "hung"]
  <2>1. /\ DOMAIN r = DOMAIN Idle /\ r.token = run[x].token /\ r.page = run[x].page
        /\ r.result = run[x].result /\ r.cursor = run[x].cursor /\ r.start = run[x].start
        /\ r.cut = run[x].cut /\ r.pc = "hung"
    BY <1>0, Fields
  <2>2. run'[x] = r
    BY <1>5, OneMoves DEF GoesTo
  <2> HIDE DEF r
  <2>3. RunOK(run[x])' /\ TokenOK(run[x])'
    BY <1>0, <2>1, <2>2 DEF InOrder, RunOK, TokenOK
  <2>4. Passed(x, run[x])' /\ Whole(x, run[x])'
    BY <1>0, <2>1, <2>2 DEF InOrder, Passed, Whole, InHand, Emitted, EmittedBy
  <2> QED BY <2>3, <2>4 DEF InOrder
<1>6. \/ \E more : Goes(x, [run[x] EXCEPT !.pc = "emit", !.more = more, !.cut = @ \/ more # run[x].more])
      \/ \E error, abort : Goes(x, [run[x] EXCEPT !.pc = "emit", !.error = error, !.abort = abort])
      \/ \E res \in {"failed", "aborted"} : Fails(x, res)
      \/ GoesTo(x, "hung")
  BY DEF SubSteps
<1> QED BY <1>2, <1>3, <1>4, <1>5, <1>6

\* The page is published before the loop goes on or ends.
LEMMA EmitInOrder ==
  ASSUME RunsOK, TokensOK, PagesOK, NEW x \in Executions, Emit(x) \/ EvaluationFails(x)
  PROVE  InOrder(x)'
<1>0. UNCHANGED case /\ InOrder(x) /\ run[x].pc = "emit" /\ InHand(run[x])
  BY AllInOrder DEF Emit, EvaluationFails, At, InHand
<1>1. CASE Fails(x, "aborted") \/ Fails(x, "failed")
  BY <1>0, <1>1, FailsInOrder
<1>2. ASSUME NEW how, seen' = seen \union {<<x, run[x].page, how>>},
             Goes(x, Between(x, IF run[x].more THEN "loop" ELSE "save"))
      PROVE  InOrder(x)'
  <2> DEFINE pc == IF run[x].more THEN "loop" ELSE "save"
             r == Between(x, pc)
  <2>1. pc \in {"loop", "save"} /\ (pc = "save" => ~run[x].more)
    OBVIOUS
  <2>2. Goes(x, r)
    BY <1>2
  <2> HIDE DEF pc
  <2>3. /\ DOMAIN r = DOMAIN Idle /\ r.token \in Int /\ r.token # 0 /\ r.page \in Nat /\ r.result = ""
        /\ r.cursor = run[x].cursor /\ r.start = run[x].start /\ r.cut = run[x].cut /\ r.pc = pc
    BY BetweenLoops
  <2> HIDE DEF r
  <2>4. ~run[x].cut => run[x].kind # "break"
    BY <1>0 DEF InOrder, Whole
  <2> QED BY <1>0, <1>2, <2>1, <2>2, <2>3, <2>4, DealtWith
<1> QED BY <1>1, <1>2 DEF Emit, EvaluationFails

\* A success has dealt with all the pages that it was to deal with.
LEMMA SaveInOrder ==
  ASSUME RunsOK, TokensOK, PagesOK, NEW x \in Executions, Save(x)
  PROVE  InOrder(x)'
<1> DEFINE r == [Idle EXCEPT !.pc = "mark", !.result = "success", !.start = run[x].start, !.cut = run[x].cut]
<1>0. UNCHANGED <<case, seen>> /\ InOrder(x) /\ run[x].pc = "save"
  BY AllInOrder DEF Save, At
<1>1. run'[x] = r
  BY OneMoves DEF Save, Fails
<1>2. /\ DOMAIN r = DOMAIN Idle /\ r.pc = "mark" /\ r.cursor = 0 /\ r.page = 0 /\ r.token = -1
      /\ r.start = run[x].start /\ r.result = "success" /\ r.cut = run[x].cut
  BY DEF Idle
<1>3. run[x].start \in Nat
  BY DEF RunsOK, RunOK
<1> HIDE DEF r
<1>4. RunOK(run[x])'
  BY <1>1, <1>2, <1>3 DEF RunOK
<1>5. TokenOK(run[x])'
  BY <1>1, <1>2 DEF TokenOK
<1>6. Passed(x, run[x])'
  <2>1. 1..0 = {} /\ (run[x].start + 1)..0 = {}
    BY <1>3
  <2> QED BY <1>1, <1>2, <2>1 DEF Passed
<1>7. Whole(x, run[x])'
  <2>1. ~r.cut => \A p \in (r.start + 1)..plan.pages : EmittedBy(x, p)
    BY <1>0, <1>2, Zenon DEF InOrder, Whole
  <2>2. r.pc = "mark"
    BY <1>2
  <2> QED BY <1>0, <1>1, <2>1, <2>2 DEF Whole, InHand, EmittedBy, plan
<1> QED BY <1>4, <1>5, <1>6, <1>7 DEF InOrder

LEMMA ReportInOrder ==
  ASSUME RunsOK, TokensOK, PagesOK, NEW x \in Executions, Mark(x) \/ Report(x)
  PROVE  InOrder(x)'
<1>0. UNCHANGED <<case, seen>> /\ InOrder(x) /\ DOMAIN run[x] = DOMAIN Idle
  BY AllInOrder DEF Mark, Report, InOrder, RunOK
<1>1. CASE Report(x)
  BY <1>0, <1>1, CrashInOrder DEF Report
<1>2. CASE Mark(x)
  <2> DEFINE r == [run[x] EXCEPT !.pc = "report"]
  <2>1. run'[x] = r /\ run[x].pc = "mark"
    BY <1>2, OneMoves DEF Mark, GoesTo, At
  <2>2. /\ DOMAIN r = DOMAIN Idle /\ r.pc = "report"
        /\ r.cursor = run[x].cursor /\ r.page = run[x].page /\ r.token = run[x].token
        /\ r.start = run[x].start /\ r.result = run[x].result /\ r.cut = run[x].cut
    BY <1>0, Fields
  <2> HIDE DEF r
  <2>3. RunOK(run[x])' /\ TokenOK(run[x])'
    BY <1>0, <2>1, <2>2 DEF InOrder, RunOK, TokenOK, plan
  <2>4. Passed(x, run[x])' /\ Whole(x, run[x])'
    BY <1>0, <2>1, <2>2, QuietPages DEF SamePages, InHand
  <2> QED BY <2>3, <2>4 DEF InOrder
<1> QED BY <1>1, <1>2

-----------------------------------------------------------------------------
(* Time *)

\* A request cannot outlast its timeout, so its token ages no more than its timer does.
LEMMA TickInOrder ==
  ASSUME RunsOK, TokensOK, PagesOK, Tick, NEW x \in Executions
  PROVE  InOrder(x)'
<1> DEFINE r == RunAged(run[x])
<1>0. UNCHANGED <<case, seen>> /\ InOrder(x) /\ DOMAIN run[x] = DOMAIN Idle /\ Waits(x)
  BY AllInOrder DEF Tick, InOrder, RunOK
<1>1. run'[x] = r
  BY DEF Tick
<1>2. /\ DOMAIN r = DOMAIN Idle /\ r.pc = run[x].pc /\ r.cursor = run[x].cursor /\ r.page = run[x].page
      /\ r.start = run[x].start /\ r.result = run[x].result /\ r.cut = run[x].cut /\ r.limit = run[x].limit
      /\ r.kind = run[x].kind /\ r.more = run[x].more
  BY <1>0, Fields DEF RunAged
<1>3. /\ run[x].pc \in {"issue", "answer", "flight"} => r.timer = Dec(run[x].timer)
      /\ run[x].pc = "answer" => r.token = Dec(run[x].token)
      /\ run[x].pc # "answer" => r.token = run[x].token
  BY <1>0, Fields DEF RunAged
<1> HIDE DEF r
<1>4. RunOK(run[x])'
  <2>1. r.pc \in {"issue", "answer", "flight"} => r.timer \in 0..HttpTimeout
    BY <1>0, <1>2, <1>3, Times DEF InOrder, RunOK, Dec
  <2> QED BY <1>0, <1>1, <1>2, <2>1 DEF InOrder, RunOK, Limits, plan
<1>5. TokenOK(run[x])'
  <2>1. CASE run[x].pc # "answer"
    BY <1>0, <1>1, <1>2, <1>3, <2>1 DEF InOrder, TokenOK, plan
  <2>2. CASE run[x].pc = "answer"
    <3>1. /\ run[x].timer \in 0..HttpTimeout /\ run[x].timer > 0 /\ run[x].token \in Int
          /\ plan.life \in Nat /\ plan.life > HttpTimeout /\ run[x].token + HttpTimeout >= plan.life + run[x].timer
      BY <1>0, <2>2, ThePlan DEF InOrder, RunOK, TokenOK, Waits
    <3>2. run[x].token > 1 /\ r.token = run[x].token - 1 /\ r.timer = run[x].timer - 1
      BY <1>3, <2>2, <3>1, Times DEF Dec
    <3>3. /\ r.token \in Int /\ r.token # 0 /\ plan.life > 0
          /\ r.token + HttpTimeout >= plan.life + r.timer
      BY <3>1, <3>2, Times
    <3> QED BY <1>0, <1>1, <1>2, <2>2, <3>3 DEF TokenOK, plan
  <2> QED BY <2>1, <2>2
<1>6. Passed(x, run[x])' /\ Whole(x, run[x])'
  BY <1>0, <1>1, <1>2 DEF InOrder, Passed, Whole, InHand, Emitted, EmittedBy, plan
<1> QED BY <1>4, <1>5, <1>6 DEF InOrder

\* The cached token ages, or is gone.
LEMMA CachedAges ==
  ASSUME TokensOK, Tick
  PROVE  token' \in [left : Nat, alive : Nat, ttl : Int] /\ token'.alive + HttpTimeout >= token'.left
<1>1. token' = TokenAged(token) /\ HttpTimeout \in Nat
  BY Times DEF Tick
<1>2. CASE token' = NoToken
  BY <1>1, <1>2 DEF NoToken
<1>3. CASE token' = [left |-> Dec(token.left), alive |-> Dec(token.alive), ttl |-> token.ttl - 1]
  <2>1. token.left \in Nat /\ token.alive \in Nat /\ token.ttl \in Int /\ token.alive + HttpTimeout >= token.left
    BY DEF TokensOK
  <2>2. Dec(token.left) \in Nat /\ Dec(token.alive) \in Nat
        /\ Dec(token.alive) + HttpTimeout >= Dec(token.left)
    BY <1>1, <2>1 DEF Dec
  <2> QED BY <1>3, <2>1, <2>2
<1> QED BY <1>1, <1>2, <1>3 DEF TokenAged

-----------------------------------------------------------------------------
(* The steps together *)

Step(x) == Begin(x) \/ Execute(x) \/ Crash(x)

LEMMA StepInOrder ==
  ASSUME RunsOK, TokensOK, PagesOK, NEW x \in Executions, Step(x)
  PROVE  InOrder(x)'
<1>1. CASE Crash(x)
  BY <1>1, CrashInOrder DEF Crash
<1>2. CASE MarkStarted(x) \/ LoadPlan(x) \/ LoadContext(x)
           \/ GetCachedToken(x) \/ Issue(x) \/ Answer(x) \/ CacheToken(x)
  BY <1>2, StartInOrder, LoadContextInOrder, TokenInOrder
<1>3. CASE LoopHead(x) \/ Build(x) \/ Acquire(x) \/ CheckWindow(x) \/ Pause(x) \/ Send(x)
  BY <1>3, LoopInOrder, LimitsInOrder
<1>4. CASE NetError(x) \/ Wake(x) \/ \E kind \in Kinds : Respond(x, kind)
  BY <1>4, AgainInOrder, RespondInOrder
<1>5. CASE Result(x) \/ SubSteps(x) \/ Emit(x) \/ EvaluationFails(x) \/ Save(x) \/ Mark(x) \/ Report(x)
  BY <1>5, ResultInOrder, SubStepsInOrder, EmitInOrder, SaveInOrder, ReportInOrder
<1>6. CASE Begin(x)
  BY <1>6, StartInOrder
<1> QED BY <1>1, <1>2, <1>3, <1>4, <1>5, <1>6 DEF Step, Execute

\* What a step of one execution leaves alone.
Frame(x) ==
    /\ \E r : Goes(x, r)
    /\ UNCHANGED case /\ seen \subseteq seen'
    /\ UNCHANGED stored \/ Save(x)
    /\ UNCHANGED token \/ CacheToken(x)

LEMMA StepFrame ==
  ASSUME NEW x \in Executions, Step(x)
  PROVE  Frame(x)
<1>0. /\ \A res : Fails(x, res) => \E r : Goes(x, r)
      /\ \A pc : GoesTo(x, pc) => \E r : Goes(x, r)
      /\ \A s, d : Retry(x, s, d) => \E r : Goes(x, r)
      /\ \A t : Deny(x, t) => \E r : Goes(x, r)
  BY DEF Fails, GoesTo, Retry, Deny
<1>1. CASE Begin(x) \/ MarkStarted(x) \/ LoadPlan(x) \/ LoadContext(x) \/ Crash(x)
  BY <1>0, <1>1 DEF Frame, Begin, MarkStarted, LoadPlan, LoadContext, Crash, tables
<1>2. CASE GetCachedToken(x) \/ Issue(x) \/ Answer(x) \/ CacheToken(x)
  BY <1>0, <1>2 DEF Frame, GetCachedToken, Issue, Answer, CacheToken, tables
<1>3. CASE LoopHead(x) \/ Build(x) \/ Pause(x) \/ Send(x) \/ Wake(x)
  BY <1>0, <1>3 DEF Frame, LoopHead, Build, Pause, Send, Wake, tables
<1>4. CASE Acquire(x)
  BY <1>0, <1>4 DEF Frame, Acquire, tables
<1>5. CASE CheckWindow(x)
  BY <1>0, <1>5 DEF Frame, CheckWindow, tables
<1>6. CASE NetError(x)
  BY <1>0, <1>6 DEF Frame, NetError, tables
<1>7. ASSUME NEW kind, Respond(x, kind) PROVE Frame(x)
  BY <1>0, <1>7 DEF Frame, Respond, tables
<1>8. CASE Result(x) \/ SubSteps(x) \/ Save(x)
  BY <1>0, <1>8 DEF Frame, Result, SubSteps, Save, tables
<1>9. CASE Emit(x) \/ EvaluationFails(x) \/ Mark(x) \/ Report(x)
  BY <1>0, <1>9 DEF Frame, Emit, EvaluationFails, Mark, Report, tables
<1> QED BY <1>1, <1>2, <1>3, <1>4, <1>5, <1>6, <1>7, <1>8, <1>9 DEF Step, Execute

\* The other executions stay in order: their pages stay dealt with.
LEMMA OthersInOrder ==
  ASSUME RunsOK, TokensOK, PagesOK, NEW x \in Executions, Frame(x), NEW y \in Executions, y # x
  PROVE  InOrder(y)'
<1>1. InOrder(y) /\ run'[y] = run[y] /\ plan' = plan /\ seen \subseteq seen'
  BY AllInOrder, OneMoves DEF Frame, plan
<1>2. \A p : (Emitted(p) => Emitted(p)') /\ (EmittedBy(y, p) => EmittedBy(y, p)')
  BY <1>1 DEF Emitted, EmittedBy
<1>3. RunOK(run[y])' /\ TokenOK(run[y])'
  BY <1>1 DEF InOrder, RunOK, TokenOK, Limits
<1>4. Passed(y, run[y])'
  BY <1>1, <1>2 DEF InOrder, Passed
<1>5. Whole(y, run[y])'
  BY <1>1, <1>2 DEF InOrder, Whole
<1> QED BY <1>3, <1>4, <1>5 DEF InOrder

\* The runs, the tokens and the pages, without the slots.
PagesInv == RunsOK /\ TokensOK /\ PagesOK

LEMMA PagesInit == Init => PagesInv
<1> SUFFICES ASSUME Init PROVE PagesInv
  OBVIOUS
<1>1. /\ case \in DOMAIN Plans /\ stored = 0 /\ token = NoToken /\ DOMAIN run = Executions
      /\ \A x \in Executions : run[x] = Idle
  BY DEF Init
<1>2. Idle.pc = "idle" /\ Idle.cursor = 0 /\ Idle.start = 0 /\ Idle.result = ""
  BY DEF Idle
<1>3. RunOK(Idle)
  BY DEF Idle, RunOK
<1>4. TokenOK(Idle)
  BY DEF Idle, TokenOK
<1>5. 1..0 = {} /\ (0 + 1)..0 = {}
  OBVIOUS
<1>6. \A x \in Executions : Passed(x, Idle) /\ Whole(x, Idle)
  BY <1>2, <1>5 DEF Passed, Whole, InHand
<1>7. RunsOK
  BY <1>1, <1>3 DEF RunsOK
<1>8. token \in [left : Nat, alive : Nat, ttl : Int] /\ token.alive + HttpTimeout >= token.left
  BY <1>1, Times DEF NoToken
<1>9. TokensOK /\ PagesOK
  BY <1>1, <1>4, <1>5, <1>6, <1>8 DEF TokensOK, PagesOK
<1> QED BY <1>7, <1>9 DEF PagesInv

LEMMA PagesStep == PagesInv /\ [Next]_vars => PagesInv'
<1> SUFFICES ASSUME PagesInv, [Next]_vars PROVE PagesInv'
  OBVIOUS
<1>0. RunsOK /\ TokensOK /\ PagesOK
  BY DEF PagesInv
<1>1. ASSUME DOMAIN run' = Executions, UNCHANGED case, \A x \in Executions : InOrder(x)',
             stored' \in Nat, \A p \in 1..stored' : Emitted(p)',
             token' \in [left : Nat, alive : Nat, ttl : Int], token'.alive + HttpTimeout >= token'.left
      PROVE  PagesInv'
  BY <1>0, <1>1 DEF PagesInv, RunsOK, TokensOK, PagesOK, InOrder
<1>2. ASSUME NEW x \in Executions, Step(x) PROVE PagesInv'
  <2>1. Frame(x)
    BY <1>2, StepFrame
  <2>2. \A y \in Executions : InOrder(y)'
    BY <1>0, <1>2, <2>1, StepInOrder, OthersInOrder
  <2>3. DOMAIN run' = Executions /\ UNCHANGED case
    BY <1>0, <2>1, OneMoves DEF Frame
  <2>4. stored' \in Nat /\ \A p \in 1..stored' : Emitted(p)'
    <3>1. \A p : Emitted(p) => Emitted(p)'
      BY <2>1 DEF Frame, Emitted
    <3>2. CASE UNCHANGED stored
      BY <1>0, <3>1, <3>2 DEF RunsOK, PagesOK
    <3>3. CASE Save(x) /\ stored' = run[x].cursor
      <4>1. run[x].pc = "save" /\ InOrder(x)
        BY <1>0, <3>3, AllInOrder DEF Save, At
      <4>2. run[x].cursor \in Nat /\ \A p \in 1..run[x].cursor : Emitted(p)
        BY <4>1 DEF InOrder, RunOK, Passed, InHand
      <4> QED BY <3>1, <3>3, <4>2
    <3> QED BY <2>1, <3>2, <3>3 DEF Frame, Save
  <2>5. token' \in [left : Nat, alive : Nat, ttl : Int] /\ token'.alive + HttpTimeout >= token'.left
    <3>1. CASE UNCHANGED token
      BY <1>0, <3>1 DEF TokensOK
    <3> QED BY <1>0, <2>1, <3>1, CachedYoung DEF Frame
  <2> QED BY <1>1, <2>2, <2>3, <2>4, <2>5
<1>3. CASE Tick
  <2>1. DOMAIN run' = Executions /\ UNCHANGED <<case, stored, seen>>
    BY <1>3 DEF Tick, tables
  <2>2. \A x \in Executions : InOrder(x)'
    BY <1>0, <1>3, TickInOrder
  <2>3. stored' \in Nat /\ \A p \in 1..stored' : Emitted(p)'
    BY <1>0, <2>1 DEF RunsOK, PagesOK, Emitted
  <2>4. token' \in [left : Nat, alive : Nat, ttl : Int] /\ token'.alive + HttpTimeout >= token'.left
    BY <1>0, <1>3, CachedAges
  <2> QED BY <1>1, <2>1, <2>2, <2>3, <2>4
<1>4. CASE UNCHANGED vars
  BY <1>0, <1>4 DEF vars, tables, PagesInv, RunsOK, TokensOK, PagesOK, RunOK, TokenOK, Passed, Whole,
     InHand, Emitted, EmittedBy, Limits, plan
<1> QED BY <1>2, <1>3, <1>4 DEF Next, Step

LEMMA PagesAlways == Spec => []PagesInv
<1>1. Init => PagesInv
  BY PagesInit
<1>2. PagesInv /\ [Next]_vars => PagesInv'
  BY PagesStep
<1> QED BY <1>1, <1>2, PTL DEF Spec

\* A token that an execution is given, from the cache or from the auth flow, is alive at
\* the server that issued it: the skew covers what its answer may have taken.
THEOREM TokensAreAlive == Spec => []TokensAlive
<1>1. PagesInv => TokensAlive
  BY DEF PagesInv, TokensOK, TokenOK, TokensAlive
<1> QED BY <1>1, PagesAlways, PTL

\* Whichever of the overlapping executions saved the context, every page up to the stored
\* cursor was published, lost with a logged error, broken on, or passed over by a retry
\* whose response had already moved the cursor.
THEOREM SavedPagesAreEmitted == Spec => []SavedWasEmitted
<1>1. PagesInv => SavedWasEmitted
  BY DEF PagesInv, PagesOK, Emitted, SavedWasEmitted
<1> QED BY <1>1, PagesAlways, PTL

\* An execution that succeeds, and whose loop was not cut short, has met every page after
\* the one it started from, be it to retry it after its cursor was taken.
THEOREM SuccessIsWhole == Spec => []SuccessCoversPages
<1>1. PagesInv => SuccessCoversPages
  BY DEF PagesInv, PagesOK, Whole, EmittedBy, SuccessCoversPages
<1> QED BY <1>1, PagesAlways, PTL

-----------------------------------------------------------------------------
(* The concurrency slots *)

\* Where a slot may be needed from now on.
Asking(r) == r.pc \in {"acquire", "window", "send", "flight"}

\* Where the steps that ask for nothing take an execution.
LEMMA Lands ==
  ASSUME RunsOK, NEW x \in Executions
  PROVE  /\ \A res : Fails(x, res) => run'[x].pc = "mark"
         /\ \A pc : GoesTo(x, pc) => run'[x].pc = pc
         /\ \A pc : Goes(x, Between(x, pc)) => run'[x].pc = pc
         /\ \A s, d : DOMAIN s = DOMAIN Idle /\ Retry(x, s, d) => run'[x].pc = "sleep"
<1>1. DOMAIN run = Executions /\ DOMAIN run[x] = DOMAIN Idle /\ "pc" \in DOMAIN Idle
  BY Fields DEF RunsOK, RunOK
<1>2. ASSUME NEW res, Fails(x, res) PROVE run'[x].pc = "mark"
  BY <1>1, <1>2 DEF Fails, Goes
<1>3. ASSUME NEW pc, GoesTo(x, pc) PROVE run'[x].pc = pc
  BY <1>1, <1>3 DEF GoesTo, Goes
<1>4. ASSUME NEW pc, Goes(x, Between(x, pc)) PROVE run'[x].pc = pc
  BY <1>1, <1>4 DEF Between, Goes, Idle
<1>5. ASSUME NEW s, NEW d, DOMAIN s = DOMAIN Idle, Retry(x, s, d) PROVE run'[x].pc = "sleep"
  BY <1>1, <1>5 DEF Retry, Goes
<1> QED BY <1>2, <1>3, <1>4, <1>5

\* Which steps give slots back, and which leave them alone, once nothing is asked for.
LEMMA LetsGo ==
  ASSUME RunsOK, NEW x \in Executions, Step(x),
         ~Build(x), ~Acquire(x), ~CheckWindow(x), ~Pause(x), ~Send(x)
  PROVE  ~Asking(run[x])' /\ (UNCHANGED slots \/ slots' = Released(x))
<1>0. DOMAIN run = Executions /\ DOMAIN run[x] = DOMAIN Idle /\ "pc" \in DOMAIN Idle
  BY Fields DEF RunsOK, RunOK
<1>1. CASE Begin(x) \/ MarkStarted(x) \/ LoadPlan(x) \/ Crash(x) \/ Mark(x) \/ Report(x)
  <2>1. UNCHANGED slots
    BY <1>1 DEF Begin, MarkStarted, LoadPlan, Crash, Mark, Report, redis
  <2>2. Goes(x, [run[x] EXCEPT !.pc = "start", !.left = MaxRun]) => run'[x].pc = "start"
    BY <1>0 DEF Goes
  <2>3. run'[x].pc \in {"mark", "done", "load", "context", "report", "start"}
    BY <1>1, <2>2, Lands DEF Begin, MarkStarted, LoadPlan, Crash, Mark, Report
  <2> QED BY <2>1, <2>3 DEF Asking
<1>2. CASE LoadContext(x)
  <2>1. UNCHANGED slots
    BY <1>2 DEF LoadContext, redis
  <2>2. Goes(x, [run[x] EXCEPT !.pc = IF plan.life > 0 THEN "token" ELSE "loop",
                               !.cursor = stored, !.start = stored]) => run'[x].pc \in {"token", "loop"}
    BY <1>0 DEF Goes
  <2>3. run'[x].pc \in {"mark", "token", "loop"}
    BY <1>2, <2>2, Lands DEF LoadContext
  <2> QED BY <2>1, <2>3 DEF Asking
<1>3. CASE GetCachedToken(x) \/ Issue(x) \/ Answer(x) \/ CacheToken(x)
  <2>1. UNCHANGED slots
    BY <1>3 DEF GetCachedToken, Issue, Answer, CacheToken, redis
  <2>2. GetCachedToken(x) \/ Issue(x) \/ CacheToken(x) => run'[x].pc \in {"loop", "issue", "answer"}
    BY <1>0 DEF Goes, GetCachedToken, Issue, CacheToken
  <2>3. Answer(x) => run'[x].pc \in {"cache", "mark"}
    BY Lands DEF Answer
  <2> QED BY <1>3, <2>1, <2>2, <2>3 DEF Asking
<1>4. CASE LoopHead(x)
  <2>1. UNCHANGED slots
    BY <1>4 DEF LoopHead, redis
  <2>2. Goes(x, [Between(x, "build") EXCEPT !.loops = @ + 1, !.step = StepTimeout]) => run'[x].pc = "build"
    BY <1>0 DEF Goes, Between, Idle
  <2>3. run'[x].pc \in {"mark", "build"}
    BY <1>4, <2>2, Lands DEF LoopHead
  <2> QED BY <2>1, <2>3 DEF Asking
<1>5. CASE NetError(x)
  <2>1. run'[x].pc \in {"mark", "sleep"}
    BY <1>0, <1>5, Lands DEF NetError
  <2> QED BY <1>5, <2>1 DEF NetError, Release, Asking
<1>6. CASE Wake(x)
  <2>1. run'[x].pc = "build"
    BY <1>0, <1>6 DEF Wake, Goes
  <2> QED BY <1>6, <2>1 DEF Wake, redis, Asking
<1>7. ASSUME NEW kind, Respond(x, kind) PROVE ~Asking(run[x])' /\ (UNCHANGED slots \/ slots' = Released(x))
  <2> DEFINE s == [run[x] EXCEPT !.kind = kind.is,
                               !.cursor = IF HasCursor(kind) THEN Min({run[x].page, plan.pages}) ELSE 0,
                               !.more = HasCursor(kind) /\ run[x].page < plan.pages,
                               !.wait = 0, !.timer = 0]
             r == [s EXCEPT !.pc = "result", !.step = 0, !.try = 0, !.cut = @ \/ ~HasCursor(kind)]
  <2>1. Fails(x, "failed") \/ Retry(x, s, Delays(x, kind)) \/ Goes(x, r)
    BY <1>7 DEF Respond
  <2>2. DOMAIN s = DOMAIN Idle
    BY <1>0
  <2> HIDE DEF s
  <2>3. Goes(x, r) => run'[x].pc = "result"
    BY <1>0, <2>2 DEF Goes
  <2> HIDE DEF r
  <2>4. run'[x].pc \in {"mark", "sleep", "result"}
    BY <2>1, <2>2, <2>3, Lands
  <2> QED BY <1>7, <2>4 DEF Respond, Release, Asking
<1>8. CASE Result(x) \/ SubSteps(x)
  <2>1. UNCHANGED slots
    BY <1>8 DEF Result, SubSteps, redis
  <2>2. Goes(x, [Between(x, "save") EXCEPT !.cut = TRUE]) => run'[x].pc = "save"
    BY <1>0 DEF Goes, Between, Idle
  <2>3. Result(x) => run'[x].pc \in {"mark", "save", "emit", "subs"}
    BY <2>2, Lands DEF Result
  <2>4. ASSUME NEW more, Goes(x, [run[x] EXCEPT !.pc = "emit", !.more = more, !.cut = @ \/ more # run[x].more])
        PROVE  run'[x].pc = "emit"
    BY <1>0, <2>4 DEF Goes
  <2>5. ASSUME NEW error, NEW abort, Goes(x, [run[x] EXCEPT !.pc = "emit", !.error = error, !.abort = abort])
        PROVE  run'[x].pc = "emit"
    BY <1>0, <2>5 DEF Goes
  <2>6. SubSteps(x) => run'[x].pc \in {"mark", "emit", "hung"}
    BY <2>4, <2>5, Lands DEF SubSteps
  <2> QED BY <1>8, <2>1, <2>3, <2>6 DEF Asking
<1>9. CASE Emit(x) \/ EvaluationFails(x) \/ Save(x)
  <2>1. UNCHANGED slots
    BY <1>9 DEF Emit, EvaluationFails, Save, redis
  <2>2. run'[x].pc \in {"mark", "loop", "save"}
    BY <1>9, Lands DEF Emit, EvaluationFails, Save
  <2> QED BY <2>1, <2>2 DEF Asking
<1> QED BY <1>1, <1>2, <1>3, <1>4, <1>5, <1>6, <1>7, <1>8, <1>9 DEF Step, Execute

\* What is in a slot is an owner and the time it has left.
Slot == [owner : {""} \union Executions, left : Nat]

\* A slot that somebody holds has time left, more than its holder's request.
LEMMA HeldLasts ==
  ASSUME RunsOK, SlotsShape, NEW x \in Executions, NEW l \in Limits, NEW i \in DOMAIN slots[l],
         SlotOf(x, l, i), run[x].pc # "flight" \/ run[x].timer \in 0..HttpTimeout
  PROVE  slots[l][i].owner = x /\ slots[l][i].left \in Nat /\ slots[l][i].left > 0
         /\ Rest(run[x]) \in Nat /\ slots[l][i].left > Rest(run[x])
<1>1. slots[l][i].owner = x /\ slots[l][i].left \in Nat /\ slots[l][i].left + HttpTimeout >= SlotTTL + Rest(run[x])
  BY DEF SlotOf, SlotsShape
<1>2. Rest(run[x]) \in Nat
  BY Times DEF Rest
<1> QED BY <1>1, <1>2, Times

\* The slots of the others are left alone, and the execution that moves has those that it
\* has to have.
LEMMA HeldStep ==
  ASSUME RunsOK, SlotsShape, SlotsHeld, SlotsShape', NEW x \in Executions, Frame(x),
         \A l \in Limits : \A i \in DOMAIN slots[l] :
            slots[l][i].owner # x /\ slots[l][i].left > 0 => slots'[l][i] = slots[l][i],
         \A l \in Limits : Holding(run[x], l)' => \E i \in DOMAIN slots[l] : SlotOf(x, l, i)'
  PROVE  SlotsHeld'
<1>1. plan' = plan /\ Limits' = Limits
  BY DEF Frame, Limits, plan
<1>2. \A l \in Limits : DOMAIN slots'[l] = DOMAIN slots[l]
  BY <1>1 DEF SlotsShape
<1>3. \A y \in Executions : y # x => run'[y] = run[y]
  BY OneMoves DEF Frame
<1>4. ASSUME NEW y \in Executions, y # x, NEW l \in Limits, Holding(run[y], l)'
      PROVE  \E i \in DOMAIN slots[l] : SlotOf(y, l, i)'
  <2>1. Holding(run[y], l)
    BY <1>1, <1>3, <1>4 DEF Holding
  <2>2. PICK i \in DOMAIN slots[l] : SlotOf(y, l, i)
    BY <2>1 DEF SlotsHeld
  <2>3. run[y].pc # "flight" \/ run[y].timer \in 0..HttpTimeout
    BY DEF RunsOK, RunOK
  <2>4. slots[l][i].owner = y /\ slots[l][i].left > 0
    BY <2>2, <2>3, HeldLasts
  <2>5. slots'[l][i] = slots[l][i]
    BY <1>4, <2>4
  <2>6. SlotOf(y, l, i)'
    BY <1>3, <1>4, <2>2, <2>5 DEF SlotOf
  <2> QED BY <2>6
<1>5. \A y \in Executions : \A l \in Limits : Holding(run[y], l)' => \E i \in DOMAIN slots[l] : SlotOf(y, l, i)'
  BY <1>4
<1> QED BY <1>1, <1>2, <1>5 DEF SlotsHeld

\* The slots stay as they are.
LEMMA SlotsStay ==
  ASSUME RunsOK, SlotsShape, SlotsHeld, NEW x \in Executions, Frame(x), UNCHANGED slots,
         \A l \in Limits : Holding(run[x], l)' => Holding(run[x], l) /\ Rest(run[x])' = Rest(run[x])
  PROVE  SlotsShape' /\ SlotsHeld'
<1>1. plan' = plan /\ Limits' = Limits
  BY DEF Frame, Limits, plan
<1>2. SlotsShape'
  BY <1>1 DEF SlotsShape
<1>3. ASSUME NEW l \in Limits, Holding(run[x], l)' PROVE \E i \in DOMAIN slots[l] : SlotOf(x, l, i)'
  <2>1. PICK i \in DOMAIN slots[l] : SlotOf(x, l, i)
    BY <1>3 DEF SlotsHeld
  <2>2. SlotOf(x, l, i)'
    BY <1>3, <2>1 DEF SlotOf
  <2> QED BY <2>2
<1> QED BY <1>2, <1>3, HeldStep

\* The execution's own slots are given back.
LEMMA SlotsBack ==
  ASSUME RunsOK, SlotsShape, SlotsHeld, NEW x \in Executions, Frame(x), slots' = Released(x),
         ~Asking(run[x])'
  PROVE  SlotsShape' /\ SlotsHeld'
<1>1. plan' = plan /\ Limits' = Limits
  BY DEF Frame, Limits, plan
<1>2. DOMAIN slots' = Limits /\ \A l \in Limits : DOMAIN slots'[l] = DOMAIN slots[l]
  BY DEF Released
<1>3. \A l \in Limits : \A i \in DOMAIN slots[l] :
         slots'[l][i] = IF slots[l][i].owner = x THEN Free ELSE slots[l][i]
  BY DEF Released
<1>4. Free \in Slot
  BY DEF Free, Slot
<1>5. \A l \in Limits : \A i \in DOMAIN slots[l] : slots'[l][i] \in Slot
  BY <1>3, <1>4 DEF SlotsShape, Slot
<1>6. SlotsShape'
  BY <1>1, <1>2, <1>5 DEF SlotsShape, Slot
<1>7. \A l \in Limits : ~Holding(run[x], l)'
  BY DEF Asking, Holding
<1> QED BY <1>3, <1>6, <1>7, HeldStep

\* One slot is set.
LEMMA OneSlotSet ==
  ASSUME SlotsShape, NEW l \in Limits, NEW j \in DOMAIN slots[l], NEW s, slots' = [slots EXCEPT ![l][j] = s]
  PROVE  /\ DOMAIN slots' = Limits /\ \A m \in Limits : DOMAIN slots'[m] = DOMAIN slots[m]
         /\ slots'[l][j] = s
         /\ \A m \in Limits : \A i \in DOMAIN slots[m] : m # l \/ i # j => slots'[m][i] = slots[m][i]
<1>1. DOMAIN slots = Limits
  BY DEF SlotsShape
<1>2. DOMAIN slots' = Limits
  BY <1>1
<1>3. slots'[l] = [slots[l] EXCEPT ![j] = s] /\ \A m \in Limits : m # l => slots'[m] = slots[m]
  BY <1>1
<1>4. DOMAIN slots'[l] = DOMAIN slots[l] /\ slots'[l][j] = s
      /\ \A i \in DOMAIN slots[l] : i # j => slots'[l][i] = slots[l][i]
  BY <1>3
<1>5. \A m \in Limits : DOMAIN slots'[m] = DOMAIN slots[m]
  BY <1>3, <1>4
<1>6. \A m \in Limits : \A i \in DOMAIN slots[m] : m # l \/ i # j => slots'[m][i] = slots[m][i]
  BY <1>3, <1>4
<1> QED BY <1>2, <1>4, <1>5, <1>6

\* A slot with nothing left is taken.
LEMMA SlotTaken ==
  ASSUME RunsOK, SlotsShape, SlotsHeld, NEW x \in Executions, Frame(x), NEW l \in Limits,
         run[x].pc = "acquire", run[x].limit = l, GoesTo(x, "window"),
         NEW j \in DOMAIN slots[l], slots[l][j].left = 0,
         NEW s \in Slot, s.owner = x, s.left = SlotTTL,
         DOMAIN slots' = Limits, \A m \in Limits : DOMAIN slots'[m] = DOMAIN slots[m],
         slots'[l][j] = s,
         \A m \in Limits : \A i \in DOMAIN slots[m] : m # l \/ i # j => slots'[m][i] = slots[m][i]
  PROVE  SlotsShape' /\ SlotsHeld'
<1>1. plan' = plan /\ Limits' = Limits
  BY DEF Frame, Limits, plan
<1>2. \A m \in Limits : \A i \in DOMAIN slots[m] : slots'[m][i] \in Slot
  <2> SUFFICES ASSUME NEW m \in Limits, NEW i \in DOMAIN slots[m] PROVE slots'[m][i] \in Slot
    OBVIOUS
  <2>1. CASE m = l /\ i = j
    BY <2>1
  <2>2. CASE m # l \/ i # j
    BY <2>2 DEF SlotsShape, Slot
  <2> QED BY <2>1, <2>2
<1>3. SlotsShape'
  BY <1>1, <1>2 DEF SlotsShape, Slot
<1>4. \A m \in Limits : \A i \in DOMAIN slots[m] :
        slots[m][i].owner # x /\ slots[m][i].left > 0 => slots'[m][i] = slots[m][i]
  OBVIOUS
<1>5. /\ run'[x].pc = "window" /\ run'[x].limit = l
       /\ Rest(run[x]) = HttpTimeout /\ Rest(run[x])' = HttpTimeout
  <2>1. DOMAIN run[x] = DOMAIN Idle /\ DOMAIN run = Executions
    BY DEF RunsOK, RunOK
  <2>2. run'[x].pc = "window" /\ run'[x].limit = l
    BY <2>1, Fields DEF GoesTo, Goes
  <2> QED BY <2>2 DEF Rest
<1>6. ASSUME NEW m \in Limits, Holding(run[x], m)' PROVE \E i \in DOMAIN slots[m] : SlotOf(x, m, i)'
  <2>1. CASE m = l
    <3>1. SlotOf(x, l, j)'
      BY <1>5, Times DEF SlotOf
    <3> QED BY <2>1, <3>1
  <2>2. CASE m # l
    <3>1. m < l /\ plan.limits[m].concurrent > 0
      <4>1. l \in Nat /\ m \in Nat
        BY ThePlan
      <4>2. m <= l /\ plan.limits[m].concurrent > 0
        BY <1>1, <1>5, <1>6 DEF Holding
      <4> QED BY <2>2, <4>1, <4>2
    <3>2. Holding(run[x], m)
      BY <3>1 DEF Holding
    <3>3. PICK i \in DOMAIN slots[m] : SlotOf(x, m, i)
      BY <3>2 DEF SlotsHeld
    <3>4. SlotOf(x, m, i)'
      BY <1>5, <2>2, <3>3 DEF SlotOf
    <3> QED BY <3>4
  <2> QED BY <2>1, <2>2
<1> QED BY <1>3, <1>4, <1>6, HeldStep

LEMMA NothingAsked ==
  ASSUME RunsOK, SlotsShape, SlotsHeld, NEW x \in Executions, Frame(x), ~Asking(run[x])',
         UNCHANGED slots \/ slots' = Released(x)
  PROVE  SlotsShape' /\ SlotsHeld'
<1>1. \A l \in Limits : ~Holding(run[x], l)'
  BY DEF Asking, Holding
<1> QED BY <1>1, SlotsStay, SlotsBack

LEMMA DenyLetsGo ==
  ASSUME RunsOK, SlotsShape, SlotsHeld, NEW x \in Executions, Frame(x), NEW t, Deny(x, t)
  PROVE  SlotsShape' /\ SlotsHeld'
<1>1. DOMAIN run = Executions /\ DOMAIN run[x] = DOMAIN Idle /\ "pc" \in DOMAIN Idle
  BY Fields DEF RunsOK, RunOK
<1>2. Goes(x, [run[x] EXCEPT !.pc = "pause", !.timer = t]) => run'[x].pc = "pause"
  BY <1>1 DEF Goes
<1>3. run'[x].pc \in {"mark", "pause"}
  BY <1>2, Lands DEF Deny
<1> QED BY <1>3, NothingAsked DEF Asking, Deny

LEMMA FailsLetsGo ==
  ASSUME RunsOK, SlotsShape, SlotsHeld, NEW x \in Executions, Frame(x), NEW res, Fails(x, res), UNCHANGED slots
  PROVE  SlotsShape' /\ SlotsHeld'
<1>1. run'[x].pc = "mark"
  BY Lands
<1> QED BY <1>1, NothingAsked DEF Asking

\* The first limit is asked first, and without limits there are no slots.
LEMMA AsksFirst ==
  ASSUME RunsOK, SlotsShape, SlotsHeld, NEW x \in Executions, Frame(x), Build(x) \/ Pause(x)
  PROVE  SlotsShape' /\ SlotsHeld'
<1>0. UNCHANGED slots /\ DOMAIN run = Executions /\ DOMAIN run[x] = DOMAIN Idle
  BY DEF Build, Pause, redis, RunsOK, RunOK
<1>1. CASE Fails(x, "failed")
  BY <1>0, <1>1, FailsLetsGo
<1>2. CASE ~Fails(x, "failed")
  <2>1. (run'[x].pc = "acquire" /\ run'[x].limit = 1) \/ (run'[x].pc = "send" /\ plan.limits = <<>>)
    BY <1>0, <1>2, Fields DEF Build, Pause, Goes
  <2>2. \A l \in Limits : ~Holding(run[x], l)'
    <3>1. CASE run'[x].pc = "acquire" /\ run'[x].limit = 1
      <4>1. \A l \in Limits : ~(l < 1)
        BY ThePlan
      <4> QED BY <3>1, <4>1 DEF Holding
    <3>2. CASE plan.limits = <<>>
      BY <3>2 DEF Limits
    <3> QED BY <2>1, <3>1, <3>2
  <2> QED BY <1>0, <2>2, SlotsStay
<1> QED BY <1>1, <1>2

LEMMA AcquireHolds ==
  ASSUME RunsOK, SlotsShape, SlotsHeld, NEW x \in Executions, Frame(x), Acquire(x)
  PROVE  SlotsShape' /\ SlotsHeld'
<1> DEFINE l == run[x].limit
<1>0. /\ run[x].pc = "acquire" /\ l \in Limits /\ DOMAIN run = Executions /\ DOMAIN run[x] = DOMAIN Idle
      /\ plan' = plan
  BY DEF Acquire, At, RunsOK, RunOK, Frame, plan
<1>1. CASE UNCHANGED slots /\ Fails(x, "failed")
  BY <1>1, FailsLetsGo
<1>2. CASE Deny(x, 1)
  BY <1>2, DenyLetsGo
<1>3. CASE DOMAIN slots[l] = {} /\ GoesTo(x, "window") /\ UNCHANGED slots
  <2>1. run'[x].pc = "window" /\ run'[x].limit = l
    BY <1>0, <1>3, Fields DEF GoesTo, Goes
  <2>2. ~(plan.limits[l].concurrent > 0)
    <3>1. 1..plan.limits[l].concurrent = {} /\ plan.limits[l].concurrent \in Nat
      BY <1>0, <1>3, ThePlan DEF SlotsShape
    <3> QED BY <3>1
  <2>3. \A m \in Limits : m \in Nat
    BY ThePlan
  <2>4. \A m \in Limits : m <= l => m < l \/ m = l
    BY <1>0, <2>3
  <2>5. \A m \in Limits : Holding(run[x], m)' => Holding(run[x], m)
    BY <1>0, <2>1, <2>2, <2>4 DEF Holding
  <2>6. Rest(run[x])' = Rest(run[x])
    BY <1>0, <2>1 DEF Rest
  <2> QED BY <1>3, <2>5, <2>6, SlotsStay
<1>4. CASE /\ FreeSlots(l) # {} /\ GoesTo(x, "window")
           /\ slots' = [slots EXCEPT ![l][Min(FreeSlots(l))] = [owner |-> x, left |-> SlotTTL]]
  <2> DEFINE j == Min(FreeSlots(l))
             s == [owner |-> x, left |-> SlotTTL]
  <2>1. j \in FreeSlots(l)
    <3>1. DOMAIN slots[l] = 1..plan.limits[l].concurrent
      BY <1>0 DEF SlotsShape
    <3>2. DOMAIN slots[l] \subseteq Nat
      BY <3>1
    <3>3. FreeSlots(l) \subseteq Nat
      BY <3>2 DEF FreeSlots
    <3> QED BY <1>4, <3>3, MinOfMany
  <2>2. j \in DOMAIN slots[l] /\ slots[l][j].left = 0
    BY <2>1 DEF FreeSlots
  <2>3. s \in Slot /\ s.owner = x /\ s.left = SlotTTL
    BY Times DEF Slot
  <2>4. slots' = [slots EXCEPT ![l][j] = s]
    BY <1>4
  <2> HIDE DEF j, s
  <2>5. /\ DOMAIN slots' = Limits /\ \A m \in Limits : DOMAIN slots'[m] = DOMAIN slots[m]
        /\ slots'[l][j] = s
        /\ \A m \in Limits : \A i \in DOMAIN slots[m] : m # l \/ i # j => slots'[m][i] = slots[m][i]
    BY <1>0, <2>2, <2>4, OneSlotSet
  <2> QED BY <1>0, <1>4, <2>2, <2>3, <2>5, SlotTaken
<1> QED BY <1>1, <1>2, <1>3, <1>4 DEF Acquire

\* The slots of the limits that are behind are kept.
LEMMA WindowHolds ==
  ASSUME RunsOK, SlotsShape, SlotsHeld, NEW x \in Executions, Frame(x), CheckWindow(x) \/ Send(x)
  PROVE  SlotsShape' /\ SlotsHeld'
<1>0. DOMAIN run = Executions /\ DOMAIN run[x] = DOMAIN Idle /\ plan' = plan
  BY DEF RunsOK, RunOK, Frame, plan
<1>1. ASSUME NEW t, Deny(x, t) PROVE SlotsShape' /\ SlotsHeld'
  BY <1>1, DenyLetsGo
<1>2. CASE Send(x)
  <2>1. run[x].pc = "send" /\ run'[x].pc = "flight" /\ run'[x].timer = HttpTimeout /\ UNCHANGED slots
    BY <1>0, <1>2, Fields DEF Send, At, Goes, redis
  <2>2. \A l \in Limits : Holding(run[x], l)' => Holding(run[x], l)
    BY <1>0, <2>1 DEF Holding
  <2>3. Rest(run[x])' = Rest(run[x])
    BY <2>1 DEF Rest
  <2> QED BY <2>1, <2>2, <2>3, SlotsStay
<1>3. ASSUME NEW r, Goes(x, r), CheckWindow(x), UNCHANGED slots,
             r = IF run[x].limit < Len(plan.limits) THEN [run[x] EXCEPT !.pc = "acquire", !.limit = @ + 1]
                 ELSE [run[x] EXCEPT !.pc = "send"]
      PROVE  SlotsShape' /\ SlotsHeld'
  <2>1. run[x].pc = "window" /\ run[x].limit \in Limits
    BY <1>3 DEF CheckWindow, At, RunsOK, RunOK
  <2>2. run'[x] = r
    BY <1>3, OneMoves
  <2>3. \/ r.pc = "acquire" /\ r.limit = run[x].limit + 1
        \/ r.pc = "send" /\ ~(run[x].limit < Len(plan.limits))
    BY <1>0, <1>3, Fields
  <2>4. \A l \in Limits : /\ l < run[x].limit + 1 => l <= run[x].limit
                          /\ ~(run[x].limit < Len(plan.limits)) => l <= run[x].limit
    BY <2>1, ThePlan
  <2>5. \A l \in Limits : Holding(run[x], l)' => Holding(run[x], l)
    BY <1>0, <2>1, <2>2, <2>3, <2>4 DEF Holding
  <2>6. Rest(run[x])' = Rest(run[x])
    BY <2>1, <2>2, <2>3 DEF Rest
  <2> QED BY <1>3, <2>5, <2>6, SlotsStay
<1>4. CASE CheckWindow(x)
  BY <1>1, <1>3, <1>4 DEF CheckWindow
<1> QED BY <1>2, <1>4

\* Time takes as much from a slot as from the request that it is for, and it passes for
\* nobody who holds a slot and has not sent.
LEMMA SlotsAge ==
  ASSUME RunsOK, SlotsShape, SlotsHeld, Tick
  PROVE  SlotsShape' /\ SlotsHeld'
<1>1. plan' = plan /\ Limits' = Limits
  BY DEF Tick, Limits, plan
<1>2. DOMAIN slots' = Limits /\ \A l \in Limits : DOMAIN slots'[l] = DOMAIN slots[l]
  BY DEF Tick
<1>3. \A l \in Limits : \A i \in DOMAIN slots[l] : slots'[l][i] = SlotAged(slots[l][i])
  BY DEF Tick
<1>4. \A s \in Slot : /\ SlotAged(s) \in Slot
                      /\ s.left > 1 => SlotAged(s).owner = s.owner /\ SlotAged(s).left = s.left - 1
  <2> SUFFICES ASSUME NEW s \in Slot
               PROVE  /\ SlotAged(s) \in Slot
                      /\ s.left > 1 => SlotAged(s).owner = s.owner /\ SlotAged(s).left = s.left - 1
    OBVIOUS
  <2>0. s.left \in Nat
    BY DEF Slot
  <2>1. DOMAIN s = {"owner", "left"}
    BY DEF Slot
  <2>2. CASE s.left <= 1
    <3>1. SlotAged(s) = Free /\ Free \in Slot
      BY <2>2 DEF SlotAged, Free, Slot
    <3>2. ~(s.left > 1)
      BY <2>0, <2>2
    <3> QED BY <3>1, <3>2, Zenon
  <2>3. CASE ~(s.left <= 1)
    <3>1. SlotAged(s) = [s EXCEPT !.left = s.left - 1]
      BY <2>3 DEF SlotAged
    <3>2. s.left - 1 \in Nat
      BY <2>0, <2>3
    <3>3. SlotAged(s).owner = s.owner /\ SlotAged(s).left = s.left - 1
      BY <2>1, <3>1
    <3>4. SlotAged(s) \in Slot
      BY <3>1, <3>2 DEF Slot
    <3> QED BY <3>3, <3>4
  <2> QED BY <2>2, <2>3
<1>5. \A l \in Limits : \A i \in DOMAIN slots[l] : slots[l][i] \in Slot
  BY DEF SlotsShape, Slot
<1>6. SlotsShape'
  <2>1. \A l \in Limits : \A i \in DOMAIN slots[l] : slots'[l][i] \in Slot
    BY <1>3, <1>4, <1>5
  <2> QED BY <1>1, <1>2, <2>1 DEF SlotsShape, Slot
<1>7. ASSUME NEW x \in Executions, NEW l \in Limits, Holding(run[x], l)'
      PROVE  \E i \in DOMAIN slots[l] : SlotOf(x, l, i)'
  <2>1. run'[x] = RunAged(run[x]) /\ Waits(x) /\ DOMAIN run[x] = DOMAIN Idle
    BY DEF Tick, RunsOK, RunOK
  <2>2. run'[x].pc = run[x].pc
    BY <2>1, Fields DEF RunAged
  <2>3. run[x].pc = "flight" /\ run[x].timer > 0 /\ run[x].timer \in 0..HttpTimeout
    <3>1. Asking(run[x])
      BY <1>7, <2>2 DEF Holding, Asking
    <3> QED BY <2>1, <3>1 DEF Asking, Waits, RunsOK, RunOK
  <2>4. run'[x].timer = run[x].timer - 1
    <3>1. run'[x].timer = Dec(run[x].timer)
      BY <2>1, <2>3, Fields DEF RunAged
    <3> QED BY <2>3, <3>1 DEF Dec
  <2>5. Holding(run[x], l)
    BY <1>1, <1>7, <2>3 DEF Holding
  <2>6. PICK i \in DOMAIN slots[l] : SlotOf(x, l, i)
    BY <2>5 DEF SlotsHeld
  <2>7. /\ slots[l][i].owner = x /\ slots[l][i].left \in Nat /\ slots[l][i].left > run[x].timer
        /\ slots[l][i].left + HttpTimeout >= SlotTTL + run[x].timer
    BY <2>3, <2>6, HeldLasts DEF SlotOf, Rest
  <2>8. slots[l][i].left > 1
    BY <2>3, <2>7, Times
  <2>9. slots'[l][i].owner = x /\ slots'[l][i].left = slots[l][i].left - 1
    BY <1>3, <1>4, <1>5, <2>7, <2>8
  <2>10. slots'[l][i].left + HttpTimeout >= SlotTTL + run'[x].timer
    BY <2>3, <2>4, <2>7, <2>9, Times
  <2>11. SlotOf(x, l, i)'
    BY <2>2, <2>3, <2>9, <2>10 DEF SlotOf, Rest
  <2> QED BY <2>11
<1>8. \A x \in Executions : \A l \in Limits : Holding(run[x], l)' => \E i \in DOMAIN slots[l] : SlotOf(x, l, i)'
  BY <1>7
<1> QED BY <1>1, <1>2, <1>6, <1>8 DEF SlotsHeld

LEMMA SlotsInit == Init => SlotsShape /\ SlotsHeld
<1> SUFFICES ASSUME Init PROVE SlotsShape /\ SlotsHeld
  OBVIOUS
<1>1. /\ DOMAIN slots = Limits /\ \A l \in Limits : DOMAIN slots[l] = 1..plan.limits[l].concurrent
      /\ \A l \in Limits : \A i \in 1..plan.limits[l].concurrent : slots[l][i] = Free
  BY DEF Init
<1>2. Free \in [owner : {""} \union Executions, left : Nat]
  BY DEF Free
<1>3. SlotsShape
  BY <1>1, <1>2 DEF SlotsShape
<1>4. \A x \in Executions : run[x].pc = "idle"
  BY DEF Init, Idle
<1> QED BY <1>3, <1>4 DEF SlotsHeld, Holding

LEMMA SlotsStep == PInv /\ [Next]_vars => SlotsShape' /\ SlotsHeld'
<1> SUFFICES ASSUME PInv, [Next]_vars PROVE SlotsShape' /\ SlotsHeld'
  OBVIOUS
<1>0. RunsOK /\ SlotsShape /\ SlotsHeld
  BY DEF PInv
<1>1. ASSUME NEW x \in Executions, Step(x) PROVE SlotsShape' /\ SlotsHeld'
  <2>1. Frame(x)
    BY <1>1, StepFrame
  <2>2. CASE Build(x) \/ Pause(x)
    BY <1>0, <2>1, <2>2, AsksFirst
  <2>3. CASE Acquire(x)
    BY <1>0, <2>1, <2>3, AcquireHolds
  <2>4. CASE CheckWindow(x) \/ Send(x)
    BY <1>0, <2>1, <2>4, WindowHolds
  <2>5. CASE ~Build(x) /\ ~Acquire(x) /\ ~CheckWindow(x) /\ ~Pause(x) /\ ~Send(x)
    BY <1>0, <1>1, <2>1, <2>5, LetsGo, NothingAsked
  <2> QED BY <2>2, <2>3, <2>4, <2>5
<1>2. CASE Tick
  BY <1>0, <1>2, SlotsAge
<1>3. CASE UNCHANGED vars
  BY <1>0, <1>3 DEF vars, redis, SlotsShape, SlotsHeld, Holding, SlotOf, Rest, Limits, plan
<1> QED BY <1>1, <1>2, <1>3 DEF Next, Step

LEMMA PInvAlways == Spec => []PInv
<1>1. Init => PInv
  BY PagesInit, SlotsInit DEF PInv, PagesInv
<1>2. PInv /\ [Next]_vars => PInv'
  BY PagesStep, SlotsStep DEF PInv, PagesInv
<1> QED BY <1>1, <1>2, PTL DEF Spec

LEMMA UpTo ==
  ASSUME NEW n \in Nat
  PROVE  IsFiniteSet(1..n) /\ Cardinality(1..n) = n
<1>1. 1 \in Int /\ n \in Int
  OBVIOUS
<1>2. IsFiniteSet(1..n) /\ Cardinality(1..n) = IF 1 > n THEN 0 ELSE n - 1 + 1
  BY <1>1, FS_Interval, Zenon
<1> QED BY <1>2

\* The slots in Redis bound the requests in flight, through crashes, failed releases and
\* slots that expire: a slot outlives the request that it was taken for.
THEOREM RequestsAreBounded == Spec => []InFlightBounded
<1>1. PInv => InFlightBounded
  <2> SUFFICES ASSUME PInv, NEW l \in Limits, plan.limits[l].concurrent > 0
               PROVE  Cardinality({x \in Executions : At(x, "flight")}) <= plan.limits[l].concurrent
    BY DEF InFlightBounded
  <2> DEFINE S == {x \in Executions : At(x, "flight")}
             n == plan.limits[l].concurrent
             T == 1..n
             f == [x \in S |-> CHOOSE i \in T : slots[l][i].owner = x]
  <2>1. n \in Nat /\ DOMAIN slots[l] = T
    BY ThePlan DEF PInv, SlotsShape
  <2>2. IsFiniteSet(T) /\ Cardinality(T) = n
    BY <2>1, UpTo
  <2>3. \A x \in S : \E i \in T : slots[l][i].owner = x
    <3> SUFFICES ASSUME NEW x \in S PROVE \E i \in T : slots[l][i].owner = x
      OBVIOUS
    <3>1. x \in Executions /\ Holding(run[x], l)
      BY DEF Holding, At
    <3> QED BY <2>1, <3>1 DEF PInv, SlotsHeld, SlotOf
  <2> HIDE DEF S, T, n
  <2>4. \A x \in S : f[x] \in T /\ slots[l][f[x]].owner = x
    BY <2>3
  <2>5. f \in [S -> T] /\ \A x, y \in S : f[x] = f[y] => x = y
    BY <2>4
  <2> HIDE DEF f
  <2>6. f \in Injection(S, T)
    BY <2>5 DEF Injection, IsInjective
  <2>7. Cardinality(S) <= Cardinality(T)
    BY <2>2, <2>6, FS_Injection
  <2> QED BY <2>2, <2>7 DEF S, n
<1> QED BY <1>1, PInvAlways, PTL

-----------------------------------------------------------------------------
(* Types: the inductive invariant *)

Final == {"success", "failed", "aborted"}

\* What an execution counts: its time, attempts, loops and pages; it ends with a result.
Counted(r) ==
    /\ r.left \in 0..MaxRun /\ r.timer \in Nat
    /\ r.try \in 0..MaxRetries /\ r.loops \in 0..MaxLoops
    /\ r.cursor \in 0..plan.pages
    /\ r.pc = "sleep" => r.try < MaxRetries
    /\ r.pc = "mark" => r.result \in Final
    /\ r.pc \in {"answer", "cache"} => r.token <= plan.life

RunsCounted == stored \in 0..plan.pages /\ \A x \in Executions : Counted(run[x])

\* A final status is that of an execution which has come to its end.
Recorded(x) ==
    /\ status[x] \in {"none", "pending", "running"} \cup Final
    /\ status[x] \in Final => run[x].pc \in {"report", "done"} /\ status[x] = run[x].result
AllRecorded == DOMAIN status = Executions /\ \A x \in Executions : Recorded(x)

\* Only an execution that reports is counted, and it is done after that.
Finished == {x \in Executions : run[x].pc = "done"}
StatsOK ==
    /\ stats \in [success : Nat, failure : Nat]
    /\ stats.success + stats.failure <= Cardinality(Finished)

\* The entries of a bucket are ordered by the time they have left.
BucketOK(w, limit) ==
    /\ w \in Seq(Nat) /\ Len(w) <= limit.requests
    /\ \A i \in DOMAIN w : w[i] <= limit.window
    /\ \A i, j \in DOMAIN w : i <= j => w[i] <= w[j]
BucketsOK ==
    /\ DOMAIN window = Limits /\ DOMAIN block = Limits
    /\ \A l \in Limits : BucketOK(window[l], plan.limits[l]) /\ block[l] \in Nat

SlotsTimed == \A l \in Limits : \A i \in DOMAIN slots[l] : slots[l][i].left <= SlotTTL

PlanTyped ==
    /\ RunsCounted /\ AllRecorded /\ StatsOK /\ BucketsOK /\ SlotsTimed
    /\ token.alive <= token.left /\ faults \in 0..MaxFaults

-----------------------------------------------------------------------------
(* Types: the backoff *)

\* The numbers that CalculateBackoff counts on with, up to a bound.
Counts(f, n) == f = [k \in 0..n |-> IF k <= 2 THEN 1 ELSE f[k - 1] + f[k - 2]]

LEMMA CountsOn ==
  ASSUME NEW n \in Nat, NEW f, Counts(f, n)
  PROVE  \E g : Counts(g, n + 1)
<1> PICK g : g = [k \in 0..(n + 1) |-> IF k <= n THEN f[k] ELSE IF n + 1 <= 2 THEN 1 ELSE f[n] + f[n - 1]]
  OBVIOUS
<1>1. \A k \in 0..n : f[k] = IF k <= 2 THEN 1 ELSE f[k - 1] + f[k - 2]
  BY DEF Counts
<1>2. \A k \in 0..n : g[k] = f[k]
  OBVIOUS
<1>3. ASSUME NEW k \in 0..(n + 1) PROVE g[k] = IF k <= 2 THEN 1 ELSE g[k - 1] + g[k - 2]
  <2>1. CASE k <= 2 /\ k <= n
    BY <1>1, <1>2, <2>1
  <2>2. CASE k > 2 /\ k <= n
    <3>1. k \in 0..n /\ k - 1 \in 0..n /\ k - 2 \in 0..n
      BY <2>2
    <3>2. f[k] = f[k - 1] + f[k - 2]
      BY <1>1, <2>2, <3>1
    <3> QED BY <1>2, <2>2, <3>1, <3>2
  <2>3. CASE k = n + 1
    <3>1. g[k] = IF n + 1 <= 2 THEN 1 ELSE f[n] + f[n - 1]
      BY <2>3
    <3>2. k > 2 => g[n] = f[n] /\ g[n - 1] = f[n - 1]
      BY <1>2, <2>3
    <3>3. k - 1 = n /\ k - 2 = n - 1
      BY <2>3
    <3> QED BY <2>3, <3>1, <3>2, <3>3
  <2> QED BY <2>1, <2>2, <2>3
<1>4. g = [k \in 0..(n + 1) |-> g[k]]
  OBVIOUS
<1>5. Counts(g, n + 1)
  BY <1>3, <1>4 DEF Counts
<1> QED BY <1>5

LEMMA SomeCount ==
  ASSUME NEW a \in Nat
  PROVE  \E f : Counts(f, a)
<1> DEFINE S == {n \in Nat : ~\E f : Counts(f, n)}
<1>1. Counts([k \in 0..0 |-> 1], 0)
  BY DEF Counts
<1>2. S = {}
  <2> SUFFICES ASSUME S # {} PROVE FALSE
    OBVIOUS
  <2>1. PICK m \in S : \A k \in S : m <= k
    BY LeastOne
  <2>2. m \in Nat /\ m # 0
    BY <1>1
  <2>3. m - 1 \in Nat /\ (m - 1) + 1 = m /\ m - 1 \notin S
    BY <2>1, <2>2
  <2>4. \E f : Counts(f, m - 1)
    BY <2>3
  <2>5. \E f : Counts(f, (m - 1) + 1)
    BY <2>3, <2>4, CountsOn
  <2> QED BY <2>3, <2>5
<1> QED BY <1>2

LEMMA FibonacciCounts ==
  ASSUME NEW a \in Nat
  PROVE  Fibonacci(a) \in Nat
<1> PICK F : F = CHOOSE f : Counts(f, a)
  OBVIOUS
<1>1. Counts(F, a)
  BY SomeCount
<1>2. Fibonacci(a) = F[a]
  BY DEF Fibonacci, Counts
<1>3. \A k \in 0..a : F[k] = IF k <= 2 THEN 1 ELSE F[k - 1] + F[k - 2]
  BY <1>1 DEF Counts
<1> DEFINE T == {k \in 0..a : F[k] \notin Nat}
<1>4. T = {}
  <2> SUFFICES ASSUME T # {} PROVE FALSE
    OBVIOUS
  <2>0. T \subseteq Nat
    OBVIOUS
  <2>1. PICK m \in T : \A k \in T : m <= k
    BY <2>0, LeastOne
  <2>2. \A y \in 0..a : y < m => F[y] \in Nat
    BY <2>1
  <2>3. m > 2 => F[m - 1] \in Nat /\ F[m - 2] \in Nat
    BY <2>2
  <2> QED BY <1>3, <2>3
<1> QED BY <1>2, <1>4

LEMMA Bounds ==
  /\ MaxRetries \in Nat /\ MaxLoops \in Nat /\ MaxRun \in Nat /\ StepTimeout \in Nat /\ HttpTimeout \in Nat
  /\ MaxWait \in Nat /\ MaxDelay \in Nat /\ SlotTTL \in Nat /\ BlockTime \in Nat /\ Skew \in Nat /\ MaxFaults \in Nat
  BY TimesAssumption

LEMMA BackoffIsTime ==
  ASSUME NEW a \in Nat
  PROVE  CalculateBackoff(a) \in Nat
  BY FibonacciCounts, Bounds, MinOfTwo DEF CalculateBackoff

-----------------------------------------------------------------------------
(* Types: the steps of an execution *)

\* An execution that moves on within what it has counted.
LEMMA CountedStays ==
  ASSUME RunsOK, NEW x \in Executions, Counted(run[x]), NEW r, Goes(x, r), UNCHANGED case,
         r.left = run[x].left, r.timer \in Nat, r.try \in 0..MaxRetries, r.loops = run[x].loops,
         r.cursor = run[x].cursor, r.pc \notin {"sleep", "mark", "answer", "cache"}
  PROVE  Counted(run[x])'
<1>1. run'[x] = r /\ plan' = plan
  BY OneMoves DEF plan
<1> QED BY <1>1 DEF Counted

LEMMA CountedFails ==
  ASSUME RunsOK, NEW x \in Executions, NEW res \in Final, Fails(x, res), UNCHANGED case
  PROVE  Counted(run[x])'
<1> DEFINE r == [Idle EXCEPT !.pc = "mark", !.result = res, !.start = run[x].start, !.cut = run[x].cut]
<1>1. run'[x] = r /\ plan' = plan
  BY OneMoves DEF Fails, plan
<1>2. /\ r.pc = "mark" /\ r.result = res /\ r.left = 0 /\ r.timer = 0 /\ r.try = 0 /\ r.loops = 0
      /\ r.cursor = 0
  BY DEF Idle
<1> HIDE DEF r
<1>3. plan.pages \in Nat
  BY ThePlan
<1> QED BY <1>1, <1>2, <1>3, Bounds DEF Counted

LEMMA CountedGoesTo ==
  ASSUME RunsOK, NEW x \in Executions, Counted(run[x]), NEW pc, GoesTo(x, pc), UNCHANGED case,
         pc \notin {"sleep", "mark", "answer"}, pc = "cache" => run[x].pc = "answer"
  PROVE  Counted(run[x])'
<1> DEFINE r == [run[x] EXCEPT !.pc = pc]
<1>1. run'[x] = r /\ plan' = plan /\ DOMAIN run[x] = DOMAIN Idle
  BY OneMoves DEF GoesTo, plan, RunsOK, RunOK
<1>2. /\ r.pc = pc /\ r.left = run[x].left /\ r.timer = run[x].timer /\ r.try = run[x].try
      /\ r.loops = run[x].loops /\ r.cursor = run[x].cursor /\ r.token = run[x].token
  BY <1>1, Fields
<1> HIDE DEF r
<1> QED BY <1>1, <1>2 DEF Counted

LEMMA CountedBetween ==
  ASSUME RunsOK, NEW x \in Executions, Counted(run[x]), NEW pc \in {"loop", "save"},
         NEW r, Goes(x, r), UNCHANGED case, r = Between(x, pc) \/ r = [Between(x, pc) EXCEPT !.cut = TRUE]
  PROVE  Counted(run[x])'
<1> PICK b : b = Between(x, pc)
  OBVIOUS
<1>1. /\ DOMAIN b = DOMAIN Idle
      /\ b.pc = pc /\ b.left = run[x].left /\ b.timer = 0 /\ b.try = 0
      /\ b.loops = run[x].loops /\ b.cursor = run[x].cursor
  BY DEF Between, Idle
<1>2. /\ r.pc = pc /\ r.left = run[x].left /\ r.timer = 0 /\ r.try = 0
      /\ r.loops = run[x].loops /\ r.cursor = run[x].cursor
  <2>1. CASE r = b
    BY <1>1, <2>1
  <2>2. CASE r = [b EXCEPT !.cut = TRUE]
    BY <1>1, <2>2, Fields
  <2> QED BY <2>1, <2>2
<1>3. r.timer \in Nat /\ r.try \in 0..MaxRetries /\ r.pc \notin {"sleep", "mark", "answer", "cache"}
  BY <1>2, Bounds
<1> QED BY <1>2, <1>3, CountedStays

\* Another attempt: the delay is a time to sleep.
LEMMA CountedRetry ==
  ASSUME RunsOK, NEW x \in Executions, NEW s, NEW delays, Retry(x, s, delays), UNCHANGED case,
         DOMAIN s = DOMAIN Idle, delays \subseteq Nat,
         s.left \in 0..MaxRun, s.try \in 0..MaxRetries, s.try < MaxRetries, s.loops \in 0..MaxLoops,
         s.cursor \in 0..plan.pages
  PROVE  Counted(run[x])'
<1>0. PICK delay \in delays : Goes(x, [s EXCEPT !.pc = "sleep", !.timer = delay])
  BY DEF Retry
<1> DEFINE r == [s EXCEPT !.pc = "sleep", !.timer = delay]
<1>1. run'[x] = r /\ plan' = plan
  BY <1>0, OneMoves DEF plan
<1>2. /\ r.pc = "sleep" /\ r.left = s.left /\ r.timer = delay /\ r.try = s.try
      /\ r.loops = s.loops /\ r.cursor = s.cursor
  BY Fields
<1> HIDE DEF r
<1> QED BY <1>1, <1>2 DEF Counted

\* What there is to sleep.
LEMMA DelaysAreTimes ==
  ASSUME NEW x, run[x].try \in 0..MaxRetries
  PROVE  CalculateBackoff(run[x].try + 1) \in Nat /\ \A kind : Delays(x, kind) \subseteq Nat
<1>1. run[x].try + 1 \in Nat
  BY Bounds
<1>2. BlockTime \in Nat
  BY TimesAssumption
<1> QED BY <1>1, <1>2, BackoffIsTime DEF Delays

\* The record is made, the plan and the context are read, and the token is fetched.
LEMMA CountedStart ==
  ASSUME RunsOK, TokensOK, RunsCounted, NEW x \in Executions,
         \/ Begin(x) \/ MarkStarted(x) \/ LoadPlan(x) \/ LoadContext(x)
         \/ GetCachedToken(x) \/ Issue(x) \/ Answer(x) \/ CacheToken(x)
  PROVE  Counted(run[x])'
<1>0. /\ UNCHANGED case /\ Counted(run[x]) /\ DOMAIN run[x] = DOMAIN Idle /\ stored \in 0..plan.pages
      /\ run[x].left \in 0..MaxRun /\ run[x].timer \in Nat /\ run[x].try \in 0..MaxRetries
  BY DEF Begin, MarkStarted, LoadPlan, LoadContext, GetCachedToken, Issue, Answer, CacheToken, RunsCounted, Counted,
         RunsOK, RunOK
<1>1. CASE Fails(x, "failed")
  BY <1>0, <1>1, CountedFails DEF Final
<1>2. CASE GoesTo(x, "load") \/ GoesTo(x, "context") \/ GoesTo(x, "done")
  BY <1>0, <1>2, CountedGoesTo
<1>3. CASE Begin(x) /\ Goes(x, [run[x] EXCEPT !.pc = "start", !.left = MaxRun])
  <2> PICK r : r = [run[x] EXCEPT !.pc = "start", !.left = MaxRun]
    OBVIOUS
  <2>1. /\ r.pc = "start" /\ r.left = MaxRun /\ r.timer = run[x].timer /\ r.try = run[x].try
        /\ r.loops = run[x].loops /\ r.cursor = run[x].cursor
    BY <1>0, Fields
  <2>2. run'[x] = r /\ plan' = plan
    BY <1>0, <1>3, OneMoves DEF plan
  <2> QED BY <1>0, <2>1, <2>2, Bounds DEF Counted
<1>4. CASE LoadContext(x) /\ ~Fails(x, "failed")
  <2>1. PICK pc \in {"token", "loop"} : Goes(x, [run[x] EXCEPT !.pc = pc, !.cursor = stored, !.start = stored])
    BY <1>4 DEF LoadContext
  <2> PICK r : r = [run[x] EXCEPT !.pc = pc, !.cursor = stored, !.start = stored]
    OBVIOUS
  <2>2. /\ r.pc = pc /\ r.left = run[x].left /\ r.timer = run[x].timer /\ r.try = run[x].try
        /\ r.loops = run[x].loops /\ r.cursor = stored
    BY <1>0, <2>1, Fields
  <2>3. run'[x] = r /\ plan' = plan
    BY <1>0, <2>1, OneMoves DEF plan
  <2> QED BY <1>0, <2>1, <2>2, <2>3 DEF Counted
<1>5. CASE GetCachedToken(x)
  <2>1. \E r : /\ Goes(x, r)
               /\ \/ r = [run[x] EXCEPT !.pc = "loop", !.token = token.alive]
                  \/ r = [run[x] EXCEPT !.pc = "issue", !.timer = HttpTimeout]
    BY <1>5 DEF GetCachedToken
  <2>2. PICK r : /\ Goes(x, r)
                 /\ \/ r = [run[x] EXCEPT !.pc = "loop", !.token = token.alive]
                    \/ r = [run[x] EXCEPT !.pc = "issue", !.timer = HttpTimeout]
    BY <2>1
  <2>3. /\ r.pc \in {"loop", "issue"} /\ r.left = run[x].left /\ r.timer \in {run[x].timer, HttpTimeout}
        /\ r.try = run[x].try /\ r.loops = run[x].loops /\ r.cursor = run[x].cursor
    BY <1>0, <2>2, Fields
  <2>4. r.timer \in Nat
    BY <1>0, <2>3, Bounds
  <2> QED BY <1>0, <2>2, <2>3, <2>4, CountedStays
<1>6. CASE Issue(x)
  <2> PICK r : r = [run[x] EXCEPT !.pc = "answer", !.token = plan.life]
    OBVIOUS
  <2>1. /\ r.pc = "answer" /\ r.left = run[x].left /\ r.timer = run[x].timer /\ r.try = run[x].try
        /\ r.loops = run[x].loops /\ r.cursor = run[x].cursor /\ r.token = plan.life
    BY <1>0, Fields
  <2>2. run'[x] = r /\ plan' = plan
    BY <1>0, <1>6, OneMoves DEF plan, Issue
  <2>3. plan.life <= plan.life
    BY ThePlan
  <2> QED BY <1>0, <2>1, <2>2, <2>3 DEF Counted
<1>7. CASE At(x, "answer") /\ GoesTo(x, "cache")
  BY <1>0, <1>7, CountedGoesTo DEF At
<1>8. CASE CacheToken(x)
  <2> PICK r : r = [run[x] EXCEPT !.pc = "loop", !.timer = 0]
    OBVIOUS
  <2>1. /\ r.pc = "loop" /\ r.left = run[x].left /\ r.timer = 0 /\ r.try = run[x].try
        /\ r.loops = run[x].loops /\ r.cursor = run[x].cursor
    BY <1>0, Fields
  <2>2. Goes(x, r)
    BY <1>8 DEF CacheToken
  <2>3. r.timer \in Nat /\ r.try \in 0..MaxRetries /\ r.pc \notin {"sleep", "mark", "answer", "cache"}
    BY <1>0, <2>1
  <2> QED BY <1>0, <2>1, <2>2, <2>3, CountedStays
<1>9. CASE Begin(x)
  BY <1>2, <1>3, <1>9 DEF Begin
<1>10. CASE MarkStarted(x) \/ LoadPlan(x) \/ Answer(x)
  BY <1>1, <1>2, <1>7, <1>10 DEF MarkStarted, LoadPlan, Answer
<1> QED BY <1>1, <1>4, <1>5, <1>6, <1>8, <1>9, <1>10

\* The loop, the limits and the attempts.
LEMMA CountedRequest ==
  ASSUME RunsOK, RunsCounted, BucketsOK, NEW x \in Executions,
         \/ LoopHead(x) \/ Build(x) \/ Acquire(x) \/ CheckWindow(x) \/ Pause(x) \/ Send(x) \/ NetError(x) \/ Wake(x)
  PROVE  Counted(run[x])'
<1>0. /\ UNCHANGED case /\ Counted(run[x]) /\ DOMAIN run[x] = DOMAIN Idle
      /\ run[x].left \in 0..MaxRun /\ run[x].timer \in Nat /\ run[x].try \in 0..MaxRetries
      /\ run[x].loops \in 0..MaxLoops /\ run[x].cursor \in 0..plan.pages
  BY DEF LoopHead, Build, Acquire, CheckWindow, Pause, Send, NetError, Wake, RunsCounted, Counted, RunsOK, RunOK
<1>1. CASE Fails(x, "failed")
  BY <1>0, <1>1, CountedFails DEF Final
<1>2. ASSUME NEW t \in Nat, Deny(x, t) PROVE Counted(run[x])'
  <2>1. CASE Goes(x, [run[x] EXCEPT !.pc = "pause", !.timer = t])
    <3> PICK r : r = [run[x] EXCEPT !.pc = "pause", !.timer = t]
      OBVIOUS
    <3>1. /\ r.pc = "pause" /\ r.left = run[x].left /\ r.timer = t /\ r.try = run[x].try
          /\ r.loops = run[x].loops /\ r.cursor = run[x].cursor
      BY <1>0, Fields
    <3> QED BY <1>0, <2>1, <3>1, CountedStays
  <2> QED BY <1>1, <1>2, <2>1 DEF Deny
<1>3. CASE LoopHead(x) /\ ~Fails(x, "failed")
  <2> PICK b, r : b = Between(x, "build") /\ r = [b EXCEPT !.loops = @ + 1, !.step = StepTimeout]
    OBVIOUS
  <2>1. /\ DOMAIN b = DOMAIN Idle
        /\ b.pc = "build" /\ b.left = run[x].left /\ b.timer = 0 /\ b.try = 0
        /\ b.loops = run[x].loops /\ b.cursor = run[x].cursor
    BY DEF Between, Idle
  <2>2. /\ r.pc = "build" /\ r.left = run[x].left /\ r.timer = 0 /\ r.try = 0
        /\ r.loops = run[x].loops + 1 /\ r.cursor = run[x].cursor
    BY <2>1, Fields
  <2>3. run[x].loops # MaxLoops /\ Goes(x, r)
    BY <1>3 DEF LoopHead
  <2>4. run'[x] = r /\ plan' = plan
    BY <1>0, <2>3, OneMoves DEF plan
  <2> QED BY <1>0, <2>2, <2>3, <2>4, Bounds DEF Counted
<1>4. CASE Build(x) /\ ~Fails(x, "failed")
  <2>1. PICK pc \in {"send", "acquire"}, w \in {0, MaxWait} :
            Goes(x, [run[x] EXCEPT !.pc = pc, !.page = run[x].cursor + 1, !.limit = 1, !.wait = w])
    BY <1>4 DEF Build
  <2> PICK r : r = [run[x] EXCEPT !.pc = pc, !.page = run[x].cursor + 1, !.limit = 1, !.wait = w]
    OBVIOUS
  <2>2. /\ r.pc = pc /\ r.left = run[x].left /\ r.timer = run[x].timer /\ r.try = run[x].try
        /\ r.loops = run[x].loops /\ r.cursor = run[x].cursor
    BY <1>0, Fields
  <2> QED BY <1>0, <2>1, <2>2, CountedStays
<1>5. CASE Acquire(x)
  <2>1. GoesTo(x, "window") => Counted(run[x])'
    BY <1>0, CountedGoesTo
  <2> QED BY <1>1, <1>2, <1>5, <2>1 DEF Acquire
<1>6. CASE CheckWindow(x)
  <2>1. run[x].limit \in Limits
    BY <1>6 DEF CheckWindow, At, RunsOK, RunOK
  <2> DEFINE l == run[x].limit
             onwards == IF l < Len(plan.limits) THEN [run[x] EXCEPT !.pc = "acquire", !.limit = @ + 1]
                        ELSE [run[x] EXCEPT !.pc = "send"]
  <2>2. /\ onwards.pc \in {"acquire", "send"} /\ onwards.left = run[x].left /\ onwards.timer = run[x].timer
        /\ onwards.try = run[x].try /\ onwards.loops = run[x].loops /\ onwards.cursor = run[x].cursor
    BY <1>0, Fields
  <2>3. CASE Goes(x, onwards)
    <3> PICK r : r = onwards
      OBVIOUS
    <3> HIDE DEF onwards
    <3> QED BY <1>0, <2>2, <2>3, CountedStays
  <2>4. ASSUME block[l] > 0 \/ Len(window[l]) >= plan.limits[l].requests
        PROVE  (IF block[l] > 0 THEN block[l] ELSE Head(window[l])) \in Nat
    <3>1. block[l] \in Nat /\ window[l] \in Seq(Nat)
      BY <2>1 DEF BucketsOK, BucketOK
    <3>2. plan.limits[l].requests \in Nat \ {0}
      BY <2>1, PlansAssumption DEF RunsOK, plan, Limits
    <3> QED BY <2>4, <3>1, <3>2
  <2> QED BY <1>2, <1>6, <2>3, <2>4 DEF CheckWindow
<1>7. CASE Pause(x) /\ ~Fails(x, "failed")
  <2> PICK r : r = [run[x] EXCEPT !.pc = "acquire", !.limit = 1]
    OBVIOUS
  <2>1. /\ r.pc = "acquire" /\ r.left = run[x].left /\ r.timer = run[x].timer /\ r.try = run[x].try
        /\ r.loops = run[x].loops /\ r.cursor = run[x].cursor
    BY <1>0, Fields
  <2>2. Goes(x, r)
    BY <1>7 DEF Pause
  <2> QED BY <1>0, <2>1, <2>2, CountedStays
<1>8. CASE Send(x)
  <2> PICK r : r = [run[x] EXCEPT !.pc = "flight", !.timer = HttpTimeout]
    OBVIOUS
  <2>1. /\ r.pc = "flight" /\ r.left = run[x].left /\ r.timer = HttpTimeout /\ r.try = run[x].try
        /\ r.loops = run[x].loops /\ r.cursor = run[x].cursor
    BY <1>0, Fields
  <2>2. Goes(x, r)
    BY <1>8 DEF Send
  <2> QED BY <1>0, <2>1, <2>2, CountedStays, Bounds
<1>9. CASE NetError(x)
  <2>1. CASE run[x].try < MaxRetries /\ Retry(x, run[x], {CalculateBackoff(run[x].try + 1)})
    <3>1. {CalculateBackoff(run[x].try + 1)} \subseteq Nat
      BY <1>0, DelaysAreTimes
    <3> QED BY <1>0, <2>1, <3>1, CountedRetry
  <2> QED BY <1>1, <1>9, <2>1 DEF NetError
<1>10. CASE Wake(x)
  <2> PICK r : r = [run[x] EXCEPT !.pc = "build", !.try = @ + 1]
    OBVIOUS
  <2>1. /\ r.pc = "build" /\ r.left = run[x].left /\ r.timer = run[x].timer /\ r.try = run[x].try + 1
        /\ r.loops = run[x].loops /\ r.cursor = run[x].cursor
    BY <1>0, Fields
  <2>2. Goes(x, r) /\ run[x].try < MaxRetries
    BY <1>0, <1>10 DEF Wake, At, Counted
  <2>3. r.try \in 0..MaxRetries
    BY <1>0, <2>1, <2>2, Bounds
  <2> QED BY <1>0, <2>1, <2>2, <2>3, CountedStays
<1> QED BY <1>1, <1>3, <1>4, <1>5, <1>6, <1>7, <1>8, <1>9, <1>10

LEMMA CountedRespond ==
  ASSUME RunsOK, RunsCounted, NEW x \in Executions, NEW kind, Respond(x, kind)
  PROVE  Counted(run[x])'
<1>0. /\ UNCHANGED case /\ Counted(run[x]) /\ DOMAIN run[x] = DOMAIN Idle
      /\ run[x].left \in 0..MaxRun /\ run[x].try \in 0..MaxRetries
      /\ run[x].loops \in 0..MaxLoops /\ run[x].page \in Nat /\ plan.pages \in Nat
  BY ThePlan DEF Respond, RunsCounted, Counted, RunsOK, RunOK
<1> DEFINE cursor == IF HasCursor(kind) THEN Min({run[x].page, plan.pages}) ELSE 0
           more == HasCursor(kind) /\ run[x].page < plan.pages
<1>1. cursor \in 0..plan.pages
  <2>1. /\ Min({run[x].page, plan.pages}) \in Nat
        /\ Min({run[x].page, plan.pages}) <= plan.pages
    BY <1>0, MinOfTwo
  <2> HIDE DEF cursor
  <2>2. cursor = 0 \/ cursor = Min({run[x].page, plan.pages})
    BY DEF cursor
  <2> QED BY <1>0, <2>1, <2>2
<1> PICK r : r = [run[x] EXCEPT !.kind = kind.is, !.cursor = cursor, !.more = more, !.wait = 0, !.timer = 0]
  OBVIOUS
<1>2. /\ DOMAIN r = DOMAIN Idle /\ r.left = run[x].left /\ r.timer = 0 /\ r.try = run[x].try
      /\ r.loops = run[x].loops /\ r.cursor = cursor
  BY <1>0, Fields
<1>3. \/ Fails(x, "failed")
      \/ r.try < MaxRetries /\ Retry(x, r, Delays(x, kind))
      \/ Goes(x, [r EXCEPT !.pc = "result", !.step = 0, !.try = 0, !.cut = @ \/ ~HasCursor(kind)])
  BY <1>2 DEF Respond
<1> HIDE DEF cursor
<1>4. CASE Fails(x, "failed")
  BY <1>0, <1>4, CountedFails DEF Final
<1>5. CASE r.try < MaxRetries /\ Retry(x, r, Delays(x, kind))
  BY <1>0, <1>1, <1>2, <1>5, CountedRetry, DelaysAreTimes
<1>6. CASE Goes(x, [r EXCEPT !.pc = "result", !.step = 0, !.try = 0, !.cut = @ \/ ~HasCursor(kind)])
  <2> PICK s : s = [r EXCEPT !.pc = "result", !.step = 0, !.try = 0, !.cut = @ \/ ~HasCursor(kind)]
    OBVIOUS
  <2>1. /\ s.pc = "result" /\ s.left = run[x].left /\ s.timer = 0 /\ s.try = 0
        /\ s.loops = run[x].loops /\ s.cursor = cursor
    BY <1>2, Fields
  <2>2. run'[x] = s /\ plan' = plan
    BY <1>0, <1>6, OneMoves DEF plan
  <2> QED BY <1>0, <1>1, <2>1, <2>2, Bounds DEF Counted
<1> QED BY <1>3, <1>4, <1>5, <1>6

\* What the plan makes of the result, and the end.
LEMMA CountedResult ==
  ASSUME RunsOK, RunsCounted, NEW x \in Executions,
         \/ Result(x) \/ SubSteps(x) \/ Emit(x) \/ EvaluationFails(x) \/ Save(x) \/ Mark(x) \/ Report(x) \/ Crash(x)
  PROVE  Counted(run[x])'
<1>0. /\ UNCHANGED case /\ Counted(run[x]) /\ DOMAIN run[x] = DOMAIN Idle
      /\ run[x].timer \in Nat /\ run[x].try \in 0..MaxRetries
  BY DEF Result, SubSteps, Emit, EvaluationFails, Save, Mark, Report, Crash, RunsCounted, Counted, RunsOK, RunOK
<1>1. ASSUME NEW res \in Final, Fails(x, res) PROVE Counted(run[x])'
  BY <1>0, <1>1, CountedFails
<1>2. ASSUME NEW pc \in {"emit", "subs", "hung", "report", "done"}, GoesTo(x, pc) PROVE Counted(run[x])'
  BY <1>0, <1>2, CountedGoesTo
<1>3. ASSUME NEW pc \in {"loop", "save"}, Goes(x, Between(x, pc)) \/ Goes(x, [Between(x, pc) EXCEPT !.cut = TRUE])
      PROVE  Counted(run[x])'
  BY <1>0, <1>3, CountedBetween
<1>4. CASE Result(x)
  <2>1. \/ Fails(x, "aborted") \/ Goes(x, [Between(x, "save") EXCEPT !.cut = TRUE])
        \/ GoesTo(x, "emit") \/ GoesTo(x, "subs")
    BY <1>4 DEF Result
  <2> QED BY <1>1, <1>2, <1>3, <2>1 DEF Final
<1>5. CASE SubSteps(x)
  <2>1. ASSUME NEW r, Goes(x, r), \E more, cut : r = [run[x] EXCEPT !.pc = "emit", !.more = more, !.cut = cut]
        PROVE  Counted(run[x])'
    <3>1. /\ r.pc = "emit" /\ r.left = run[x].left /\ r.timer = run[x].timer /\ r.try = run[x].try
          /\ r.loops = run[x].loops /\ r.cursor = run[x].cursor
      BY <1>0, <2>1, Fields
    <3> QED BY <1>0, <2>1, <3>1, CountedStays
  <2>2. ASSUME NEW error, NEW abort, Goes(x, [run[x] EXCEPT !.pc = "emit", !.error = error, !.abort = abort])
        PROVE  Counted(run[x])'
    <3> PICK r : r = [run[x] EXCEPT !.pc = "emit", !.error = error, !.abort = abort]
      OBVIOUS
    <3>1. /\ r.pc = "emit" /\ r.left = run[x].left /\ r.timer = run[x].timer /\ r.try = run[x].try
          /\ r.loops = run[x].loops /\ r.cursor = run[x].cursor
      BY <1>0, Fields
    <3> QED BY <1>0, <2>2, <3>1, CountedStays
  <2>3. CASE \E more : Goes(x, [run[x] EXCEPT !.pc = "emit", !.more = more, !.cut = @ \/ more # run[x].more])
    <3>1. PICK more : Goes(x, [run[x] EXCEPT !.pc = "emit", !.more = more, !.cut = @ \/ more # run[x].more])
      BY <2>3
    <3> PICK r : r = [run[x] EXCEPT !.pc = "emit", !.more = more, !.cut = @ \/ more # run[x].more]
      OBVIOUS
    <3>2. \E m, cut : r = [run[x] EXCEPT !.pc = "emit", !.more = m, !.cut = cut]
      OBVIOUS
    <3> QED BY <2>1, <3>1, <3>2
  <2>4. ASSUME NEW res \in {"failed", "aborted"}, Fails(x, res) PROVE Counted(run[x])'
    BY <1>1, <2>4 DEF Final
  <2>5. GoesTo(x, "hung") => Counted(run[x])'
    BY <1>2
  <2> QED BY <1>5, <2>2, <2>3, <2>4, <2>5 DEF SubSteps
<1>6. CASE Emit(x)
  <2>1. Fails(x, "aborted") \/ \E pc \in {"loop", "save"} : Goes(x, Between(x, pc))
    BY <1>6 DEF Emit
  <2> QED BY <1>1, <1>3, <2>1 DEF Final
<1>7. CASE EvaluationFails(x) \/ Save(x)
  <2>1. Fails(x, "failed") \/ Fails(x, "success")
    BY <1>7 DEF EvaluationFails, Save
  <2> QED BY <1>1, <2>1 DEF Final
<1>8. CASE Mark(x) \/ Report(x) \/ Crash(x)
  <2>1. GoesTo(x, "report") \/ GoesTo(x, "done")
    BY <1>8 DEF Mark, Report, Crash
  <2> QED BY <1>2, <2>1
<1> QED BY <1>4, <1>5, <1>6, <1>7, <1>8

LEMMA CountedStep ==
  ASSUME RunsOK, TokensOK, RunsCounted, BucketsOK, NEW x \in Executions, Step(x)
  PROVE  Counted(run[x])'
<1>1. ASSUME NEW kind, Respond(x, kind) PROVE Counted(run[x])'
  BY <1>1, CountedRespond
<1> QED BY <1>1, CountedStart, CountedRequest, CountedResult DEF Step, Execute

LEMMA CountedTick ==
  ASSUME RunsOK, TokensOK, RunsCounted, Tick, NEW x \in Executions
  PROVE  Counted(run[x])'
<1>0. UNCHANGED case /\ Counted(run[x]) /\ DOMAIN run[x] = DOMAIN Idle
  BY DEF Tick, RunsCounted, RunsOK, RunOK
<1> PICK r : r = RunAged(run[x])
  OBVIOUS
<1>1. run'[x] = r /\ plan' = plan
  BY <1>0 DEF Tick, plan
<1>2. /\ r.pc = run[x].pc /\ r.try = run[x].try /\ r.loops = run[x].loops /\ r.cursor = run[x].cursor
      /\ r.result = run[x].result
      /\ r.left \in {run[x].left, Dec(run[x].left)} /\ r.timer \in {run[x].timer, Dec(run[x].timer)}
      /\ r.token = run[x].token \/ r.token = Dec(run[x].token)
  BY <1>0, Fields DEF RunAged
<1>3. r.left \in 0..MaxRun /\ r.timer \in Nat
  BY <1>0, <1>2, Bounds DEF Counted, Dec
<1>4. r.pc \in {"answer", "cache"} => r.token <= plan.life
  <2>1. plan.life \in Nat /\ run[x].token \in Int
    BY ThePlan DEF TokensOK, TokenOK
  <2> QED BY <1>0, <1>2, <2>1 DEF Counted, Dec
<1> QED BY <1>0, <1>1, <1>2, <1>3, <1>4 DEF Counted

-----------------------------------------------------------------------------
(* Types: the records, the statistics and the buckets *)

\* Where a step starts: whoever is done does nothing, and who has a final status can
\* only report or die.
LEMMA StepFrom ==
  ASSUME NEW x \in Executions, Step(x)
  PROVE  /\ run[x].pc # "done"
         /\ run[x].pc = "report" => Report(x) \/ Crash(x)
<1>1. CASE Begin(x) \/ Crash(x)
  BY <1>1 DEF Begin, Crash, At
<1>2. CASE Execute(x)
  BY <1>2 DEF Execute, MarkStarted, LoadPlan, LoadContext, GetCachedToken, Issue, Answer, CacheToken, LoopHead, Build,
              Acquire, CheckWindow, Pause, Send, NetError, Wake, Respond, Result, SubSteps, Emit, EvaluationFails, Save,
              Mark, Report, At
<1> QED BY <1>1, <1>2 DEF Step

\* The tables that few steps write.
LEMMA StepWrites ==
  ASSUME NEW x \in Executions, Step(x)
  PROVE  /\ ~Begin(x) /\ ~MarkStarted(x) /\ ~Mark(x) => UNCHANGED status
         /\ ~Report(x) => UNCHANGED stats
         /\ ~CheckWindow(x) => UNCHANGED window
         /\ UNCHANGED block \/ \E kind : Respond(x, kind)
         /\ UNCHANGED faults \/ (faults < MaxFaults /\ faults' = faults + 1)
<1>0. Works(x) \/ Breaks(x) \/ Fault => UNCHANGED faults \/ (faults < MaxFaults /\ faults' = faults + 1)
  BY DEF Works, Breaks, Fault
<1>1. CASE Begin(x) \/ Crash(x) \/ MarkStarted(x) \/ LoadPlan(x) \/ LoadContext(x)
  BY <1>0, <1>1 DEF Begin, Crash, MarkStarted, LoadPlan, LoadContext, tables, redis
<1>2. CASE GetCachedToken(x) \/ Issue(x) \/ Answer(x) \/ CacheToken(x)
  BY <1>0, <1>2 DEF GetCachedToken, Issue, Answer, CacheToken, tables, redis
<1>3. CASE LoopHead(x) \/ Build(x) \/ Pause(x) \/ Send(x) \/ Wake(x)
  BY <1>0, <1>3 DEF LoopHead, Build, Pause, Send, Wake, tables, redis
<1>4. CASE Acquire(x)
  BY <1>0, <1>4 DEF Acquire, tables
<1>5. CASE CheckWindow(x)
  BY <1>0, <1>5 DEF CheckWindow, tables
<1>6. CASE NetError(x)
  BY <1>0, <1>6 DEF NetError, tables
<1>7. ASSUME NEW kind, Respond(x, kind)
      PROVE  UNCHANGED <<status, stats, window, faults>>
  BY <1>7 DEF Respond, tables
<1>8. CASE Result(x) \/ SubSteps(x) \/ Save(x)
  BY <1>0, <1>8 DEF Result, SubSteps, Save, tables, redis
<1>9. CASE Emit(x) \/ EvaluationFails(x) \/ Mark(x) \/ Report(x)
  BY <1>0, <1>9 DEF Emit, EvaluationFails, Mark, Report, tables, redis
<1> QED BY <1>1, <1>2, <1>3, <1>4, <1>5, <1>6, <1>7, <1>8, <1>9 DEF Step, Execute

LEMMA RecordedStep ==
  ASSUME RunsOK, RunsCounted, AllRecorded, NEW x \in Executions, Step(x)
  PROVE  AllRecorded'
<1>0. /\ DOMAIN run[x] = DOMAIN Idle /\ DOMAIN run' = Executions /\ \A y \in Executions : y # x => run'[y] = run[y]
  BY StepFrame, OneMoves DEF RunsOK, RunOK, Frame
<1>1. ASSUME NEW s \in {"pending", "running"}, status' = [status EXCEPT ![x] = s] PROVE AllRecorded'
  BY <1>0, <1>1 DEF AllRecorded, Recorded, Final
<1>2. CASE Mark(x) /\ status' = [status EXCEPT ![x] = run[x].result]
  <2>1. run[x].result \in Final /\ run[x].pc = "mark"
    BY <1>2 DEF Mark, At, RunsCounted, Counted
  <2>2. run'[x].pc = "report" /\ run'[x].result = run[x].result
    <3> PICK r : r = [run[x] EXCEPT !.pc = "report"]
      OBVIOUS
    <3>1. r.pc = "report" /\ r.result = run[x].result
      BY <1>0, Fields
    <3>2. run'[x] = r
      BY <1>2, OneMoves DEF Mark, GoesTo
    <3> QED BY <3>1, <3>2
  <2> QED BY <1>0, <1>2, <2>1, <2>2 DEF AllRecorded, Recorded
<1>3. CASE UNCHANGED status
  <2>1. status[x] \in Final => run'[x].pc \in {"report", "done"} /\ run'[x].result = run[x].result
    <3> SUFFICES ASSUME status[x] \in Final PROVE run'[x].pc \in {"report", "done"} /\ run'[x].result = run[x].result
      OBVIOUS
    <3>1. Report(x) \/ Crash(x)
      BY StepFrom DEF AllRecorded, Recorded
    <3> PICK r : r = [run[x] EXCEPT !.pc = "done"]
      OBVIOUS
    <3>2. r.pc = "done" /\ r.result = run[x].result
      BY <1>0, Fields
    <3>3. run'[x] = r
      BY <3>1, OneMoves DEF Report, Crash, GoesTo
    <3> QED BY <3>2, <3>3
  <2> QED BY <1>0, <1>3, <2>1 DEF AllRecorded, Recorded
<1>4. \/ \E s \in {"pending", "running"} : status' = [status EXCEPT ![x] = s]
      \/ Mark(x) /\ status' = [status EXCEPT ![x] = run[x].result]
      \/ UNCHANGED status
  BY StepWrites DEF Begin, MarkStarted, Mark
<1> QED BY <1>1, <1>2, <1>3, <1>4

\* Each execution is counted at most once: it is done when it is counted.
LEMMA StatsStep ==
  ASSUME RunsOK, StatsOK, NEW x \in Executions, Step(x)
  PROVE  StatsOK'
<1>0. \A y \in Executions : y # x => run'[y] = run[y]
  BY StepFrame, OneMoves DEF Frame
<1>1. /\ IsFiniteSet(Finished) /\ IsFiniteSet(Finished') /\ Cardinality(Finished) \in Nat
      /\ Cardinality(Finished') \in Nat /\ Finished \subseteq Finished' /\ x \notin Finished
  <2>1. Finished \subseteq Executions /\ Finished' \subseteq Executions
    BY DEF Finished
  <2>2. x \notin Finished /\ Finished \subseteq Finished'
    BY <1>0, StepFrom DEF Finished
  <2> QED BY <2>1, <2>2, ExecutionsAssumption, FS_Subset, FS_CardinalityType
<1>2. CASE UNCHANGED stats
  <2>1. Cardinality(Finished) <= Cardinality(Finished')
    BY <1>1, FS_Subset
  <2> QED BY <1>1, <1>2, <2>1 DEF StatsOK
<1>3. CASE Report(x) /\ ~UNCHANGED stats
  <2>1. run'[x].pc = "done"
    BY <1>3, Lands DEF Report
  <2>2. Finished' = Finished \cup {x}
    BY <1>0, <1>1, <2>1 DEF Finished
  <2>3. Cardinality(Finished') = Cardinality(Finished) + 1
    BY <1>1, <2>2, FS_AddElement
  <2>4. PICK f \in {"success", "failure"} : stats' = [stats EXCEPT ![f] = @ + 1]
    BY <1>3 DEF Report
  <2>5. stats' \in [success : Nat, failure : Nat] /\ stats'.success + stats'.failure = stats.success + stats.failure + 1
    BY <2>4 DEF StatsOK
  <2> QED BY <1>1, <2>3, <2>5 DEF StatsOK
<1> QED BY <1>2, <1>3, StepWrites

\* A request enters a bucket that has room, with the most time left.
LEMMA BucketAdds ==
  ASSUME NEW w, NEW limit, BucketOK(w, limit), limit.window \in Nat, limit.requests \in Nat, Len(w) < limit.requests
  PROVE  BucketOK(Append(w, limit.window), limit)
<1> PICK s \in Seq(Nat) : s = w
  BY DEF BucketOK
<1> PICK n \in Nat : n = limit.window
  OBVIOUS
<1>1. /\ Append(s, n) \in Seq(Nat) /\ Len(Append(s, n)) = Len(s) + 1
      /\ DOMAIN Append(s, n) = 1..(Len(s) + 1)
      /\ \A i \in 1..Len(s) : Append(s, n)[i] = s[i]
      /\ Append(s, n)[Len(s) + 1] = n
  OBVIOUS
<1>2. /\ DOMAIN s = 1..Len(s) /\ Len(s) \in Nat
      /\ \A i \in 1..Len(s) : s[i] \in Nat /\ s[i] <= n
      /\ \A i, j \in 1..Len(s) : i <= j => s[i] <= s[j]
  BY DEF BucketOK
<1> PICK a : a = Append(s, n)
  OBVIOUS
<1>3. Len(a) <= limit.requests
  BY <1>1, <1>2
<1>4. \A i \in DOMAIN a : a[i] <= n
  BY <1>1, <1>2
<1>5. \A i, j \in DOMAIN a : i <= j => a[i] <= a[j]
  <2> SUFFICES ASSUME NEW i \in 1..(Len(s) + 1), NEW j \in 1..(Len(s) + 1), i <= j PROVE a[i] <= a[j]
    BY <1>1
  <2>1. CASE j = Len(s) + 1
    BY <1>1, <1>4, <2>1
  <2>2. CASE j \in 1..Len(s)
    <3>1. i \in 1..Len(s)
      BY <1>2, <2>2
    <3> QED BY <1>1, <1>2, <2>2, <3>1
  <2> QED BY <1>2, <2>1, <2>2
<1> QED BY <1>1, <1>3, <1>4, <1>5 DEF BucketOK

\* A tick later: the entries that stay have time left, since they are the latest ones.
LEMMA BucketAges ==
  ASSUME NEW w, NEW limit, BucketOK(w, limit), limit.window \in Nat, limit.requests \in Nat
  PROVE  BucketOK(WindowAged(w), limit)
<1> PICK s \in Seq(Nat) : s = w
  BY DEF BucketOK
<1> DEFINE stay == {i \in DOMAIN s : s[i] > 1}
<1>0. DOMAIN s = 1..Len(s) /\ Len(s) \in Nat /\ \A i \in DOMAIN s : s[i] \in Nat /\ s[i] <= limit.window
  BY DEF BucketOK
<1>1. CASE stay = {}
  <2>1. WindowAged(w) = <<>>
    BY <1>1 DEF WindowAged
  <2> QED BY <2>1 DEF BucketOK
<1>2. CASE stay # {}
  <2>1. stay \subseteq Nat
    BY <1>0
  <2>2. PICK m : m = Min(stay)
    OBVIOUS
  <2>3. m \in 1..Len(s) /\ s[m] > 1
    BY <1>0, <1>2, <2>1, <2>2, MinOfMany
  <2>4. PICK rest : rest = SubSeq(s, m, Len(s))
    OBVIOUS
  <2>5. /\ rest \in Seq(Nat) /\ Len(rest) = Len(s) - m + 1
        /\ \A i \in 1..(Len(s) - m + 1) : rest[i] = s[m + i - 1]
    BY <1>0, <2>3, <2>4
  <2>6. PICK n \in Nat : n = Len(s) - m + 1
    <3>1. \A k \in Nat : \A h \in 1..k : k - h + 1 \in Nat
      OBVIOUS
    <3>2. Len(s) - m + 1 \in Nat
      BY <1>0, <2>3, <3>1
    <3> QED BY <3>2
  <2>7. DOMAIN rest = 1..n /\ n <= Len(s) /\ \A i \in 1..n : m + i - 1 \in 1..Len(s) /\ rest[i] = s[m + i - 1]
    <3>1. \A k \in Nat : \A h \in 1..k : k - h + 1 <= k /\ \A i \in 1..(k - h + 1) : h + i - 1 \in 1..k
      OBVIOUS
    <3>2. Len(s) - m + 1 <= Len(s) /\ \A i \in 1..(Len(s) - m + 1) : m + i - 1 \in 1..Len(s)
      BY <1>0, <2>3, <3>1
    <3>3. DOMAIN rest = 1..Len(rest)
      BY <2>5
    <3> QED BY <2>5, <2>6, <3>2, <3>3
  <2>8. PICK a : a = [i \in 1..n |-> rest[i] - 1]
    OBVIOUS
  <2>9. WindowAged(w) = a
    BY <1>2, <2>2, <2>4, <2>7, <2>8 DEF WindowAged
  <2>10. \A i \in 1..n : rest[i] \in Nat /\ rest[i] > 1 /\ rest[i] <= limit.window
    <3> SUFFICES ASSUME NEW i \in 1..n PROVE s[m + i - 1] \in Nat /\ s[m + i - 1] > 1 /\ s[m + i - 1] <= limit.window
      BY <2>7
    <3>1. m + i - 1 \in DOMAIN s /\ m \in DOMAIN s /\ m <= m + i - 1
      BY <1>0, <2>3, <2>7
    <3>2. s[m] <= s[m + i - 1]
      BY <3>1 DEF BucketOK
    <3> QED BY <1>0, <2>3, <3>1, <3>2
  <2>11. \A i, j \in 1..n : i <= j => rest[i] <= rest[j]
    <3> SUFFICES ASSUME NEW i \in 1..n, NEW j \in 1..n, i <= j PROVE s[m + i - 1] <= s[m + j - 1]
      BY <2>7
    <3>1. m + i - 1 \in DOMAIN s /\ m + j - 1 \in DOMAIN s /\ m + i - 1 <= m + j - 1
      BY <1>0, <2>3, <2>7
    <3> QED BY <3>1 DEF BucketOK
  <2>12. a \in Seq(Nat) /\ Len(a) = n /\ DOMAIN a = 1..n
    BY <2>8, <2>10
  <2>13. \A i \in 1..n : a[i] <= limit.window
    BY <2>8, <2>10
  <2>14. \A i, j \in 1..n : i <= j => a[i] <= a[j]
    BY <2>8, <2>10, <2>11
  <2>15. n <= limit.requests
    BY <1>0, <2>7 DEF BucketOK
  <2> QED BY <2>9, <2>12, <2>13, <2>14, <2>15 DEF BucketOK
<1> QED BY <1>1, <1>2

LEMMA LimitsAre ==
  ASSUME RunsOK, NEW l \in Limits
  PROVE  plan.limits[l].window \in Nat /\ plan.limits[l].requests \in Nat
  BY PlansAssumption DEF RunsOK, plan, Limits

LEMMA BucketsStep ==
  ASSUME RunsOK, BucketsOK, NEW x \in Executions, Step(x)
  PROVE  BucketsOK'
<1>0. plan' = plan /\ Limits' = Limits
  BY StepFrame DEF Frame, plan, Limits
<1>1. DOMAIN block' = Limits /\ \A l \in Limits : block'[l] \in Nat
  <2>1. CASE UNCHANGED block
    BY <2>1 DEF BucketsOK
  <2>2. ASSUME NEW kind, Respond(x, kind) PROVE DOMAIN block' = Limits /\ \A l \in Limits : block'[l] \in Nat
    <3>1. block' = [l \in Limits |-> Blocked(l, kind)]
      BY <2>2 DEF Respond
    <3>2. \A l \in Limits : Blocked(l, kind) \in Nat
      BY Bounds DEF BucketsOK, Blocked
    <3> QED BY <3>1, <3>2
  <2> QED BY <2>1, <2>2, StepWrites
<1>2. CASE UNCHANGED window
  BY <1>0, <1>1, <1>2 DEF BucketsOK
<1>3. CASE CheckWindow(x) /\ ~UNCHANGED window
  <2> PICK l : l = run[x].limit
    OBVIOUS
  <2>1. l \in Limits
    BY <1>3 DEF CheckWindow, At, RunsOK, RunOK
  <2>2. /\ Len(window[l]) < plan.limits[l].requests
        /\ window' = [window EXCEPT ![l] = Append(window[l], plan.limits[l].window)]
    BY <1>3 DEF CheckWindow
  <2>3. BucketOK(Append(window[l], plan.limits[l].window), plan.limits[l])
    BY <2>1, <2>2, LimitsAre, BucketAdds DEF BucketsOK
  <2>4. DOMAIN window' = Limits /\ \A k \in Limits : BucketOK(window'[k], plan.limits[k])
    BY <2>1, <2>2, <2>3 DEF BucketsOK
  <2> QED BY <1>0, <1>1, <2>4 DEF BucketsOK
<1> QED BY <1>2, <1>3, StepWrites

LEMMA BucketsTick ==
  ASSUME RunsOK, BucketsOK, Tick
  PROVE  BucketsOK'
<1>0. plan' = plan /\ Limits' = Limits
  BY DEF Tick, plan, Limits
<1>1. DOMAIN window' = Limits /\ \A l \in Limits : window'[l] = WindowAged(window[l])
  BY DEF Tick
<1>2. DOMAIN block' = Limits /\ \A l \in Limits : block'[l] = Dec(block[l])
  BY DEF Tick
<1>3. \A l \in Limits : block'[l] \in Nat
  BY <1>2 DEF BucketsOK, Dec
<1>4. \A l \in Limits : BucketOK(window'[l], plan.limits[l])
  BY <1>1, LimitsAre, BucketAges DEF BucketsOK
<1> QED BY <1>0, <1>1, <1>2, <1>3, <1>4 DEF BucketsOK

-----------------------------------------------------------------------------
(* Types: the slots and the token *)

\* A slot is given back, or taken with its whole TTL.
LEMMA SlotsTimedStep ==
  ASSUME RunsOK, SlotsShape, SlotsTimed, NEW x \in Executions, Step(x)
  PROVE  SlotsTimed'
<1>0. plan' = plan /\ Limits' = Limits
  BY StepFrame DEF Frame, plan, Limits
<1>1. CASE UNCHANGED slots
  BY <1>0, <1>1 DEF SlotsTimed
<1>2. CASE slots' = Released(x)
  <2>1. \A l \in Limits : DOMAIN slots'[l] = DOMAIN slots[l]
    BY <1>2 DEF Released
  <2>2. \A l \in Limits : \A i \in DOMAIN slots[l] : slots'[l][i] = slots[l][i] \/ slots'[l][i] = Free
    BY <1>2 DEF Released
  <2>3. Free.left <= SlotTTL
    BY Bounds DEF Free
  <2> QED BY <1>0, <2>1, <2>2, <2>3 DEF SlotsTimed
<1>3. CASE Acquire(x) /\ slots' # Released(x) /\ ~UNCHANGED slots
  <2> PICK l : l = run[x].limit
    OBVIOUS
  <2> PICK i : i = Min(FreeSlots(l))
    OBVIOUS
  <2>1. l \in Limits
    BY <1>3 DEF Acquire, At, RunsOK, RunOK
  <2>2. FreeSlots(l) # {} /\ slots' = [slots EXCEPT ![l][i] = [owner |-> x, left |-> SlotTTL]]
    BY <1>3 DEF Acquire, Deny
  <2>3. i \in DOMAIN slots[l]
    <3>1. FreeSlots(l) \subseteq DOMAIN slots[l] /\ DOMAIN slots[l] = 1..plan.limits[l].concurrent
      BY <2>1 DEF FreeSlots, SlotsShape
    <3>2. FreeSlots(l) \subseteq Nat
      BY <2>1, <3>1, ThePlan
    <3> QED BY <2>2, <3>1, <3>2, MinOfMany
  <2>4. PICK s : s = [owner |-> x, left |-> SlotTTL]
    OBVIOUS
  <2>5. s.left <= SlotTTL
    BY <2>4, Bounds
  <2>6. /\ \A m \in Limits : DOMAIN slots'[m] = DOMAIN slots[m]
        /\ slots'[l][i] = s
        /\ \A m \in Limits : \A j \in DOMAIN slots[m] : m # l \/ j # i => slots'[m][j] = slots[m][j]
    BY <2>1, <2>2, <2>3, <2>4, OneSlotSet
  <2> QED BY <1>0, <2>1, <2>5, <2>6 DEF SlotsTimed
<1>4. CASE CheckWindow(x)
  BY <1>1, <1>2, <1>4 DEF CheckWindow, Deny
<1>5. CASE Build(x) \/ Pause(x) \/ Send(x)
  BY <1>1, <1>5 DEF Build, Pause, Send, redis
<1> QED BY <1>1, <1>2, <1>3, <1>4, <1>5, LetsGo

LEMMA SlotsTimedTick ==
  ASSUME RunsOK, SlotsShape, SlotsTimed, Tick
  PROVE  SlotsTimed'
<1>0. Limits' = Limits
  BY DEF Tick, plan, Limits
<1>1. \A l \in Limits : DOMAIN slots'[l] = DOMAIN slots[l]
  BY DEF Tick
<1>2. \A l \in Limits : \A i \in DOMAIN slots[l] : slots'[l][i] = SlotAged(slots[l][i])
  BY DEF Tick
<1>3. ASSUME NEW s \in Slot, s.left <= SlotTTL PROVE SlotAged(s).left <= SlotTTL
  <2>1. s.left \in Nat
    BY DEF Slot
  <2>2. SlotAged(s).left \in {0, s.left - 1}
    <3>1. SlotAged(s) = Free \/ SlotAged(s) = [s EXCEPT !.left = s.left - 1]
      BY DEF SlotAged
    <3>2. Free.left = 0
      BY DEF Free
    <3>3. DOMAIN s = {"owner", "left"}
      BY DEF Slot
    <3> QED BY <3>1, <3>2, <3>3
  <2> PICK n : n = SlotAged(s).left
    OBVIOUS
  <2>3. n <= SlotTTL
    BY <1>3, <2>1, <2>2, Bounds
  <2> QED BY <2>3
<1>4. \A l \in Limits : \A i \in DOMAIN slots[l] : slots[l][i] \in Slot
  BY DEF SlotsShape, Slot
<1>5. \A l \in Limits : \A i \in DOMAIN slots[l] : SlotAged(slots[l][i]).left <= SlotTTL
  BY <1>3, <1>4 DEF SlotsTimed
<1> QED BY <1>0, <1>1, <1>2, <1>5 DEF SlotsTimed

\* A token is not believed to be older than it is.
LEMMA YoungStep ==
  ASSUME RunsOK, TokensOK, RunsCounted, token.alive <= token.left, NEW x \in Executions, Step(x)
  PROVE  token'.alive <= token'.left
<1>1. CASE UNCHANGED token
  BY <1>1
<1>2. CASE CacheToken(x) /\ ~UNCHANGED token
  <2>1. run[x].token <= plan.life
    BY <1>2 DEF CacheToken, At, RunsCounted, Counted
  <2>2. PICK t : t = [left |-> plan.life, alive |-> run[x].token, ttl |-> 0]
    OBVIOUS
  <2>3. token' = [t EXCEPT !.ttl = TTL(t)]
    BY <1>2, <2>2 DEF CacheToken
  <2>4. token'.alive = run[x].token /\ token'.left = plan.life
    BY <2>2, <2>3
  <2> QED BY <2>1, <2>4
<1> QED BY <1>1, <1>2, StepFrame DEF Frame

LEMMA YoungTick ==
  ASSUME TokensOK, token.alive <= token.left, Tick
  PROVE  token'.alive <= token'.left
<1> PICK t \in [left : Nat, alive : Nat, ttl : Int] : t = token
  BY DEF TokensOK
<1>0. token' = TokenAged(t) /\ t.alive <= t.left /\ t.alive \in Nat /\ t.left \in Nat
  BY DEF Tick
<1>1. CASE t.ttl <= 1
  BY <1>0, <1>1 DEF TokenAged, NoToken
<1>2. CASE ~(t.ttl <= 1)
  <2>1. token'.left = Dec(t.left) /\ token'.alive = Dec(t.alive)
    BY <1>0, <1>2 DEF TokenAged
  <2> QED BY <1>0, <2>1 DEF Dec
<1> QED BY <1>1, <1>2

-----------------------------------------------------------------------------
(* Types: the steps together *)

LEMMA TypedInit == Init => PlanTyped
<1> SUFFICES ASSUME Init PROVE PlanTyped
  OBVIOUS
<1>0. RunsOK /\ \A x \in Executions : run[x] = Idle
  BY PagesInit DEF PagesInv, Init
<1>1. /\ Idle.pc = "idle" /\ Idle.left = 0 /\ Idle.timer = 0 /\ Idle.try = 0 /\ Idle.loops = 0 /\ Idle.cursor = 0
  BY DEF Idle
<1>2. RunsCounted
  BY <1>0, <1>1, ThePlan, Bounds DEF RunsCounted, Counted, Init
<1>3. AllRecorded
  BY DEF AllRecorded, Recorded, Final, Init
<1>4. StatsOK
  <2>1. Finished = {}
    BY <1>0, <1>1 DEF Finished
  <2> QED BY <2>1, FS_EmptySet DEF StatsOK, Init
<1>5. BucketsOK
  <2>1. DOMAIN window = Limits /\ DOMAIN block = Limits /\ \A l \in Limits : window[l] = <<>> /\ block[l] = 0
    BY DEF Init
  <2>2. \A l \in Limits : BucketOK(<<>>, plan.limits[l])
    <3> SUFFICES ASSUME NEW l \in Limits PROVE BucketOK(<<>>, plan.limits[l])
      OBVIOUS
    <3>1. plan.limits[l].requests \in Nat
      BY <1>0, LimitsAre
    <3>2. <<>> \in Seq(Nat) /\ Len(<<>>) = 0 /\ DOMAIN <<>> = {}
      OBVIOUS
    <3> QED BY <3>1, <3>2 DEF BucketOK
  <2> QED BY <2>1, <2>2 DEF BucketsOK
<1>6. SlotsTimed
  <2>1. \A l \in Limits : \A i \in DOMAIN slots[l] : slots[l][i] = Free
    BY DEF Init
  <2>2. Free.left <= SlotTTL
    BY Bounds DEF Free
  <2> QED BY <2>1, <2>2 DEF SlotsTimed
<1>7. token.alive <= token.left /\ faults \in 0..MaxFaults
  BY Bounds DEF Init, NoToken
<1> QED BY <1>2, <1>3, <1>4, <1>5, <1>6, <1>7 DEF PlanTyped

LEMMA TypedStep ==
  ASSUME PInv, PlanTyped, NEW x \in Executions, Step(x)
  PROVE  PlanTyped'
<1>0. /\ RunsOK /\ TokensOK /\ SlotsShape /\ RunsCounted /\ AllRecorded /\ StatsOK /\ BucketsOK /\ SlotsTimed
      /\ token.alive <= token.left /\ faults \in 0..MaxFaults
  BY DEF PInv, PlanTyped
<1>1. Frame(x) /\ plan' = plan
  BY StepFrame DEF Frame, plan
<1>2. RunsCounted'
  <2>1. Counted(run[x])'
    BY <1>0, CountedStep
  <2>2. \A y \in Executions : y # x => Counted(run[y])'
    BY <1>0, <1>1, OneMoves DEF Frame, RunsCounted, Counted
  <2>3. stored' = stored \/ stored' = run[x].cursor
    BY <1>1 DEF Frame, Save
  <2>4. stored' \in 0..plan'.pages
    BY <1>0, <1>1, <2>3 DEF RunsCounted, Counted
  <2> QED BY <2>1, <2>2, <2>4 DEF RunsCounted
<1>3. AllRecorded' /\ StatsOK'
  BY <1>0, RecordedStep, StatsStep
<1>4. BucketsOK' /\ SlotsTimed'
  BY <1>0, BucketsStep, SlotsTimedStep
<1>5. token'.alive <= token'.left
  BY <1>0, YoungStep
<1>6. faults' \in 0..MaxFaults
  BY <1>0, StepWrites, Bounds
<1> QED BY <1>2, <1>3, <1>4, <1>5, <1>6 DEF PlanTyped

LEMMA TypedTick ==
  ASSUME PInv, PlanTyped, Tick
  PROVE  PlanTyped'
<1>0. /\ RunsOK /\ TokensOK /\ SlotsShape /\ RunsCounted /\ AllRecorded /\ StatsOK /\ BucketsOK /\ SlotsTimed
      /\ token.alive <= token.left /\ faults \in 0..MaxFaults
  BY DEF PInv, PlanTyped
<1>1. UNCHANGED <<case, status, stored, stats, faults>> /\ plan' = plan
  BY DEF Tick, tables, plan
<1>2. RunsCounted'
  BY <1>0, <1>1, CountedTick DEF RunsCounted
<1>3. \A x \in Executions : run'[x].pc = run[x].pc /\ run'[x].result = run[x].result
  <2> SUFFICES ASSUME NEW x \in Executions PROVE run'[x].pc = run[x].pc /\ run'[x].result = run[x].result
    OBVIOUS
  <2>1. run'[x] = RunAged(run[x]) /\ DOMAIN run[x] = DOMAIN Idle
    BY <1>0 DEF Tick, RunsOK, RunOK
  <2> QED BY <2>1, Fields DEF RunAged
<1>4. AllRecorded'
  BY <1>0, <1>1, <1>3 DEF AllRecorded, Recorded
<1>5. StatsOK'
  <2>1. Finished' = Finished
    BY <1>3 DEF Finished
  <2> QED BY <1>0, <1>1, <2>1 DEF StatsOK
<1>6. BucketsOK' /\ SlotsTimed'
  BY <1>0, BucketsTick, SlotsTimedTick
<1>7. token'.alive <= token'.left
  BY <1>0, YoungTick
<1> QED BY <1>0, <1>1, <1>2, <1>4, <1>5, <1>6, <1>7 DEF PlanTyped

LEMMA TypedAlways == Spec => [](PInv /\ PlanTyped)
<1>1. Init => PInv /\ PlanTyped
  BY PagesInit, SlotsInit, TypedInit DEF PInv, PagesInv
<1>2. PInv /\ PlanTyped /\ [Next]_vars => (PInv /\ PlanTyped)'
  <2> SUFFICES ASSUME PInv, PlanTyped, [Next]_vars PROVE PInv' /\ PlanTyped'
    OBVIOUS
  <2>1. PInv'
    BY PagesStep, SlotsStep DEF PInv, PagesInv
  <2>2. CASE UNCHANGED vars
    <3>1. UNCHANGED <<case, status, stored, stats, token, window, slots, block, run, faults>>
          /\ plan' = plan /\ Limits' = Limits /\ Finished' = Finished
      BY <2>2 DEF vars, tables, redis, plan, Limits, Finished
    <3>2. RunsCounted' /\ AllRecorded'
      BY <3>1 DEF PlanTyped, RunsCounted, Counted, AllRecorded, Recorded
    <3>3. StatsOK' /\ BucketsOK' /\ SlotsTimed'
      BY <3>1 DEF PlanTyped, StatsOK, BucketsOK, SlotsTimed
    <3>4. token'.alive <= token'.left /\ faults' \in 0..MaxFaults
      BY <3>1 DEF PlanTyped
    <3> QED BY <2>1, <3>2, <3>3, <3>4 DEF PlanTyped
  <2>3. PlanTyped'
    BY <2>2, TypedStep, TypedTick DEF Next, Step
  <2> QED BY <2>1, <2>3
<1> QED BY <1>1, <1>2, PTL DEF Spec

\* Every variable has its type: the attempts, the loops and the entries of a bucket stay
\* within their limits, an execution is counted once at most, a final status is the result
\* that the execution had, and no slot has more time left than its TTL.
THEOREM PlanTypes == Spec => []TypeOK
<1>1. PInv /\ PlanTyped => TypeOK
  <2> SUFFICES ASSUME PInv, PlanTyped PROVE TypeOK
    OBVIOUS
  <2>1. stored \in 0..plan.pages
    BY DEF PlanTyped, RunsCounted
  <2>2. stats.success + stats.failure <= Cardinality(Executions)
    <3>1. Finished \subseteq Executions
      BY DEF Finished
    <3>2. /\ Cardinality(Finished) <= Cardinality(Executions) /\ Cardinality(Finished) \in Nat
          /\ Cardinality(Executions) \in Nat
      BY <3>1, ExecutionsAssumption, FS_Subset, FS_CardinalityType
    <3>3. stats.success \in Nat /\ stats.failure \in Nat /\ stats.success + stats.failure <= Cardinality(Finished)
      BY DEF PlanTyped, StatsOK
    <3> QED BY <3>2, <3>3
  <2>3. \A x \in Executions :
           /\ status[x] \in {"none", "pending", "running", "success", "failed", "aborted"}
           /\ status[x] \in {"success", "failed", "aborted"} => status[x] = run[x].result
    BY DEF PlanTyped, AllRecorded, Recorded, Final
  <2>4. \A x \in Executions :
           /\ run[x].cursor \in 0..plan.pages /\ run[x].try \in 0..MaxRetries /\ run[x].loops \in 0..MaxLoops
           /\ run[x].left \in 0..MaxRun /\ run[x].timer >= 0
    BY DEF PlanTyped, RunsCounted, Counted
  <2>5. \A l \in Limits : Len(window[l]) <= plan.limits[l].requests
    BY DEF PlanTyped, BucketsOK, BucketOK
  <2>6. \A l \in Limits : \A i \in DOMAIN slots[l] : slots[l][i].left \in 0..SlotTTL
    <3> SUFFICES ASSUME NEW l \in Limits, NEW i \in DOMAIN slots[l] PROVE slots[l][i].left \in 0..SlotTTL
      OBVIOUS
    <3>1. slots[l][i] \in [owner : {""} \union Executions, left : Nat]
      BY DEF PInv, SlotsShape
    <3>2. slots[l][i].left \in Nat
      BY <3>1
    <3> QED BY <3>2, Bounds DEF PlanTyped, SlotsTimed
  <2>7. token.alive <= token.left /\ faults \in 0..MaxFaults
    BY DEF PlanTyped
  <2> QED BY <2>1, <2>2, <2>3, <2>4, <2>5, <2>6, <2>7 DEF TypeOK
<1> QED BY <1>1, TypedAlways, PTL

=============================================================================
