---------------------------- MODULE ServiceProofs ----------------------------
(* The market side, for any number of servers, callers, slates and sessions.      *)
(* What a refresh and an analysis decide: decisions see the snapshot they were     *)
(* made for, no decision is stored twice, what is called fresh was asked for that   *)
(* recently, and what is shown rests on the newest state. And what overlapping      *)
(* fetches store: whole snapshots, each offer under its game, and doubt that stays. *)
(* How a board is priced: withdrawn prices are gone, the center is the books', a     *)
(* value is the best of the books', and what improves does not lose its class.       *)
EXTENDS MarketRefresh, MarketIngestion, Qualification, SumProofs

\* No two answers were stored at one time.
CompletedApart == \A x, y \in answers : x.completed = y.completed => x = y

\* Answers are numbered in the order they were stored, and none was asked of the
\* provider longer before its request than the cache may hold it.
AnswersSound ==
    /\ clock \in Nat
    /\ IsFiniteSet(answers)
    /\ \A x \in answers :
          /\ {x.requested, x.asked, x.completed} \subseteq Nat
          /\ x.completed <= clock /\ x.requested <= x.completed
          /\ x.requested - x.asked <= Lifetime
          /\ x.n \in 1..Cardinality(answers)
    /\ \A x, y \in answers : x.n = y.n => x = y

\* An entry is filed under the time at which it was asked for.
CacheSound ==
    /\ DOMAIN cache = Server
    /\ \A p \in Server :
          cache[p] = Nobody \/ (cache[p].at \in Nat /\ cache[p].asked = cache[p].at /\ cache[p].at <= clock)

\* A refresh decides as of the time its own snapshot was complete.
OwnSnapshot(asOf, own) == own = 0 \/ \E x \in answers : x.n = own /\ x.completed = asOf

\* What holds of a decision from the time it was made, at, on: its own snapshot is not
\* newer than the state it used, and, when no answer came in for its cutoff later, it
\* used the state of its cutoff.
Stands(d, own, at) ==
    /\ d.asOf \in Nat /\ at \in Nat /\ at <= clock
    /\ OwnSnapshot(d.asOf, own)
    /\ own # 0 => \E x, y \in answers : x.n = own /\ y.n = d.used /\ y.requested >= x.requested
    /\ CompletedApart /\ (own # 0 \/ d.asOf < at) => d.used = StateAt(d.asOf)

\* What a caller carries from one statement to the next.
CallSound(k) ==
    /\ k.pc = "request" => k.server \in Server /\ k.requested \in Nat /\ k.requested <= clock
    /\ k.pc = "store" =>
          /\ {k.requested, k.asked} \subseteq Nat /\ k.requested <= clock
          /\ k.requested - k.asked <= Lifetime
    /\ k.pc = "decide" => k.asOf \in Nat /\ OwnSnapshot(k.asOf, k.own)
    /\ k.pc = "insert" =>
          /\ k.decision = Content(k.decision) /\ k.decision.asOf = k.asOf
          /\ Stands(k.decision, k.own, k.read)

Calls == {caller[c] : c \in Caller}

RefreshSound ==
    /\ DOMAIN caller = Caller
    /\ AnswersSound /\ CacheSound
    /\ \A k \in Calls : CallSound(k)
    /\ \A r \in runs : Stands(r, r.own, r.at)
    /\ RunsAreDistinct

------------------------------------------------------------------------------
(* The newest state *)

\* The pairs of answers of which the first wins: newer by request, then by arrival.
Wins == {p \in answers \X answers :
            \/ p[1].requested > p[2].requested
            \/ p[1].requested = p[2].requested /\ p[1].n >= p[2].n}

\* The state at a cutoff is that of an answer no older than any it knows.
LEMMA NewestState ==
  ASSUME AnswersSound, NEW asOf, StoredBy(asOf) # {}
  PROVE  \E x \in StoredBy(asOf) :
            StateAt(asOf) = x.n /\ \A y \in StoredBy(asOf) : x.requested >= y.requested
<1> DEFINE S == StoredBy(asOf)
<1>1. S \subseteq answers /\ IsFiniteSet(S)
  BY FS_Subset DEF AnswersSound, StoredBy
<1>2. \A x \in answers : x.requested \in Nat /\ x.n \in Nat
  BY FS_CardinalityType DEF AnswersSound
<1>3. \A x, y \in S : <<x, y>> \in Wins \/ <<y, x>> \in Wins
  BY <1>1, <1>2 DEF Wins
<1>4. \A x, y, z \in S : <<x, y>> \in Wins /\ <<y, z>> \in Wins => <<x, z>> \in Wins
  BY <1>1, <1>2 DEF Wins
<1>5. \E x \in S : \A y \in S : <<x, y>> \in Wins
  <2> HIDE DEF S
  <2>1. S # {}
    BY DEF S
  <2> QED BY <1>1, <1>3, <1>4, <2>1, Greatest
<1> DEFINE Best(x) == \A y \in S :
              x.requested > y.requested \/ (x.requested = y.requested /\ x.n >= y.n)
<1>6. \E x \in S : Best(x)
  BY <1>5 DEF Wins
<1>7. PICK x \in S : x = (CHOOSE z \in S : Best(z)) /\ Best(x)
  BY <1>6
<1>8. StateAt(asOf) = x.n
  BY <1>7 DEF StateAt
<1>9. \A y \in S : x.requested >= y.requested
  BY <1>1, <1>2, <1>7
<1> QED BY <1>7, <1>8, <1>9

\* Numbers of answers are positive: no state is 0 but the one of a cutoff that knows none.
LEMMA NoState ==
  ASSUME NEW asOf, StateAt(asOf) # 0
  PROVE  StoredBy(asOf) # {}
BY DEF StateAt

------------------------------------------------------------------------------
(* Time passes and answers come in *)

\* An answer is stored: asked for earlier, complete now, and the last in number.
Arrival ==
    \E requested, asked \in Nat :
        /\ requested <= clock /\ requested - asked <= Lifetime
        /\ answers' = answers \cup
              {[requested |-> requested, asked |-> asked, completed |-> clock,
                n |-> Cardinality(answers) + 1]}

Onward ==
    /\ clock' \in Nat /\ clock <= clock'
    /\ UNCHANGED answers \/ Arrival

\* What is known of the answers outlives time and new answers.
LEMMA AnswersKept == AnswersSound /\ Onward => AnswersSound'
<1> SUFFICES ASSUME AnswersSound, Onward PROVE AnswersSound'
  OBVIOUS
<1> USE DEF AnswersSound, Onward
<1>1. CASE UNCHANGED answers
  BY <1>1
<1>2. CASE Arrival
  <2>1. PICK requested \in Nat, asked \in Nat :
          /\ requested <= clock /\ requested - asked <= Lifetime
          /\ answers' = answers \cup
                {[requested |-> requested, asked |-> asked, completed |-> clock,
                  n |-> Cardinality(answers) + 1]}
    BY <1>2 DEF Arrival
  <2> DEFINE new == [requested |-> requested, asked |-> asked, completed |-> clock,
                     n |-> Cardinality(answers) + 1]
  <2>2. Cardinality(answers) \in Nat
    BY FS_CardinalityType
  <2>3. new \notin answers
    BY <2>2
  <2>4. IsFiniteSet(answers') /\ Cardinality(answers') = Cardinality(answers) + 1
    BY <2>1, <2>3, FS_AddElement
  <2>5. \A x \in answers' : x \in answers \/ x = new
    BY <2>1
  <2>6. \A x \in answers' :
          /\ {x.requested, x.asked, x.completed} \subseteq Nat
          /\ x.completed <= clock' /\ x.requested <= x.completed
          /\ x.requested - x.asked <= Lifetime
          /\ x.n \in 1..Cardinality(answers')
    BY <2>1, <2>2, <2>4, <2>5
  <2>7. \A x, y \in answers' : x.n = y.n => x = y
    BY <2>2, <2>5
  <2> QED BY <2>4, <2>6, <2>7
<1> QED BY <1>1, <1>2

\* The state of a cutoff is the same after an answer that came in too late for it.
LEMMA StateKept ==
  ASSUME AnswersSound, Onward, NEW asOf \in Nat, NEW own, NEW at \in Nat, at <= clock,
         OwnSnapshot(asOf, own), CompletedApart', own # 0 \/ asOf < at
  PROVE  CompletedApart /\ StateAt(asOf)' = StateAt(asOf)
<1> USE DEF AnswersSound, Onward
<1>1. CASE UNCHANGED answers
  BY <1>1 DEF CompletedApart, StateAt, StoredBy
<1>2. CASE Arrival
  <2>1. PICK requested \in Nat, asked \in Nat :
          answers' = answers \cup
                {[requested |-> requested, asked |-> asked, completed |-> clock,
                  n |-> Cardinality(answers) + 1]}
    BY <1>2 DEF Arrival
  <2> DEFINE new == [requested |-> requested, asked |-> asked, completed |-> clock,
                     n |-> Cardinality(answers) + 1]
  <2>2. Cardinality(answers) \in Nat
    BY FS_CardinalityType
  <2>3. CompletedApart
    BY <2>1 DEF CompletedApart
  <2>4. ~(new.completed <= asOf)
    <3>1. CASE asOf < at
      BY <3>1
    <3>2. CASE own # 0
      <4>1. PICK x \in answers : x.n = own /\ x.completed = asOf
        BY <3>2 DEF OwnSnapshot
      <4>2. x # new
        BY <2>2, <4>1
      <4>3. x \in answers' /\ new \in answers' /\ x.completed # new.completed
        BY <2>1, <4>2 DEF CompletedApart
      <4> QED BY <4>1, <4>3
    <3> QED BY <3>1, <3>2
  <2>5. StoredBy(asOf)' = StoredBy(asOf)
    BY <2>1, <2>4 DEF StoredBy
  <2> QED BY <2>3, <2>5 DEF StateAt
<1> QED BY <1>1, <1>2

\* A decision stands, whatever is stored after it.
LEMMA StandsKept ==
  ASSUME AnswersSound, Onward, NEW d, NEW own, NEW at, Stands(d, own, at)
  PROVE  Stands(d, own, at)'
<1>1. answers \subseteq answers'
  BY DEF Onward, Arrival
<1>2. OwnSnapshot(d.asOf, own)'
  BY <1>1 DEF OwnSnapshot, Stands
<1>3. at <= clock'
  BY DEF Stands, Onward, AnswersSound
<1>4. CompletedApart' /\ (own # 0 \/ d.asOf < at) => d.used = StateAt(d.asOf)'
  BY StateKept DEF Stands
<1> QED
  BY <1>1, <1>2, <1>3, <1>4 DEF Stands

\* So is what a caller carries sound for as long as it carries it.
LEMMA CallKept ==
  ASSUME AnswersSound, Onward, NEW k, CallSound(k)
  PROVE  CallSound(k)'
<1>1. k.pc = "insert" => Stands(k.decision, k.own, k.read)'
  BY StandsKept DEF CallSound
<1>2. answers \subseteq answers' /\ \A n \in Nat : n <= clock => n <= clock'
  BY DEF Onward, Arrival, AnswersSound
<1>3. k.pc = "decide" => OwnSnapshot(k.asOf, k.own)'
  BY <1>2 DEF CallSound, OwnSnapshot
<1> QED BY <1>1, <1>2, <1>3 DEF CallSound, Content

\* A cache that is left alone stays sound as time passes.
LEMMA CacheKept == AnswersSound /\ Onward /\ CacheSound /\ UNCHANGED cache => CacheSound'
BY DEF Onward, AnswersSound, CacheSound

------------------------------------------------------------------------------
(* The steps *)

\* A step of one caller that decides nothing.
LEMMA OneCall ==
  ASSUME RefreshSound, Onward, NEW c \in Caller, NEW k, Advance(c, k), CallSound(k)',
         CacheSound', UNCHANGED runs
  PROVE  RefreshSound'
<1>1. AnswersSound'
  BY AnswersKept DEF RefreshSound
<1>2. DOMAIN caller' = Caller /\ Calls' \subseteq Calls \cup {k}
  BY DEF RefreshSound, Advance, Calls
<1>3. \A e \in Calls' : CallSound(e)'
  BY <1>2, CallKept DEF RefreshSound
<1>4. \A r \in runs' : Stands(r, r.own, r.at)'
  BY StandsKept DEF RefreshSound
<1>5. RunsAreDistinct'
  BY DEF RefreshSound, RunsAreDistinct, Content
<1> QED BY <1>1, <1>2, <1>3, <1>4, <1>5 DEF RefreshSound

\* A step that touches no answer, cache entry or run.
LEMMA OnlyCall ==
  ASSUME RefreshSound, NEW c \in Caller, NEW k, Advance(c, k), CallSound(k),
         UNCHANGED <<clock, answers, cache, runs>>
  PROVE  RefreshSound'
<1>1. Onward
  BY DEF RefreshSound, AnswersSound, Onward
<1>2. CacheSound' /\ CallSound(k)'
  BY <1>1, CacheKept, CallKept DEF RefreshSound
<1> QED BY <1>1, <1>2, OneCall

\* Nobody's call is sound: it carries nothing.
LEMMA RestingSound == CallSound(Resting) /\ CallSound(Resting)'
BY DEF CallSound, Resting

\* A request to the provider begins, or the cache answers it.
LEMMA AskKeeps ==
  ASSUME RefreshSound, NEW c \in Caller, NEW p \in Server, NEW kind, Ask(c, p, kind), Arrive(c)
  PROVE  RefreshSound'
<1>0. clock \in Nat /\ Lifetime \in Nat
  BY RefreshAssumption DEF RefreshSound, AnswersSound
<1>1. UNCHANGED <<clock, answers, cache, runs>>
  BY DEF Ask, Arrive
<1>2. CASE Usable(cache[p])
  <2>1. cache[p].asked \in Nat /\ clock - cache[p].asked <= Lifetime
    BY <1>0, <1>2 DEF Usable, RefreshSound, CacheSound
  <2>2. CallSound(Storing(p, kind, clock, cache[p].asked))
    BY <1>0, <2>1 DEF CallSound, Storing
  <2> QED BY <1>1, <1>2, <2>2, OnlyCall DEF Ask
<1>3. CASE ~Usable(cache[p])
  <2> DEFINE k == [pc |-> "request", server |-> p, kind |-> kind, requested |-> clock, attempt |-> 0]
  <2>1. CallSound(k)
    BY <1>0 DEF CallSound
  <2>2. Advance(c, k)
    BY <1>3 DEF Ask
  <2> HIDE DEF k
  <2> QED BY <1>1, <2>1, <2>2, OnlyCall
<1> QED BY <1>2, <1>3

\* The provider answers: the answer is cached under the time of its request.
LEMMA AnsweredKeeps ==
  ASSUME RefreshSound, NEW c \in Caller, Answered(c)
  PROVE  RefreshSound'
<1>1. PICK k : k = Storing(caller[c].server, caller[c].kind, caller[c].requested, caller[c].requested)
  OBVIOUS
<1>2. clock \in Nat /\ Lifetime \in Nat /\ Onward
  BY RefreshAssumption DEF RefreshSound, AnswersSound, Onward, Answered
<1>3. caller[c].server \in Server /\ caller[c].requested \in Nat /\ caller[c].requested <= clock
  BY DEF RefreshSound, CallSound, Calls, Answered
<1>4. CallSound(k)'
  BY <1>1, <1>2, <1>3, CallKept DEF CallSound, Storing, RefreshSound
<1>5. CacheSound'
  BY <1>2, <1>3 DEF CacheSound, RefreshSound, Answered
<1> QED BY <1>1, <1>2, <1>4, <1>5, OneCall DEF Answered

\* A retry keeps the time of the request.
LEMMA RetriedKeeps ==
  ASSUME RefreshSound, NEW c \in Caller, Retried(c)
  PROVE  RefreshSound'
<1>1. PICK k : k = [caller[c] EXCEPT !.attempt = @ + 1]
  OBVIOUS
<1>2. k.pc = "request" /\ k.server = caller[c].server /\ k.requested = caller[c].requested
  BY <1>1 DEF Retried
<1>3. CallSound(k)
  BY <1>2 DEF RefreshSound, CallSound, Calls, Retried
<1> QED BY <1>1, <1>3, OnlyCall DEF Retried

\* A request that ends leaves nothing to carry.
LEMMA LeaveKeeps ==
  ASSUME RefreshSound, NEW c \in Caller, Leave(c), UNCHANGED <<clock, answers, cache, runs>>
  PROVE  RefreshSound'
BY RestingSound, OnlyCall DEF Leave

\* An answer is stored, and a refresh decides as of this very moment.
LEMMA StoreKeeps ==
  ASSUME RefreshSound, NEW c \in Caller, Store(c)
  PROVE  RefreshSound'
<1> DEFINE own == Cardinality(answers) + 1
<1>1. /\ caller[c].requested \in Nat /\ caller[c].asked \in Nat /\ caller[c].requested <= clock
      /\ caller[c].requested - caller[c].asked <= Lifetime
  BY DEF RefreshSound, CallSound, Calls, Store
<1>2. PICK requested \in Nat, asked \in Nat : requested = caller[c].requested /\ asked = caller[c].asked
  BY <1>1
<1>3. answers' = answers \cup
          {[requested |-> requested, asked |-> asked, completed |-> clock, n |-> own]}
  BY <1>2 DEF Store, RequestedAt
<1>4. Onward
  <2>1. Arrival
    BY <1>1, <1>2, <1>3 DEF Arrival
  <2> QED BY <2>1 DEF Onward, RefreshSound, AnswersSound, Store
<1>5. CacheSound'
  BY <1>4, CacheKept DEF RefreshSound, Store
<1>6. CASE Leave(c)
  BY <1>4, <1>5, <1>6, RestingSound, OneCall DEF Leave, Store
<1>7. CASE ~Leave(c)
  <2>1. PICK slates : Advance(c, Deciding(caller[c].server, clock, slates, own))
    BY <1>7 DEF Store, CutoffOf
  <2>2. PICK k : k = Deciding(caller[c].server, clock, slates, own)
    OBVIOUS
  <2>3. k.pc = "decide" /\ k.asOf = clock /\ k.own = own /\ clock \in Nat
    BY <2>2 DEF Deciding, RefreshSound, AnswersSound
  <2>4. \E x \in answers' : x.n = k.own /\ x.completed = k.asOf
    <3> DEFINE x == [requested |-> requested, asked |-> asked, completed |-> clock, n |-> own]
    <3>1. x \in answers'
      BY <1>3
    <3>2. x.n = k.own /\ x.completed = k.asOf
      BY <2>3
    <3> QED BY <3>1, <3>2
  <2>5. CallSound(k)'
    BY <2>3, <2>4 DEF CallSound, OwnSnapshot
  <2> QED BY <1>4, <1>5, <2>1, <2>2, <2>5, OneCall DEF Store
<1> QED BY <1>6, <1>7

\* An analysis begins, at a cutoff of its choice.
LEMMA AnalysisKeeps ==
  ASSUME RefreshSound, NEW c \in Caller, NEW p, NEW s, NEW asOf \in Cutoffs, StartAnalysis(c, p, s, asOf)
  PROVE  RefreshSound'
<1>1. CallSound(Deciding(p, asOf, {s}, 0))
  BY RefreshAssumption DEF CallSound, Deciding, OwnSnapshot
<1> QED BY <1>1, OnlyCall DEF StartAnalysis, Arrive

\* A slate is done: the cutoff and the snapshot stay for the ones after it.
LEMMA DoneSound ==
  ASSUME RefreshSound, NEW c \in Caller, caller[c].pc \in {"decide", "insert"}, NEW s, Done(c, s)
  PROVE  \E k : Advance(c, k) /\ CallSound(k)
<1>1. caller[c].asOf \in Nat /\ OwnSnapshot(caller[c].asOf, caller[c].own)
  BY DEF RefreshSound, CallSound, Calls, Stands
<1>2. CallSound(Deciding(caller[c].server, caller[c].asOf, caller[c].todo \ {s}, caller[c].own))
  BY <1>1 DEF CallSound, Deciding
<1> QED BY <1>2, RestingSound DEF Done, Leave

\* A decision uses the newest state that was stored by its cutoff: its own snapshot or a
\* newer one.
LEMMA DecisionStands ==
  ASSUME RefreshSound, NEW c \in Caller, caller[c].pc = "decide", NEW s
  PROVE  Stands(DecisionFor(c, s), caller[c].own, clock)
<1> DEFINE asOf == caller[c].asOf
           own == caller[c].own
<1>1. asOf \in Nat /\ OwnSnapshot(asOf, own) /\ clock \in Nat /\ AnswersSound
  BY DEF RefreshSound, CallSound, Calls, AnswersSound
<1>2. ASSUME own # 0
      PROVE  \E x, y \in answers : x.n = own /\ y.n = StateAt(asOf) /\ y.requested >= x.requested
  <2>1. PICK x \in answers : x.n = own /\ x.completed = asOf
    BY <1>1, <1>2 DEF OwnSnapshot
  <2>2. x \in StoredBy(asOf)
    BY <1>1, <2>1 DEF StoredBy, AnswersSound
  <2>3. PICK y \in StoredBy(asOf) : StateAt(asOf) = y.n /\ y.requested >= x.requested
    BY <1>1, <2>2, NewestState
  <2> QED BY <2>1, <2>3 DEF StoredBy
<1> QED BY <1>1, <1>2 DEF Stands, DecisionFor

\* The decision of a slate is made, or was made before.
LEMMA DecideKeeps ==
  ASSUME RefreshSound, NEW c \in Caller, Decide(c)
  PROVE  RefreshSound'
<1> DEFINE s == Min(caller[c].todo)
<1>1. CASE Known(DecisionFor(c, s))
  BY <1>1, DoneSound, OnlyCall DEF Decide
<1>2. CASE ~Known(DecisionFor(c, s))
  <2> DEFINE k == [pc |-> "insert", server |-> caller[c].server, asOf |-> caller[c].asOf,
                   todo |-> caller[c].todo, own |-> caller[c].own,
                   decision |-> DecisionFor(c, s), read |-> clock]
  <2>1. Advance(c, k)
    BY <1>2 DEF Decide
  <2>2. Stands(DecisionFor(c, s), caller[c].own, clock)
    BY DecisionStands DEF Decide
  <2>3. DecisionFor(c, s) = Content(DecisionFor(c, s)) /\ DecisionFor(c, s).asOf = caller[c].asOf
    BY DEF DecisionFor, Content
  <2>4. CallSound(k)
    BY <2>2, <2>3 DEF CallSound
  <2> HIDE DEF k
  <2> QED BY <2>1, <2>4, OnlyCall DEF Decide
<1> QED BY <1>1, <1>2

\* A decision is inserted once: the second insert of a hash fails its request.
LEMMA InsertKeeps ==
  ASSUME RefreshSound, NEW c \in Caller, InsertRun(c)
  PROVE  RefreshSound'
<1> DEFINE d == caller[c].decision
<1>1. CASE Collides(d)
  BY <1>1, LeaveKeeps DEF InsertRun
<1>2. CASE ~Collides(d)
  <2>1. PICK r : r = [slate |-> d.slate, asOf |-> d.asOf, used |-> d.used, timing |-> d.timing,
                      at |-> caller[c].read, own |-> caller[c].own, n |-> Cardinality(runs) + 1]
    OBVIOUS
  <2>2. runs' = runs \cup {r} /\ Done(c, d.slate) /\ UNCHANGED <<clock, answers, cache>>
    BY <1>2, <2>1 DEF InsertRun
  <2>3. d = Content(d) /\ Stands(d, caller[c].own, caller[c].read)
    BY DEF RefreshSound, CallSound, Calls, InsertRun
  <2>4. Content(r) = d /\ Stands(r, r.own, r.at)
    BY <2>1, <2>3 DEF Content, Stands
  <2>5. \A q \in runs : Content(q) # d
    BY <1>2 DEF Collides, Known
  <2>6. PICK k : Advance(c, k) /\ CallSound(k)
    BY <2>2, DoneSound DEF InsertRun
  <2>7. Onward
    BY <2>2 DEF RefreshSound, AnswersSound, Onward
  <2>8. AnswersSound' /\ CacheSound'
    BY <2>2, <2>7, AnswersKept, CacheKept DEF RefreshSound
  <2>9. DOMAIN caller' = Caller /\ \A e \in Calls' : CallSound(e)'
    <3>1. Calls' \subseteq Calls \cup {k}
      BY <2>6 DEF RefreshSound, Advance, Calls
    <3> QED BY <2>6, <2>7, <3>1, CallKept DEF RefreshSound, Advance
  <2>10. \A q \in runs' : Stands(q, q.own, q.at)'
    BY <2>2, <2>4, <2>7, StandsKept DEF RefreshSound
  <2>11. RunsAreDistinct'
    <3>1. ASSUME NEW x \in runs', NEW y \in runs', Content(x) = Content(y) PROVE x = y
      BY <2>2, <2>4, <2>5, <3>1 DEF RefreshSound, RunsAreDistinct
    <3> QED BY <3>1 DEF RunsAreDistinct, Content
  <2> QED BY <2>8, <2>9, <2>10, <2>11 DEF RefreshSound
<1> QED BY <1>1, <1>2

\* Time passes.
LEMMA PassKeeps == RefreshSound /\ Pass => RefreshSound'
<1> SUFFICES ASSUME RefreshSound, Pass PROVE RefreshSound'
  OBVIOUS
<1>1. Onward
  BY DEF RefreshSound, AnswersSound, Pass, Onward
<1>2. AnswersSound' /\ CacheSound'
  BY <1>1, AnswersKept, CacheKept DEF RefreshSound, Pass
<1>3. DOMAIN caller' = Caller /\ \A e \in Calls' : CallSound(e)'
  BY <1>1, CallKept DEF RefreshSound, Pass, Calls
<1>4. \A q \in runs' : Stands(q, q.own, q.at)'
  BY <1>1, StandsKept DEF RefreshSound, Pass
<1>5. RunsAreDistinct'
  BY DEF RefreshSound, RunsAreDistinct, Content, Pass
<1> QED BY <1>2, <1>3, <1>4, <1>5 DEF RefreshSound

\* A server that restarts forgets its cache and the requests it served.
LEMMA RestartKeeps ==
  ASSUME RefreshSound, NEW p \in Server, Restart(p)
  PROVE  RefreshSound'
<1>1. Onward
  BY DEF RefreshSound, AnswersSound, Restart, Onward
<1>2. AnswersSound'
  BY <1>1, AnswersKept DEF RefreshSound
<1>3. CacheSound'
  BY DEF RefreshSound, CacheSound, Restart
<1>4. DOMAIN caller' = Caller /\ Calls' \subseteq Calls \cup {Resting}
  BY DEF RefreshSound, Restart, Calls
<1>5. \A e \in Calls' : CallSound(e)'
  BY <1>1, <1>4, CallKept, RestingSound DEF RefreshSound
<1>6. \A q \in runs' : Stands(q, q.own, q.at)'
  BY <1>1, StandsKept DEF RefreshSound, Restart
<1>7. RunsAreDistinct'
  BY DEF RefreshSound, RunsAreDistinct, Content, Restart
<1> QED BY <1>2, <1>3, <1>4, <1>5, <1>6, <1>7 DEF RefreshSound

\* Nothing is asked or decided at the start.
LEMMA RefreshSoundInit == RefreshInit => RefreshSound
<1> SUFFICES ASSUME RefreshInit PROVE RefreshSound
  OBVIOUS
<1>1. AnswersSound
  BY FS_EmptySet DEF RefreshInit, AnswersSound
<1>2. \A k \in Calls : CallSound(k)
  BY RestingSound DEF RefreshInit, Calls
<1> QED BY <1>1, <1>2 DEF RefreshInit, RefreshSound, CacheSound, RunsAreDistinct

\* Every step of a refresh or an analysis keeps the invariant.
LEMMA RefreshSoundStep == RefreshSound /\ [RefreshNext]_refreshVars => RefreshSound'
<1> SUFFICES ASSUME RefreshSound, [RefreshNext]_refreshVars PROVE RefreshSound'
  OBVIOUS
<1>1. ASSUME NEW c \in Caller, NEW p \in Server, StartRefresh(c, p) \/ ReadOdds(c, p)
      PROVE  RefreshSound'
  BY <1>1, AskKeeps DEF StartRefresh, ReadOdds
<1>2. ASSUME NEW c \in Caller, Serve(c) PROVE RefreshSound'
  <2>1. CASE Refused(c)
    BY <2>1, LeaveKeeps DEF Refused
  <2>2. CASE Abandon(c)
    BY <2>2, LeaveKeeps DEF Abandon
  <2> QED BY <1>2, <2>1, <2>2, AnsweredKeeps, RetriedKeeps, StoreKeeps, DecideKeeps, InsertKeeps
          DEF Serve
<1>3. CASE UNCHANGED refreshVars
  <2>1. Onward
    BY <1>3 DEF refreshVars, RefreshSound, AnswersSound, Onward
  <2>2. AnswersSound' /\ CacheSound'
    BY <1>3, <2>1, AnswersKept, CacheKept DEF RefreshSound, refreshVars
  <2>3. DOMAIN caller' = Caller /\ \A e \in Calls' : CallSound(e)'
    BY <1>3, <2>1, CallKept DEF RefreshSound, refreshVars, Calls
  <2>4. \A q \in runs' : Stands(q, q.own, q.at)'
    BY <1>3, <2>1, StandsKept DEF RefreshSound, refreshVars
  <2>5. RunsAreDistinct'
    BY <1>3 DEF RefreshSound, RunsAreDistinct, Content, refreshVars
  <2> QED BY <2>2, <2>3, <2>4, <2>5 DEF RefreshSound
<1> QED
  BY <1>1, <1>2, <1>3, PassKeeps, AnalysisKeeps, RestartKeeps DEF RefreshNext

\* The invariant holds in every behaviour.
LEMMA RefreshStaysSound == RefreshSpec => []RefreshSound
BY RefreshSoundInit, RefreshSoundStep, PTL DEF RefreshSpec

------------------------------------------------------------------------------
(* What follows *)

\* A refresh decides with the prices it has just stored or newer ones, and no decision
\* is stored twice, however many servers decide at once (MarketRefreshService.refresh,
\* persist_decision).
THEOREM RefreshDecidesSoundly == RefreshSpec => []DecisionsSound
<1>1. RefreshSound => DecisionsSound
  BY DEF RefreshSound, DecisionsSound, DecisionsSeeTheirSnapshot, Stands
<1> QED BY <1>1, RefreshStaysSound, PTL

\* What is reported as fresh was asked of the provider at most the freshness and the
\* lifetime of a cache entry ago (DashboardService.system, fetch_current_odds).
THEOREM FreshWasAskedRecently == RefreshSpec => []FreshMeansRecent
<1>1. ASSUME RefreshSound, MarketStatus = "FRESH"
      PROVE  \E x \in answers : x.requested = LastSuccess /\ clock - x.asked <= Freshness + Lifetime
  <2> DEFINE R == {x.requested : x \in answers}
  <2>1. answers # {} /\ ~(clock - LastSuccess > Freshness)
    BY <1>1 DEF MarketStatus
  <2>2. R \in SUBSET Int /\ R # {} /\ IsFiniteSet(answers)
    BY <1>1, <2>1 DEF RefreshSound, AnswersSound
  <2>3. IsFiniteSet(R)
    <3> DEFINE f == [x \in answers |-> x.requested]
    <3>1. f \in Surjection(answers, R)
      BY DEF Surjection
    <3> HIDE DEF f, R
    <3> QED BY <2>2, <3>1, FS_Surjection
  <2>4. Max(R) \in R
    <3> HIDE DEF R
    <3> QED BY <2>2, <2>3, MaxIs
  <2>5. PICK x \in answers : x.requested = LastSuccess
    BY <2>4 DEF LastSuccess
  <2>6. clock \in Nat /\ x.requested \in Nat /\ x.asked \in Nat /\ x.requested - x.asked <= Lifetime
    BY <1>1 DEF RefreshSound, AnswersSound
  <2>7. Freshness \in Nat /\ Lifetime \in Nat
    BY RefreshAssumption
  <2>8. clock - x.asked <= Freshness + Lifetime
    BY <2>1, <2>5, <2>6, <2>7
  <2> QED BY <2>5, <2>8
<1>2. RefreshSound => FreshMeansRecent
  BY <1>1 DEF FreshMeansRecent
<1> QED BY <1>2, RefreshStaysSound, PTL

\* As long as nobody analysed a slate for a cutoff still to come, what is shown for it
\* rests on the newest market state any decision on it used, whatever was replayed
\* meanwhile (list_recommendations, list_watchlist).
THEOREM ShownIsNewest == RefreshSpec => []ShownUsesNewestState
<1>1. ASSUME RefreshSound, CompletedApart, NEW s,
             \A r \in runs : r.slate = s => r.own # 0 \/ r.asOf < r.at,
             NEW r \in runs, NEW shown \in Shown(s), r.slate = s, r.used # 0
      PROVE  \E x, y \in answers : x.n = r.used /\ y.n = shown.used /\ y.requested >= x.requested
  <2>1. shown \in runs /\ shown.slate = s /\ shown.asOf >= r.asOf
    BY <1>1 DEF Shown
  <2>2. r.used = StateAt(r.asOf) /\ shown.used = StateAt(shown.asOf)
    BY <1>1, <2>1 DEF RefreshSound, Stands
  <2>3. r.asOf \in Nat /\ shown.asOf \in Nat /\ AnswersSound
    BY <1>1, <2>1 DEF RefreshSound, Stands
  <2>4. PICK x \in StoredBy(r.asOf) : r.used = x.n
    BY <1>1, <2>2, <2>3, NoState, NewestState
  <2>5. x \in StoredBy(shown.asOf)
    BY <2>1, <2>3, <2>4 DEF StoredBy, AnswersSound
  <2>6. PICK y \in StoredBy(shown.asOf) : shown.used = y.n /\ y.requested >= x.requested
    BY <2>2, <2>3, <2>5, NewestState
  <2> QED BY <2>4, <2>6 DEF StoredBy
<1>2. RefreshSound => ShownUsesNewestState
  BY <1>1 DEF ShownUsesNewestState, CompletedApart
<1> QED BY <1>2, RefreshStaysSound, PTL

------------------------------------------------------------------------------
(* Ingestion: what an open transaction has read, found and gathered, and what the  *)
(* rows it will commit must not collide with.                                       *)

Statuses == {"matched", "needs_review", "conflict"}
Resolved(s) == txn[s].at \in {"offer", "findbook", "addbook", "addident"}
InBook(s) == txn[s].at \in {"findbook", "addbook", "addident"}

\* A transaction works on one of the games it fetched.
TxnTyped(s) ==
    /\ txn[s].at \in {"select", "flush"} \/ Resolved(s)
    /\ txn[s].call \in 1..calls /\ txn[s].fetch \in Fetch
    /\ txn[s].game \in 1..(Len(txn[s].fetch) + 1)
    /\ txn[s].at # "select" => txn[s].game <= Len(txn[s].fetch) /\ Game(s).valid
    /\ txn[s].offer \in Nat \ {0}
    /\ InBook(s) => txn[s].offer <= Len(Game(s).offers)
    /\ txn[s].status \in Statuses
    /\ \A e \in DOMAIN txn[s].events : txn[s].events[e].status \in Statuses
    /\ txn[s].known \subseteq DOMAIN events /\ txn[s].touched \subseteq DOMAIN events
    /\ txn[s].marks \subseteq txn[s].touched

\* Its events are named after it and the games it is done with.
OwnEvents(s) ==
    \A e \in DOMAIN txn[s].events :
        \E g \in 1..txn[s].game : e = <<txn[s].call, g>> /\ (Resolved(s) \/ g # txn[s].game)

\* Committed events it knew that share an id with an event of its own: another game, and
\* neither is trusted.
Wary(s) ==
    \A f \in DOMAIN txn[s].events, e \in txn[s].known :
        events[e].pid = txn[s].events[f].pid /\ events[e].pid # NoId =>
            /\ events[e].identity # txn[s].events[f].identity
            /\ txn[s].events[f].status = "conflict" /\ e \in txn[s].marks

\* What was resolved and waits to be flushed: an event of the same game, or a new one
\* that doubts every event of its id.
Reused(s) ==
    /\ txn[s].event \in DOMAIN Visible(s) /\ Visible(s)[txn[s].event].identity = Game(s).identity
    /\ txn[s].updates \subseteq DOMAIN Visible(s)

Proposed(s) ==
    /\ txn[s].event = <<txn[s].call, txn[s].game>>
    /\ txn[s].updates \subseteq DOMAIN Visible(s)
    /\ \A e \in txn[s].known : events[e].pid = Game(s).pid /\ events[e].pid # NoId =>
          events[e].identity # Game(s).identity /\ txn[s].status = "conflict" /\ e \in txn[s].updates

EventFound(s) ==
    /\ txn[s].at = "flush" => Reused(s) \/ Proposed(s)
    /\ Resolved(s) => txn[s].event \in DOMAIN Visible(s)
                        /\ Visible(s)[txn[s].event].identity = Game(s).identity

\* The offers it has gone through.
Covered(s, i, j) == i < txn[s].game \/ (i = txn[s].game /\ Resolved(s) /\ j < txn[s].offer)

RecordedAs(s, o, i, j) ==
    <<Visible(s)[o.event].identity, o.key, o.side>> = OfferAt(txn[s].fetch, i, j)

\* Its observations are the valid offers so far, each once.
Gathered(s) ==
    /\ \A o \in txn[s].obs :
          /\ o.snapshot = txn[s].call /\ o.event \in DOMAIN Visible(s)
          /\ \E i \in DOMAIN txn[s].fetch : \E j \in ValidOffers(txn[s].fetch[i]) :
                Covered(s, i, j) /\ RecordedAs(s, o, i, j)
    /\ \A i \in DOMAIN txn[s].fetch : \A j \in ValidOffers(txn[s].fetch[i]) :
          Covered(s, i, j) => \E o \in txn[s].obs : RecordedAs(s, o, i, j)
    /\ \A o, p \in txn[s].obs : o.event = p.event /\ o.key = p.key /\ o.side = p.side => o = p

BookKeys == {r.key : r \in books}
Names == {i.ident : i \in idents}

\* Its books and names are new, and each name has its book.
Shelved(s) ==
    /\ txn[s].books \cap BookKeys = {} /\ txn[s].idents \cap Names = {}
    /\ \A i \in txn[s].idents : Canonical[i] \in txn[s].books \cup BookKeys
    /\ txn[s].at = "addident" => Canonical[Offer(s).ident] \in txn[s].books \cup BookKeys

\* Nothing of it is committed.
Uncommitted(s) ==
    /\ \A e \in DOMAIN events : e[1] # txn[s].call
    /\ \A n \in snapshots : n.id # txn[s].call
    /\ \A o \in observations : o.snapshot # txn[s].call

TxnSound(s) ==
    /\ TxnTyped(s) /\ OwnEvents(s) /\ Wary(s) /\ EventFound(s) /\ Gathered(s)
    /\ Shelved(s) /\ Uncommitted(s)

\* Two transactions share no number, no new book and no new name.
Separate(s, t) ==
    /\ txn[s].call # txn[t].call
    /\ txn[s].books \cap txn[t].books = {} /\ txn[s].idents \cap txn[t].idents = {}

RowsSound ==
    /\ calls \in 0..MaxCalls
    /\ DOMAIN events \subseteq (1..calls) \X Nat
    /\ \A e \in DOMAIN events : events[e].status \in Statuses /\ events[e].known \subseteq DOMAIN events
    /\ \A n \in snapshots : n.id \in 1..calls
    /\ \A o \in observations : o.event \in DOMAIN events
    /\ \A i \in idents : i.key = Canonical[i.ident]
    /\ AmbiguityOnlyByOverlap /\ SnapshotsWhole /\ OnePricePerIdentity /\ OneRowPerBook

IngestSound ==
    /\ DOMAIN txn = Session
    /\ RowsSound
    /\ \A s \in Session : Active(s) => TxnSound(s)
    /\ \A s, t \in Session : Active(s) /\ Active(t) /\ s # t => Separate(s, t)

------------------------------------------------------------------------------
(* What stays *)

\* The transaction of another session is as sound after the step as before.
LEMMA OthersStand ==
  ASSUME NEW t, TxnSound(t), txn'[t] = txn[t], UNCHANGED tables,
         calls \in Nat, calls' \in Nat, calls <= calls'
  PROVE  TxnSound(t)'
<1>0. Game(t)' = Game(t) /\ Visible(t)' = Visible(t) /\ (Resolved(t)' <=> Resolved(t))
  BY DEF Game, Visible, Resolved, tables
<1>1. Offer(t)' = Offer(t) /\ BookKeys' = BookKeys /\ Names' = Names
  BY <1>0 DEF Offer, BookKeys, Names, tables
<1>2. TxnTyped(t)' /\ OwnEvents(t)'
  BY <1>0, <1>1 DEF TxnSound, TxnTyped, OwnEvents, InBook, tables
<1>3. Wary(t)' /\ EventFound(t)'
  BY <1>0 DEF TxnSound, Wary, EventFound, Reused, Proposed, tables
<1>4. Gathered(t)'
  BY <1>0 DEF TxnSound, Gathered, Covered, RecordedAs, tables
<1>5. Shelved(t)' /\ Uncommitted(t)'
  BY <1>0, <1>1 DEF TxnSound, Shelved, Uncommitted, tables
<1> QED BY <1>2, <1>3, <1>4, <1>5 DEF TxnSound

\* Committed rows stay sound while nothing is committed.
LEMMA RowsStand ==
  ASSUME RowsSound, UNCHANGED tables, calls' \in 0..MaxCalls, calls <= calls'
  PROVE  RowsSound'
<1>0. calls \in Nat /\ MaxCalls \in Nat /\ 1..calls \subseteq 1..calls'
  BY IngestAssumption DEF RowsSound
<1>1. AmbiguityOnlyByOverlap' /\ SnapshotsWhole' /\ OnePricePerIdentity' /\ OneRowPerBook'
  BY DEF RowsSound, AmbiguityOnlyByOverlap, SnapshotsWhole, Recorded, OnePricePerIdentity,
     OneRowPerBook, tables
<1> QED BY <1>0, <1>1 DEF RowsSound, tables

\* A transaction that goes on with its number, books and names keeps everything sound.
LEMMA GoesOn ==
  ASSUME IngestSound, NEW s \in Session, Active(s), NEW k, Continue(s, k),
         k.call = txn[s].call, k.books = txn[s].books, k.idents = txn[s].idents, TxnSound(s)'
  PROVE  IngestSound'
<1>1. /\ UNCHANGED <<tables, calls>>
      /\ txn'[s] = k /\ DOMAIN txn' = Session /\ \A t \in Session \ {s} : txn'[t] = txn[t]
      /\ calls \in Nat /\ MaxCalls \in Nat
  BY IngestAssumption DEF Continue, IngestSound, RowsSound
<1>2. RowsSound'
  BY <1>1, RowsStand DEF IngestSound, RowsSound
<1>3. \A t \in Session : Active(t)' => TxnSound(t)'
  BY <1>1, OthersStand DEF IngestSound, Active
<1>4. \A t, u \in Session : Active(t)' /\ Active(u)' /\ t # u => Separate(t, u)'
  <2> SUFFICES ASSUME NEW t \in Session, NEW u \in Session, Active(t)', Active(u)', t # u
               PROVE  Separate(t, u)'
    OBVIOUS
  <2>1. Active(t) /\ Active(u) /\ Separate(t, u)
    BY <1>1 DEF IngestSound, Active
  <2> QED BY <1>1, <2>1 DEF Separate
<1> QED BY <1>1, <1>2, <1>3, <1>4 DEF IngestSound

\* A transaction that is rolled back leaves nothing.
LEMMA RollbackKeeps ==
  ASSUME IngestSound, NEW s \in Session, Rollback(s)
  PROVE  IngestSound'
<1>1. /\ UNCHANGED <<tables, calls>>
      /\ ~Active(s)' /\ DOMAIN txn' = Session /\ \A t \in Session \ {s} : txn'[t] = txn[t]
      /\ calls \in Nat /\ MaxCalls \in Nat
  BY IngestAssumption DEF Rollback, Continue, IngestSound, RowsSound, Active
<1>2. RowsSound'
  BY <1>1, RowsStand DEF IngestSound, RowsSound
<1>3. \A t \in Session : Active(t)' => TxnSound(t)'
  BY <1>1, OthersStand DEF IngestSound, Active
<1>4. \A t, u \in Session : Active(t)' /\ Active(u)' /\ t # u => Separate(t, u)'
  BY <1>1 DEF IngestSound, Active, Separate
<1> QED BY <1>1, <1>2, <1>3, <1>4 DEF IngestSound

\* A fetch is a sequence of games and their offers.
LEMMA FetchShape ==
  ASSUME NEW f \in Fetch
  PROVE  /\ Len(f) \in Nat /\ DOMAIN f = 1..Len(f)
         /\ \A i \in DOMAIN f : Len(f[i].offers) \in Nat /\ DOMAIN f[i].offers = 1..Len(f[i].offers)
BY IngestAssumption

------------------------------------------------------------------------------
(* The steps of one transaction *)

\* A transaction that begins has nothing yet.
LEMMA BeginKeeps ==
  ASSUME IngestSound, NEW s \in Session, NEW f \in Fetch, Begin(s, f)
  PROVE  IngestSound'
<1>1. /\ UNCHANGED tables /\ calls' = calls + 1 /\ calls \in Nat /\ calls' \in 0..MaxCalls
      /\ DOMAIN txn' = Session /\ \A t \in Session \ {s} : txn'[t] = txn[t]
  BY IngestAssumption DEF Begin, IngestSound, RowsSound
<1>2. /\ txn'[s].at = "select" /\ txn'[s].call = calls + 1 /\ txn'[s].fetch = f /\ txn'[s].game = 1
      /\ txn'[s].offer = 1 /\ txn'[s].status = "matched" /\ txn'[s].events = <<>>
      /\ txn'[s].marks = {} /\ txn'[s].touched = {} /\ txn'[s].books = {} /\ txn'[s].idents = {}
      /\ txn'[s].obs = {} /\ txn'[s].known = DOMAIN events
  BY DEF Begin, IngestSound
<1>3. RowsSound'
  BY <1>1, RowsStand DEF IngestSound, RowsSound
<1>4. TxnSound(s)'
  <2>1. TxnTyped(s)'
    BY <1>1, <1>2, FetchShape DEF TxnTyped, Resolved, InBook, Statuses, tables
  <2>2. OwnEvents(s)' /\ Wary(s)' /\ EventFound(s)'
    BY <1>2 DEF OwnEvents, Wary, EventFound, Resolved
  <2>3. Gathered(s)'
    BY <1>1, <1>2, FetchShape DEF Gathered, Covered, Resolved
  <2>4. Shelved(s)'
    BY <1>2 DEF Shelved
  <2>5. Uncommitted(s)'
    <3>1. \A e \in DOMAIN events : e[1] \in 1..calls
      BY DEF IngestSound, RowsSound
    <3>2. \A o \in observations : o.snapshot \in 1..calls
      BY DEF IngestSound, RowsSound, SnapshotsWhole
    <3> QED BY <1>1, <1>2, <3>1, <3>2 DEF Uncommitted, IngestSound, RowsSound, tables
  <2> QED BY <2>1, <2>2, <2>3, <2>4, <2>5 DEF TxnSound
<1>5. \A t \in Session : Active(t)' => TxnSound(t)'
  BY <1>1, <1>4, OthersStand DEF IngestSound, Active
<1>6. \A t, u \in Session : Active(t)' /\ Active(u)' /\ t # u => Separate(t, u)'
  <2>1. ASSUME NEW t \in Session \ {s}, Active(t) PROVE txn[t].call \in 1..calls
    BY <2>1 DEF IngestSound, TxnSound, TxnTyped
  <2>2. ASSUME NEW t \in Session \ {s}, Active(t) PROVE Separate(s, t)' /\ Separate(t, s)'
    BY <1>1, <1>2, <2>1, <2>2 DEF Separate
  <2>3. ASSUME NEW t \in Session \ {s}, NEW u \in Session \ {s}, Active(t)', Active(u)', t # u
        PROVE  Separate(t, u)'
    BY <1>1, <2>3 DEF IngestSound, Active, Separate
  <2> QED BY <1>1, <2>2, <2>3 DEF Active
<1> QED BY <1>1, <1>3, <1>5, <1>6 DEF IngestSound

\* A malformed game offers nothing.
LEMMA SkipKeeps ==
  ASSUME IngestSound, NEW s \in Session, SkipGame(s)
  PROVE  IngestSound'
<1>1. PICK k : k = [txn[s] EXCEPT !.game = @ + 1, !.warned = TRUE]
  OBVIOUS
<1>2. Active(s) /\ TxnSound(s) /\ Continue(s, k) /\ txn[s].at = "select" /\ txn'[s] = k
  BY <1>1 DEF SkipGame, At, IngestSound, Continue
<1>3. /\ k.at = "select" /\ k.call = txn[s].call /\ k.fetch = txn[s].fetch /\ k.game = txn[s].game + 1
      /\ k.offer = txn[s].offer /\ k.status = txn[s].status /\ k.events = txn[s].events
      /\ k.marks = txn[s].marks /\ k.touched = txn[s].touched /\ k.books = txn[s].books
      /\ k.idents = txn[s].idents /\ k.obs = txn[s].obs /\ k.known = txn[s].known
  BY <1>1, <1>2
<1>4. UNCHANGED <<tables, calls>>
  BY <1>2 DEF Continue
<1>5. txn[s].game \in 1..Len(txn[s].fetch) /\ Len(txn[s].fetch) \in Nat /\ ~Game(s).valid
      /\ DOMAIN txn[s].fetch = 1..Len(txn[s].fetch)
  BY <1>2, FetchShape DEF SkipGame, TxnSound, TxnTyped
<1>6. TxnTyped(s)' /\ OwnEvents(s)' /\ Wary(s)' /\ EventFound(s)'
  <2>1. TxnTyped(s)'
    BY <1>2, <1>3, <1>4, <1>5 DEF TxnSound, TxnTyped, Resolved, InBook, tables
  <2>2. OwnEvents(s)'
    BY <1>2, <1>3, <1>4, <1>5 DEF TxnSound, TxnTyped, OwnEvents, Resolved
  <2>3. Wary(s)'
    BY <1>2, <1>3, <1>4, <1>5 DEF TxnSound, Wary, tables
  <2>4. EventFound(s)'
    BY <1>2, <1>3, <1>4, <1>5 DEF TxnSound, EventFound, Resolved
  <2> QED BY <2>1, <2>2, <2>3, <2>4
<1>7. Gathered(s)'
  <2>1. \A e : Visible(s)'[e] = Visible(s)[e] /\ DOMAIN Visible(s)' = DOMAIN Visible(s)
    BY <1>2, <1>3, <1>4 DEF Visible, tables
  <2>2. \A i \in DOMAIN txn[s].fetch : \A j \in ValidOffers(txn[s].fetch[i]) :
            Covered(s, i, j)' <=> Covered(s, i, j)
    BY <1>2, <1>3, <1>5 DEF Covered, Resolved, ValidOffers, Game
  <2> QED BY <1>2, <1>3, <2>1, <2>2 DEF TxnSound, Gathered, RecordedAs
<1>8. Shelved(s)' /\ Uncommitted(s)'
  BY <1>2, <1>3, <1>4 DEF TxnSound, Shelved, Uncommitted, BookKeys, Names, tables
<1> QED BY <1>2, <1>3, <1>6, <1>7, <1>8, GoesOn DEF TxnSound

\* A step that resolves the event of the game, and nothing else.
LEMMA ResolveKeeps ==
  ASSUME IngestSound, NEW s \in Session, At(s, "select"), txn[s].game <= Len(txn[s].fetch), Game(s).valid,
         NEW event, NEW status \in Statuses, NEW updates,
         Continue(s, [txn[s] EXCEPT !.at = "flush", !.event = event, !.status = status, !.updates = updates]),
         updates \subseteq DOMAIN Visible(s),
         \/ event \in DOMAIN Visible(s) /\ Visible(s)[event].identity = Game(s).identity
         \/ /\ event = <<txn[s].call, txn[s].game>>
            /\ \A e \in txn[s].known : events[e].pid = Game(s).pid /\ events[e].pid # NoId =>
                  events[e].identity # Game(s).identity /\ status = "conflict" /\ e \in updates
  PROVE  IngestSound'
<1>1. PICK k : k = [txn[s] EXCEPT !.at = "flush", !.event = event, !.status = status, !.updates = updates]
  OBVIOUS
<1>2. Active(s) /\ TxnSound(s) /\ Continue(s, k) /\ txn[s].at = "select" /\ txn'[s] = k
  BY <1>1 DEF At, IngestSound, Continue
<1>3. /\ k.at = "flush" /\ k.call = txn[s].call /\ k.fetch = txn[s].fetch /\ k.game = txn[s].game
      /\ k.offer = txn[s].offer /\ k.status = status /\ k.events = txn[s].events /\ k.event = event
      /\ k.updates = updates
      /\ k.marks = txn[s].marks /\ k.touched = txn[s].touched /\ k.books = txn[s].books
      /\ k.idents = txn[s].idents /\ k.obs = txn[s].obs /\ k.known = txn[s].known
  BY <1>1, <1>2
<1>4. UNCHANGED <<tables, calls>>
  BY <1>2 DEF Continue
<1>5. Game(s)' = Game(s) /\ Visible(s)' = Visible(s)
  BY <1>2, <1>3, <1>4 DEF Game, Visible, tables
<1>6. TxnTyped(s)' /\ OwnEvents(s)' /\ Wary(s)'
  BY <1>2, <1>3, <1>4, <1>5 DEF TxnSound, TxnTyped, OwnEvents, Wary, Resolved, InBook, tables
<1>7. EventFound(s)'
  BY <1>2, <1>3, <1>4, <1>5 DEF TxnSound, EventFound, Reused, Proposed, Resolved, tables
<1>8. Gathered(s)'
  BY <1>2, <1>3, <1>4, <1>5 DEF TxnSound, Gathered, RecordedAs, Covered, Resolved
<1>9. Shelved(s)' /\ Uncommitted(s)'
  BY <1>2, <1>3, <1>4 DEF TxnSound, Shelved, Uncommitted, BookKeys, Names, tables
<1> QED BY <1>2, <1>3, <1>6, <1>7, <1>8, <1>9, GoesOn DEF TxnSound

\* Committed rows it knew, and rows of its own, are visible to a transaction.
LEMMA VisibleRows ==
  ASSUME IngestSound, NEW s \in Session, Active(s)
  PROVE  /\ DOMAIN Visible(s) = DOMAIN events \cup DOMAIN txn[s].events
         /\ DOMAIN events \cap DOMAIN txn[s].events = {}
         /\ \A e \in DOMAIN events : Visible(s)[e] = events[e]
         /\ \A e \in DOMAIN txn[s].events : Visible(s)[e] = txn[s].events[e]
         /\ txn[s].known \subseteq DOMAIN events
         /\ \A e \in DOMAIN Visible(s) : Visible(s)[e].status \in Statuses
<1>1. \A e \in DOMAIN txn[s].events : e[1] = txn[s].call
  BY DEF IngestSound, TxnSound, OwnEvents
<1>2. DOMAIN events \cap DOMAIN txn[s].events = {}
  BY <1>1 DEF IngestSound, TxnSound, Uncommitted
<1> QED BY <1>2 DEF Visible, IngestSound, RowsSound, TxnSound, TxnTyped

\* The event of the game is there already.
LEMMA ReuseKeeps ==
  ASSUME IngestSound, NEW s \in Session, Reuse(s)
  PROVE  IngestSound'
<1>1. Active(s)
  BY DEF Reuse, At
<1>2. PICK e \in Candidates(s) :
          /\ SameEvent(s, e)
          /\ Continue(s, [txn[s] EXCEPT !.at = "flush", !.event = e,
                             !.status = Visible(s)[e].status, !.updates = {e}])
  BY DEF Reuse
<1>3. e \in DOMAIN Visible(s) /\ Visible(s)[e].identity = Game(s).identity
      /\ Visible(s)[e].status \in Statuses
  BY <1>1, <1>2, VisibleRows DEF Candidates, SameEvent
<1>4. PICK status \in Statuses : status = Visible(s)[e].status
  BY <1>3
<1>5. PICK updates : updates = {e}
  OBVIOUS
<1> QED BY <1>2, <1>3, <1>4, <1>5, ResolveKeeps DEF Reuse

\* A new event is in conflict with every event of its id that is visible.
LEMMA ProposeKeeps ==
  ASSUME IngestSound, NEW s \in Session, Propose(s)
  PROVE  IngestSound'
<1>1. Active(s)
  BY DEF Propose, At
<1>2. PICK event : event = <<txn[s].call, txn[s].game>>
  OBVIOUS
<1>3. PICK status \in Statuses :
          status = IF Candidates(s) # {} THEN "conflict"
                   ELSE IF Game(s).pid # NoId THEN "matched" ELSE "needs_review"
  BY DEF Statuses
<1>4. PICK updates : updates = Candidates(s)
  OBVIOUS
<1>5. Continue(s, [txn[s] EXCEPT !.at = "flush", !.event = event, !.status = status, !.updates = updates])
  BY <1>2, <1>3, <1>4 DEF Propose
<1>6. updates \subseteq DOMAIN Visible(s)
  BY <1>4 DEF Candidates
<1>7. ASSUME NEW e \in txn[s].known, events[e].pid = Game(s).pid, events[e].pid # NoId
      PROVE  events[e].identity # Game(s).identity /\ status = "conflict" /\ e \in updates
  <2>1. e \in Candidates(s) /\ Visible(s)[e] = events[e]
    BY <1>1, <1>7, VisibleRows DEF Candidates
  <2> QED BY <1>3, <1>4, <2>1 DEF Propose, SameEvent
<1> QED BY <1>2, <1>5, <1>6, <1>7, ResolveKeeps DEF Propose

\* The flush writes the new event and puts its doubts on record.
LEMMA FlushKeeps ==
  ASSUME IngestSound, NEW s \in Session, Flush(s)
  PROVE  IngestSound'
<1>0. Active(s) /\ TxnSound(s) /\ txn[s].at = "flush"
  BY DEF Flush, At, IngestSound
<1>1. PICK marked : marked = IF IsNew(s) THEN txn[s].updates ELSE {}
  OBVIOUS
<1>2. PICK written :
        written = [e \in DOMAIN txn[s].events \cup (IF IsNew(s) THEN {txn[s].event} ELSE {}) |->
                     IF e \notin DOMAIN txn[s].events
                     THEN [pid |-> Game(s).pid, identity |-> Game(s).identity, status |-> txn[s].status]
                     ELSE IF e \in marked THEN [txn[s].events[e] EXCEPT !.status = "conflict"]
                     ELSE txn[s].events[e]]
  OBVIOUS
<1>3. PICK k : k = [txn[s] EXCEPT !.at = "offer", !.offer = 1, !.updates = {},
                       !.events = written,
                       !.marks = @ \cup (marked \ DOMAIN txn[s].events),
                       !.touched = @ \cup (txn[s].updates \ DOMAIN txn[s].events)]
  OBVIOUS
<1>4. Continue(s, k) /\ txn'[s] = k
  BY <1>0, <1>1, <1>2, <1>3 DEF Flush, Continue, IngestSound
<1>5. /\ k.at = "offer" /\ k.call = txn[s].call /\ k.fetch = txn[s].fetch /\ k.game = txn[s].game
      /\ k.offer = 1 /\ k.status = txn[s].status /\ k.events = written /\ k.event = txn[s].event
      /\ k.marks = txn[s].marks \cup (marked \ DOMAIN txn[s].events)
      /\ k.touched = txn[s].touched \cup (txn[s].updates \ DOMAIN txn[s].events)
      /\ k.books = txn[s].books /\ k.idents = txn[s].idents /\ k.obs = txn[s].obs /\ k.known = txn[s].known
  BY <1>3, <1>4
<1>6. UNCHANGED <<tables, calls>> /\ Game(s)' = Game(s)
  BY <1>4, <1>5 DEF Continue, Game
<1>7. /\ DOMAIN Visible(s) = DOMAIN events \cup DOMAIN txn[s].events
      /\ DOMAIN events \cap DOMAIN txn[s].events = {}
      /\ \A e \in DOMAIN events : Visible(s)[e] = events[e]
      /\ \A e \in DOMAIN txn[s].events : Visible(s)[e] = txn[s].events[e]
      /\ txn[s].known \subseteq DOMAIN events
  BY <1>0, VisibleRows
<1>8. IsNew(s) => Proposed(s) /\ txn[s].event = <<txn[s].call, txn[s].game>>
  BY <1>0 DEF IsNew, TxnSound, EventFound, Reused, Proposed
<1>9. txn[s].updates \subseteq DOMAIN Visible(s) /\ marked \subseteq txn[s].updates
  BY <1>0, <1>1 DEF TxnSound, EventFound, Reused, Proposed
<1>10. /\ DOMAIN written = DOMAIN txn[s].events \cup (IF IsNew(s) THEN {txn[s].event} ELSE {})
       /\ \A e \in DOMAIN txn[s].events :
            /\ written[e].identity = txn[s].events[e].identity /\ written[e].pid = txn[s].events[e].pid
            /\ written[e].status = txn[s].events[e].status \/ written[e].status = "conflict"
            /\ txn[s].events[e].status = "conflict" => written[e].status = "conflict"
       /\ IsNew(s) => /\ written[txn[s].event].identity = Game(s).identity
                      /\ written[txn[s].event].pid = Game(s).pid
                      /\ written[txn[s].event].status = txn[s].status
  <2>1. ASSUME NEW e \in DOMAIN txn[s].events
        PROVE  /\ written[e].identity = txn[s].events[e].identity /\ written[e].pid = txn[s].events[e].pid
               /\ written[e].status = txn[s].events[e].status \/ written[e].status = "conflict"
               /\ txn[s].events[e].status = "conflict" => written[e].status = "conflict"
    BY <1>2, <2>1
  <2> QED BY <1>2, <1>7, <2>1 DEF IsNew
<1>11. /\ DOMAIN Visible(s)' = DOMAIN events \cup DOMAIN written
       /\ \A e \in DOMAIN Visible(s) : e \in DOMAIN Visible(s)' /\ Visible(s)'[e].identity = Visible(s)[e].identity
       /\ \A e \in DOMAIN written : Visible(s)'[e] = written[e]
  <2>1. /\ DOMAIN Visible(s)' = DOMAIN events \cup DOMAIN written
        /\ \A e \in DOMAIN Visible(s)' :
              Visible(s)'[e] = IF e \in DOMAIN written THEN written[e] ELSE events[e]
    BY <1>4, <1>5, <1>6 DEF Visible, tables
  <2>2. IsNew(s) => txn[s].event \notin DOMAIN events
    BY <1>7 DEF IsNew
  <2> QED BY <1>7, <1>10, <2>1, <2>2
<1>12. txn[s].event \in DOMAIN Visible(s)' /\ Visible(s)'[txn[s].event].identity = Game(s).identity
  <2>1. CASE IsNew(s)
    BY <1>10, <1>11, <2>1
  <2>2. CASE ~IsNew(s)
    <3>1. Reused(s)
      <4>1. ASSUME Proposed(s) PROVE IsNew(s)
        <5>1. txn[s].event = <<txn[s].call, txn[s].game>> /\ txn[s].event[1] = txn[s].call
          BY <4>1 DEF Proposed
        <5>2. txn[s].event \notin DOMAIN events
          BY <1>0, <5>1 DEF TxnSound, Uncommitted
        <5>3. \A g : g # txn[s].game => <<txn[s].call, g>> # <<txn[s].call, txn[s].game>>
          OBVIOUS
        <5>4. txn[s].event \notin DOMAIN txn[s].events
          BY <1>0, <5>1, <5>3 DEF TxnSound, OwnEvents, Resolved
        <5> QED BY <1>7, <5>2, <5>4 DEF IsNew
      <4> QED BY <1>0, <2>2, <4>1 DEF TxnSound, EventFound
    <3> QED BY <1>11, <3>1 DEF Reused
  <2> QED BY <2>1, <2>2
<1>13. txn[s].updates \ DOMAIN txn[s].events \subseteq DOMAIN events
       /\ marked \ DOMAIN txn[s].events \subseteq txn[s].updates \ DOMAIN txn[s].events
  BY <1>7, <1>9
<1>14. TxnTyped(s)'
  <2>1. \A e \in DOMAIN written : written[e].status \in Statuses
    BY <1>0, <1>10 DEF TxnSound, TxnTyped, Statuses
  <2> QED BY <1>0, <1>4, <1>5, <1>6, <1>13, <2>1 DEF TxnSound, TxnTyped, Resolved, InBook, tables
<1>15. OwnEvents(s)'
  <2> SUFFICES ASSUME NEW e \in DOMAIN written
               PROVE  \E g \in 1..txn[s].game : e = <<txn[s].call, g>>
    BY <1>4, <1>5 DEF OwnEvents, Resolved
  <2>1. CASE e \in DOMAIN txn[s].events
    BY <1>0, <2>1 DEF TxnSound, OwnEvents
  <2>2. CASE e \notin DOMAIN txn[s].events
    <3>1. e = <<txn[s].call, txn[s].game>>
      BY <1>8, <1>10, <2>2
    <3>2. txn[s].game \in 1..txn[s].game
      BY <1>0, FetchShape DEF TxnSound, TxnTyped
    <3> QED BY <3>1, <3>2
  <2> QED BY <2>1, <2>2
<1>16. Wary(s)'
  <2> SUFFICES ASSUME NEW f \in DOMAIN written, NEW e \in txn[s].known,
                      events[e].pid = written[f].pid, events[e].pid # NoId
               PROVE  /\ events[e].identity # written[f].identity
                      /\ written[f].status = "conflict" /\ e \in k.marks
    BY <1>4, <1>5, <1>6 DEF Wary, tables
  <2>1. CASE f \in DOMAIN txn[s].events
    BY <1>0, <1>5, <1>10, <2>1 DEF TxnSound, Wary
  <2>2. CASE f \notin DOMAIN txn[s].events
    <3>1. IsNew(s) /\ f = txn[s].event
      BY <1>10, <2>2
    <3>2. events[e].identity # Game(s).identity /\ txn[s].status = "conflict" /\ e \in txn[s].updates
      BY <1>8, <1>10, <3>1 DEF Proposed
    <3> QED BY <1>1, <1>5, <1>7, <1>10, <3>1, <3>2
  <2> QED BY <2>1, <2>2
<1>17. EventFound(s)'
  BY <1>4, <1>5, <1>6, <1>12 DEF EventFound, Resolved
<1>18. Gathered(s)'
  <2>1. \A i \in DOMAIN txn[s].fetch : \A j \in ValidOffers(txn[s].fetch[i]) :
            Covered(s, i, j)' <=> Covered(s, i, j)
    BY <1>0, <1>4, <1>5, FetchShape DEF TxnSound, TxnTyped, Covered, Resolved, ValidOffers
  <2>2. ASSUME NEW o \in txn[s].obs, NEW i, NEW j
        PROVE  RecordedAs(s, o, i, j)' <=> RecordedAs(s, o, i, j)
    BY <1>0, <1>4, <1>5, <1>11 DEF TxnSound, Gathered, RecordedAs
  <2> QED BY <1>0, <1>4, <1>5, <1>11, <2>1, <2>2 DEF TxnSound, Gathered
<1>19. Shelved(s)' /\ Uncommitted(s)'
  BY <1>0, <1>4, <1>5, <1>6 DEF TxnSound, Shelved, Uncommitted, BookKeys, Names, tables
<1> QED BY <1>0, <1>4, <1>5, <1>14, <1>15, <1>16, <1>17, <1>18, <1>19, GoesOn DEF TxnSound

\* A game ends when all its offers were gone through.
LEMMA EndGameKeeps ==
  ASSUME IngestSound, NEW s \in Session, EndGame(s)
  PROVE  IngestSound'
<1>1. PICK k : k = [txn[s] EXCEPT !.at = "select", !.game = @ + 1]
  OBVIOUS
<1>2. Active(s) /\ TxnSound(s) /\ Continue(s, k) /\ txn[s].at = "offer" /\ txn'[s] = k
  BY <1>1 DEF EndGame, At, IngestSound, Continue
<1>3. /\ k.at = "select" /\ k.call = txn[s].call /\ k.fetch = txn[s].fetch /\ k.game = txn[s].game + 1
      /\ k.offer = txn[s].offer /\ k.status = txn[s].status /\ k.events = txn[s].events
      /\ k.marks = txn[s].marks /\ k.touched = txn[s].touched /\ k.books = txn[s].books
      /\ k.idents = txn[s].idents /\ k.obs = txn[s].obs /\ k.known = txn[s].known
  BY <1>1, <1>2
<1>4. UNCHANGED <<tables, calls>>
  BY <1>2 DEF Continue
<1>5. /\ txn[s].game \in 1..Len(txn[s].fetch) /\ Len(txn[s].fetch) \in Nat
      /\ DOMAIN txn[s].fetch = 1..Len(txn[s].fetch)
      /\ \A j \in DOMAIN Game(s).offers : j < txn[s].offer
  <2>1. /\ txn[s].game \in 1..Len(txn[s].fetch) /\ Len(txn[s].fetch) \in Nat
        /\ DOMAIN txn[s].fetch = 1..Len(txn[s].fetch)
    BY <1>2, FetchShape DEF TxnSound, TxnTyped, Resolved
  <2>2. Len(Game(s).offers) \in Nat /\ DOMAIN Game(s).offers = 1..Len(Game(s).offers)
    BY <1>2, <2>1, FetchShape DEF TxnSound, TxnTyped, Game
  <2> QED BY <1>2, <2>1, <2>2 DEF EndGame, TxnSound, TxnTyped
<1>6. TxnTyped(s)' /\ OwnEvents(s)' /\ Wary(s)' /\ EventFound(s)'
  <2>1. TxnTyped(s)'
    BY <1>2, <1>3, <1>4, <1>5 DEF TxnSound, TxnTyped, Resolved, InBook, tables
  <2>2. OwnEvents(s)'
    BY <1>2, <1>3, <1>4, <1>5 DEF TxnSound, TxnTyped, OwnEvents, Resolved
  <2>3. Wary(s)'
    BY <1>2, <1>3, <1>4, <1>5 DEF TxnSound, Wary, tables
  <2>4. EventFound(s)'
    BY <1>2, <1>3, <1>4, <1>5 DEF TxnSound, EventFound, Resolved
  <2> QED BY <2>1, <2>2, <2>3, <2>4
<1>7. Gathered(s)'
  <2>1. \A e : Visible(s)'[e] = Visible(s)[e] /\ DOMAIN Visible(s)' = DOMAIN Visible(s)
    BY <1>2, <1>3, <1>4 DEF Visible, tables
  <2>2. \A i \in DOMAIN txn[s].fetch : \A j \in ValidOffers(txn[s].fetch[i]) :
            Covered(s, i, j)' <=> Covered(s, i, j)
    BY <1>2, <1>3, <1>5 DEF Covered, Resolved, ValidOffers, Game
  <2> QED BY <1>2, <1>3, <2>1, <2>2 DEF TxnSound, Gathered, RecordedAs
<1>8. Shelved(s)' /\ Uncommitted(s)'
  BY <1>2, <1>3, <1>4 DEF TxnSound, Shelved, Uncommitted, BookKeys, Names, tables
<1> QED BY <1>2, <1>3, <1>6, <1>7, <1>8, GoesOn DEF TxnSound

\* Names lead to their canonical book.
LEMMA IdentKey ==
  ASSUME IngestSound, NEW s \in Session, NEW ident, NEW i \in IdentRows(s, ident)
  PROVE  i.key = Canonical[ident]
BY DEF IngestSound, RowsSound, IdentRows

\* An offer is recorded once, if it is valid.
LEMMA ObserveKeeps ==
  ASSUME IngestSound, NEW s \in Session, Observe(s)
  PROVE  IngestSound'
<1>0. Active(s) /\ TxnSound(s) /\ txn[s].at = "offer" /\ txn[s].offer <= Len(Game(s).offers)
  BY DEF Observe, At, IngestSound
<1>1. PICK o, k :
        /\ o.snapshot = txn[s].call /\ o.event = txn[s].event
        /\ o.key = Canonical[Offer(s).ident] /\ o.side = Offer(s).side
        /\ k = IF Offer(s).valid /\ ~Seen(s, o)
               THEN [txn[s] EXCEPT !.offer = @ + 1, !.obs = @ \cup {o}]
               ELSE [txn[s] EXCEPT !.offer = @ + 1, !.warned = TRUE]
        /\ Continue(s, k)
  <2>1. PICK i \in IdentRows(s, Offer(s).ident) :
          LET o == [snapshot |-> txn[s].call, position |-> <<txn[s].game, txn[s].offer>>,
                    event |-> txn[s].event, key |-> i.key, side |-> Offer(s).side,
                    status |-> txn[s].status]
          IN  Continue(s, IF Offer(s).valid /\ ~Seen(s, o)
                          THEN [txn[s] EXCEPT !.offer = @ + 1, !.obs = @ \cup {o}]
                          ELSE [txn[s] EXCEPT !.offer = @ + 1, !.warned = TRUE])
    BY DEF Observe
  <2>2. i.key = Canonical[Offer(s).ident]
    BY <2>1, IdentKey
  <2>3. PICK o : o = [snapshot |-> txn[s].call, position |-> <<txn[s].game, txn[s].offer>>,
                      event |-> txn[s].event, key |-> i.key, side |-> Offer(s).side,
                      status |-> txn[s].status]
    OBVIOUS
  <2>4. o.snapshot = txn[s].call /\ o.event = txn[s].event /\ o.key = i.key /\ o.side = Offer(s).side
    BY <2>3
  <2> QED BY <2>1, <2>2, <2>3, <2>4
<1>2. txn'[s] = k /\ UNCHANGED <<tables, calls>>
  BY <1>1 DEF Continue, IngestSound
<1>3. /\ k.at = "offer" /\ k.call = txn[s].call /\ k.fetch = txn[s].fetch /\ k.game = txn[s].game
      /\ k.offer = txn[s].offer + 1 /\ k.status = txn[s].status /\ k.events = txn[s].events
      /\ k.event = txn[s].event
      /\ k.marks = txn[s].marks /\ k.touched = txn[s].touched /\ k.books = txn[s].books
      /\ k.idents = txn[s].idents /\ k.known = txn[s].known
  BY <1>0, <1>1
<1>4. \/ Offer(s).valid /\ ~Seen(s, o) /\ k.obs = txn[s].obs \cup {o}
      \/ (~Offer(s).valid \/ Seen(s, o)) /\ k.obs = txn[s].obs
  BY <1>1
<1>5. Game(s)' = Game(s) /\ Visible(s)' = Visible(s)
  BY <1>2, <1>3 DEF Game, Visible, tables
<1>6. TxnTyped(s)' /\ OwnEvents(s)' /\ Wary(s)' /\ EventFound(s)'
  <2>1. TxnTyped(s)'
    BY <1>0, <1>2, <1>3, <1>5 DEF TxnSound, TxnTyped, Resolved, InBook, tables
  <2>2. OwnEvents(s)'
    BY <1>0, <1>2, <1>3, <1>5 DEF TxnSound, TxnTyped, OwnEvents, Resolved
  <2>3. Wary(s)'
    BY <1>0, <1>2, <1>3, <1>5 DEF TxnSound, Wary, tables
  <2>4. EventFound(s)'
    BY <1>0, <1>2, <1>3, <1>5 DEF TxnSound, EventFound, Resolved
  <2> QED BY <2>1, <2>2, <2>3, <2>4
<1>7. Gathered(s)'
  <2>1. txn[s].game \in DOMAIN txn[s].fetch /\ Game(s) = txn[s].fetch[txn[s].game]
        /\ txn[s].offer \in DOMAIN Game(s).offers /\ Game(s).valid
        /\ Offer(s) = Game(s).offers[txn[s].offer]
    <3>1. txn[s].game \in DOMAIN txn[s].fetch /\ Game(s).valid
      BY <1>0, FetchShape DEF TxnSound, TxnTyped
    <3> QED BY <1>0, <3>1, FetchShape DEF TxnSound, TxnTyped, Game, Offer
  <2>2. \A i \in DOMAIN txn[s].fetch : \A j \in ValidOffers(txn[s].fetch[i]) :
            Covered(s, i, j)' <=> Covered(s, i, j) \/ (i = txn[s].game /\ j = txn[s].offer)
    <3> SUFFICES ASSUME NEW i \in DOMAIN txn[s].fetch, NEW j \in ValidOffers(txn[s].fetch[i])
                 PROVE  Covered(s, i, j)' <=> Covered(s, i, j) \/ (i = txn[s].game /\ j = txn[s].offer)
      OBVIOUS
    <3>1. txn[s].fetch \in Fetch /\ txn[s].game \in Int /\ txn[s].offer \in Int
      BY <1>0, FetchShape DEF TxnSound, TxnTyped
    <3>2. i \in Int /\ j \in Int
      BY <3>1, FetchShape DEF ValidOffers
    <3> QED BY <1>0, <1>2, <1>3, <3>1, <3>2 DEF Covered, Resolved
  <2>3. txn[s].offer \in ValidOffers(txn[s].fetch[txn[s].game]) <=> Offer(s).valid
    BY <2>1 DEF ValidOffers
  <2>4. \A p : p.event = o.event /\ p.key = o.key /\ p.side = o.side =>
          RecordedAs(s, p, txn[s].game, txn[s].offer)
    BY <1>0, <1>1, <2>1 DEF RecordedAs, OfferAt, TxnSound, EventFound, Resolved
  <2>5. \A p, i, j : RecordedAs(s, p, i, j)' <=> RecordedAs(s, p, i, j)
    BY <1>2, <1>3, <1>5 DEF RecordedAs
  <2>6. o.event \in DOMAIN Visible(s)
    BY <1>0, <1>1 DEF TxnSound, EventFound, Resolved
  <2>7. ASSUME NEW q \in k.obs
        PROVE  /\ q.snapshot = txn[s].call /\ q.event \in DOMAIN Visible(s)
               /\ \E i \in DOMAIN txn[s].fetch : \E j \in ValidOffers(txn[s].fetch[i]) :
                     Covered(s, i, j)' /\ RecordedAs(s, q, i, j)
    <3>1. CASE q \in txn[s].obs
      BY <1>0, <2>2, <3>1 DEF TxnSound, Gathered
    <3>2. CASE q \notin txn[s].obs
      BY <1>1, <1>4, <2>1, <2>2, <2>3, <2>4, <2>6, <2>7, <3>2
    <3> QED BY <3>1, <3>2
  <2>8. ASSUME NEW i \in DOMAIN txn[s].fetch, NEW j \in ValidOffers(txn[s].fetch[i]), Covered(s, i, j)'
        PROVE  \E q \in k.obs : RecordedAs(s, q, i, j)
    <3>1. CASE Covered(s, i, j)
      BY <1>0, <1>4, <3>1 DEF TxnSound, Gathered
    <3>2. CASE i = txn[s].game /\ j = txn[s].offer
      <4>1. \E q \in k.obs : q.event = o.event /\ q.key = o.key /\ q.side = o.side
        BY <1>4, <2>3, <2>8, <3>2 DEF Seen
      <4> QED BY <2>4, <3>2, <4>1
    <3> QED BY <2>2, <2>8, <3>1, <3>2
  <2>9. ASSUME NEW q \in k.obs, NEW p \in k.obs, q.event = p.event, q.key = p.key, q.side = p.side
        PROVE  q = p
    BY <1>0, <1>4, <2>9 DEF TxnSound, Gathered, Seen
  <2> QED BY <1>2, <1>3, <1>5, <2>5, <2>7, <2>8, <2>9 DEF Gathered
<1>8. Shelved(s)' /\ Uncommitted(s)'
  BY <1>0, <1>2, <1>3 DEF TxnSound, Shelved, Uncommitted, BookKeys, Names, tables
<1> QED BY <1>0, <1>1, <1>2, <1>3, <1>6, <1>7, <1>8, GoesOn DEF TxnSound

\* A step that goes on to the book of an offer, and nothing else.
LEMMA LookKeeps ==
  ASSUME IngestSound, NEW s \in Session, Active(s), Resolved(s), txn[s].offer <= Len(Game(s).offers),
         NEW at \in {"findbook", "addbook", "addident"},
         Continue(s, [txn[s] EXCEPT !.at = at]),
         at = "addident" => Canonical[Offer(s).ident] \in txn[s].books \cup BookKeys
  PROVE  IngestSound'
<1>1. PICK k : k = [txn[s] EXCEPT !.at = at]
  OBVIOUS
<1>2. TxnSound(s) /\ Continue(s, k) /\ txn'[s] = k /\ UNCHANGED <<tables, calls>>
  BY <1>1 DEF IngestSound, Continue
<1>3. /\ k.at = at /\ k.call = txn[s].call /\ k.fetch = txn[s].fetch /\ k.game = txn[s].game
      /\ k.offer = txn[s].offer /\ k.status = txn[s].status /\ k.events = txn[s].events
      /\ k.event = txn[s].event /\ k.obs = txn[s].obs
      /\ k.marks = txn[s].marks /\ k.touched = txn[s].touched /\ k.books = txn[s].books
      /\ k.idents = txn[s].idents /\ k.known = txn[s].known
  BY <1>1, <1>2
<1>4. Game(s)' = Game(s) /\ Visible(s)' = Visible(s) /\ Offer(s)' = Offer(s) /\ Resolved(s)'
  BY <1>2, <1>3 DEF Game, Visible, Offer, Resolved, tables
<1>5. TxnTyped(s)' /\ OwnEvents(s)' /\ Wary(s)' /\ EventFound(s)'
  <2>1. TxnTyped(s)'
    BY <1>2, <1>3, <1>4 DEF TxnSound, TxnTyped, Resolved, InBook, tables
  <2>2. OwnEvents(s)'
    BY <1>2, <1>3, <1>4 DEF TxnSound, TxnTyped, OwnEvents, Resolved
  <2>3. Wary(s)'
    BY <1>2, <1>3, <1>4 DEF TxnSound, Wary, tables
  <2>4. EventFound(s)'
    BY <1>2, <1>3, <1>4 DEF TxnSound, EventFound, Resolved
  <2> QED BY <2>1, <2>2, <2>3, <2>4
<1>6. Gathered(s)'
  BY <1>2, <1>3, <1>4 DEF TxnSound, Gathered, RecordedAs, Covered
<1>7. Shelved(s)' /\ Uncommitted(s)'
  BY <1>2, <1>3, <1>4 DEF TxnSound, Shelved, Uncommitted, BookKeys, Names, tables
<1> QED BY <1>2, <1>3, <1>5, <1>6, <1>7, GoesOn DEF TxnSound

\* A name that is unknown is looked up, and its book.
LEMMA FindKeeps ==
  ASSUME IngestSound, NEW s \in Session, NewIdent(s) \/ FindBook(s)
  PROVE  IngestSound'
<1>1. CASE NewIdent(s)
  BY <1>1, LookKeeps DEF NewIdent, At, Resolved
<1>2. CASE FindBook(s)
  <2>1. PICK at \in {"addbook", "addident"} :
          /\ at = IF Canonical[Offer(s).ident] \in txn[s].books \cup BookKeys THEN "addident" ELSE "addbook"
          /\ Continue(s, [txn[s] EXCEPT !.at = at])
    BY <1>2 DEF FindBook, BookKeys
  <2>2. Active(s) /\ Resolved(s) /\ txn[s].offer <= Len(Game(s).offers)
    BY <1>2 DEF FindBook, At, Resolved, InBook, IngestSound, TxnSound, TxnTyped
  <2> QED BY <2>1, <2>2, LookKeeps
<1> QED BY <1>1, <1>2

\* A step that adds a new book or a new name, which no other transaction has.
LEMMA ShelveKeeps ==
  ASSUME IngestSound, NEW s \in Session, Active(s), InBook(s), NEW k, Continue(s, k),
         k.at \in {"addident", "offer"}, k.call = txn[s].call, k.fetch = txn[s].fetch,
         k.game = txn[s].game, k.offer = txn[s].offer, k.status = txn[s].status,
         k.events = txn[s].events, k.event = txn[s].event, k.obs = txn[s].obs,
         k.marks = txn[s].marks, k.touched = txn[s].touched, k.known = txn[s].known,
         k.books \cap BookKeys = {}, k.idents \cap Names = {},
         \A i \in k.idents : Canonical[i] \in k.books \cup BookKeys,
         k.at = "addident" => Canonical[Offer(s).ident] \in k.books \cup BookKeys,
         \A t \in Session \ {s} : Active(t) =>
            k.books \cap txn[t].books = {} /\ k.idents \cap txn[t].idents = {}
  PROVE  IngestSound'
<1>1. /\ TxnSound(s) /\ txn'[s] = k /\ UNCHANGED <<tables, calls>>
      /\ DOMAIN txn' = Session /\ \A t \in Session \ {s} : txn'[t] = txn[t]
      /\ calls \in Nat /\ calls \in 0..MaxCalls
  BY IngestAssumption DEF IngestSound, RowsSound, Continue
<1>2. Game(s)' = Game(s) /\ Visible(s)' = Visible(s) /\ Offer(s)' = Offer(s) /\ Resolved(s)'
      /\ Resolved(s)
  BY <1>1 DEF Game, Visible, Offer, Resolved, InBook, tables
<1>3. TxnTyped(s)' /\ OwnEvents(s)' /\ Wary(s)' /\ EventFound(s)'
  <2>1. TxnTyped(s)'
    BY <1>1, <1>2 DEF TxnSound, TxnTyped, InBook, tables
  <2>2. OwnEvents(s)'
    BY <1>1, <1>2 DEF TxnSound, OwnEvents
  <2>3. Wary(s)'
    BY <1>1 DEF TxnSound, Wary, tables
  <2>4. EventFound(s)'
    BY <1>1, <1>2 DEF TxnSound, EventFound, Resolved
  <2> QED BY <2>1, <2>2, <2>3, <2>4
<1>4. Gathered(s)'
  BY <1>1, <1>2 DEF TxnSound, Gathered, RecordedAs, Covered
<1>5. Shelved(s)' /\ Uncommitted(s)'
  BY <1>1, <1>2 DEF TxnSound, Shelved, Uncommitted, BookKeys, Names, tables
<1>6. RowsSound'
  BY <1>1, RowsStand DEF IngestSound
<1>7. \A t \in Session : Active(t)' => TxnSound(t)'
  BY <1>1, <1>3, <1>4, <1>5, OthersStand DEF IngestSound, Active, TxnSound
<1>8. \A t, u \in Session : Active(t)' /\ Active(u)' /\ t # u => Separate(t, u)'
  <2>1. ASSUME NEW t \in Session \ {s}, Active(t) PROVE Separate(s, t)' /\ Separate(t, s)'
    BY <1>1, <2>1 DEF IngestSound, Separate
  <2>2. ASSUME NEW t \in Session \ {s}, NEW u \in Session \ {s}, Active(t)', Active(u)', t # u
        PROVE  Separate(t, u)'
    BY <1>1, <2>2 DEF IngestSound, Active, Separate
  <2> QED BY <1>1, <2>1, <2>2 DEF Active
<1> QED BY <1>1, <1>6, <1>7, <1>8 DEF IngestSound

\* The unique index of the books: the row is new, and nobody else is writing it.
LEMMA AddBookKeeps ==
  ASSUME IngestSound, NEW s \in Session, AddBook(s)
  PROVE  IngestSound'
<1>1. PICK key : key = Canonical[Offer(s).ident]
  OBVIOUS
<1>2. CASE key \in BookKeys
  BY <1>1, <1>2, RollbackKeeps DEF AddBook, BookKeys
<1>3. CASE key \notin BookKeys
  <2>1. PICK k : k = [txn[s] EXCEPT !.at = "addident", !.books = @ \cup {key}]
    OBVIOUS
  <2>2. Active(s) /\ txn[s].at = "addbook" /\ Continue(s, k) /\ TxnSound(s)
    BY <1>1, <1>3, <2>1 DEF AddBook, At, BookKeys, IngestSound
  <2>3. /\ k.at = "addident" /\ k.call = txn[s].call /\ k.fetch = txn[s].fetch
        /\ k.game = txn[s].game /\ k.offer = txn[s].offer /\ k.status = txn[s].status
        /\ k.events = txn[s].events /\ k.event = txn[s].event /\ k.obs = txn[s].obs
        /\ k.marks = txn[s].marks /\ k.touched = txn[s].touched /\ k.known = txn[s].known
        /\ k.books = txn[s].books \cup {key} /\ k.idents = txn[s].idents
    BY <2>1, <2>2
  <2>4. /\ k.books \cap BookKeys = {} /\ k.idents \cap Names = {}
        /\ \A i \in k.idents : Canonical[i] \in k.books \cup BookKeys
        /\ Canonical[Offer(s).ident] \in k.books
    BY <1>1, <1>3, <2>2, <2>3 DEF TxnSound, Shelved
  <2>5. ASSUME NEW t \in Session \ {s}, Active(t)
        PROVE  k.books \cap txn[t].books = {} /\ k.idents \cap txn[t].idents = {}
    <3>1. key \notin txn[t].books
      BY <1>1, <2>2, <2>5 DEF AddBook, Blockers, At
    <3>2. Separate(s, t)
      BY <2>2, <2>5 DEF IngestSound
    <3> QED BY <2>3, <3>1, <3>2 DEF Separate
  <2> QED BY <2>2, <2>3, <2>4, <2>5, ShelveKeeps DEF InBook
<1> QED BY <1>2, <1>3

\* The unique index of the names.
LEMMA AddIdentKeeps ==
  ASSUME IngestSound, NEW s \in Session, AddIdent(s)
  PROVE  IngestSound'
<1>1. PICK ident : ident = Offer(s).ident
  OBVIOUS
<1>2. CASE ident \in Names
  BY <1>1, <1>2, RollbackKeeps DEF AddIdent, Names
<1>3. CASE ident \notin Names
  <2>1. PICK k : k = [txn[s] EXCEPT !.at = "offer", !.idents = @ \cup {ident}]
    OBVIOUS
  <2>2. Active(s) /\ txn[s].at = "addident" /\ Continue(s, k) /\ TxnSound(s)
    BY <1>1, <1>3, <2>1 DEF AddIdent, At, Names, IngestSound
  <2>3. /\ k.at = "offer" /\ k.call = txn[s].call /\ k.fetch = txn[s].fetch
        /\ k.game = txn[s].game /\ k.offer = txn[s].offer /\ k.status = txn[s].status
        /\ k.events = txn[s].events /\ k.event = txn[s].event /\ k.obs = txn[s].obs
        /\ k.marks = txn[s].marks /\ k.touched = txn[s].touched /\ k.known = txn[s].known
        /\ k.books = txn[s].books /\ k.idents = txn[s].idents \cup {ident}
    BY <2>1, <2>2
  <2>4. /\ k.books \cap BookKeys = {} /\ k.idents \cap Names = {}
        /\ \A i \in k.idents : Canonical[i] \in k.books \cup BookKeys
    BY <1>1, <1>3, <2>2, <2>3 DEF TxnSound, Shelved
  <2>5. ASSUME NEW t \in Session \ {s}, Active(t)
        PROVE  k.books \cap txn[t].books = {} /\ k.idents \cap txn[t].idents = {}
    <3>1. ident \notin txn[t].idents
      BY <1>1, <2>2, <2>5 DEF AddIdent, Blockers, At
    <3>2. Separate(s, t)
      BY <2>2, <2>5 DEF IngestSound
    <3> QED BY <2>3, <3>1, <3>2 DEF Separate
  <2> QED BY <2>2, <2>3, <2>4, <2>5, ShelveKeeps DEF InBook
<1> QED BY <1>2, <1>3

------------------------------------------------------------------------------
(* The commit *)

\* What a commit writes. Committed events keep their game, and their doubts.
Commits(s) ==
    /\ Active(s) /\ TxnSound(s) /\ ~Active(s)' /\ calls' = calls /\ calls \in 0..MaxCalls
    /\ DOMAIN txn' = Session /\ \A t \in Session \ {s} : txn'[t] = txn[t]
    /\ DOMAIN events' = DOMAIN events \cup DOMAIN txn[s].events
    /\ DOMAIN events \cap DOMAIN txn[s].events = {}
    /\ \A e \in DOMAIN events :
         /\ events'[e].pid = events[e].pid /\ events'[e].identity = events[e].identity
         /\ events'[e].known = events[e].known
         /\ events'[e].status = events[e].status \/ events'[e].status = "conflict"
         /\ e \in txn[s].marks => events'[e].status = "conflict"
    /\ \A e \in DOMAIN txn[s].events :
         /\ events'[e].pid = txn[s].events[e].pid
         /\ events'[e].identity = txn[s].events[e].identity
         /\ events'[e].status = txn[s].events[e].status /\ events'[e].known = txn[s].known
    /\ \A e \in DOMAIN txn[s].events : \E g \in Nat : e = <<txn[s].call, g>>
    /\ BookKeys' = BookKeys \cup txn[s].books /\ Names' = Names \cup txn[s].idents

\* Commit writes that.
LEMMA Committed ==
  ASSUME IngestSound, NEW s \in Session, Commit(s)
  PROVE  Commits(s)
<1>1. PICK k : k = txn[s]
  OBVIOUS
<1>2. Active(s) /\ TxnSound(s) /\ ~Active(s)' /\ calls' = calls /\ calls \in 0..MaxCalls
      /\ DOMAIN txn' = Session /\ \A t \in Session \ {s} : txn'[t] = txn[t]
  BY DEF Commit, At, Active, IngestSound, RowsSound
<1>3. events' = [e \in DOMAIN events \cup DOMAIN k.events |->
                   IF e \in DOMAIN events THEN Updated(s, e)
                   ELSE [pid |-> k.events[e].pid, identity |-> k.events[e].identity,
                         status |-> k.events[e].status, known |-> k.known]]
  BY <1>1 DEF Commit
<1>4. DOMAIN events' = DOMAIN events \cup DOMAIN k.events /\ DOMAIN events \cap DOMAIN k.events = {}
  BY <1>1, <1>2, <1>3, VisibleRows
<1>5. ASSUME NEW e \in DOMAIN events
      PROVE  /\ events'[e].pid = events[e].pid /\ events'[e].identity = events[e].identity
             /\ events'[e].known = events[e].known
             /\ events'[e].status = events[e].status \/ events'[e].status = "conflict"
             /\ e \in txn[s].marks => events'[e].status = "conflict"
  <2>1. events'[e] = Updated(s, e)
    BY <1>3, <1>5
  <2> QED BY <2>1 DEF Updated
<1>6. ASSUME NEW e \in DOMAIN k.events
      PROVE  /\ events'[e].pid = k.events[e].pid /\ events'[e].identity = k.events[e].identity
             /\ events'[e].status = k.events[e].status /\ events'[e].known = k.known
  BY <1>3, <1>4, <1>6
<1>7. \A e \in DOMAIN k.events : \E g \in Nat : e = <<k.call, g>>
  <2>1. Len(k.fetch) \in Nat /\ k.game \in Nat
    BY <1>1, <1>2, FetchShape DEF TxnSound, TxnTyped
  <2> QED BY <1>1, <1>2, <2>1 DEF TxnSound, OwnEvents
<1>8. BookKeys' = BookKeys \cup k.books
  <2>1. books' = books \cup {[key |-> b, by |-> k.call] : b \in k.books}
    BY <1>1 DEF Commit
  <2>2. PICK new : new = {[key |-> b, by |-> k.call] : b \in k.books}
    OBVIOUS
  <2>3. {r.key : r \in new} = k.books
    <3>1. \A r \in new : r.key \in k.books
      BY <2>2
    <3>2. ASSUME NEW b \in k.books PROVE \E r \in new : r.key = b
      <4>1. PICK r : r = [key |-> b, by |-> k.call]
        OBVIOUS
      <4> QED BY <2>2, <4>1
    <3> QED BY <3>1, <3>2
  <2> QED BY <2>1, <2>2, <2>3 DEF BookKeys
<1>9. Names' = Names \cup k.idents
  <2>1. idents' = idents \cup {[ident |-> i, key |-> Canonical[i], by |-> k.call] : i \in k.idents}
    BY <1>1 DEF Commit
  <2>2. PICK new : new = {[ident |-> i, key |-> Canonical[i], by |-> k.call] : i \in k.idents}
    OBVIOUS
  <2>3. {r.ident : r \in new} = k.idents
    <3>1. \A r \in new : r.ident \in k.idents
      BY <2>2
    <3>2. ASSUME NEW i \in k.idents PROVE \E r \in new : r.ident = i
      <4>1. PICK r : r = [ident |-> i, key |-> Canonical[i], by |-> k.call]
        OBVIOUS
      <4> QED BY <2>2, <4>1
    <3> QED BY <3>1, <3>2
  <2> QED BY <2>1, <2>2, <2>3 DEF Names
<1> QED BY <1>1, <1>2, <1>4, <1>5, <1>6, <1>7, <1>8, <1>9 DEF Commits

\* A committed snapshot is whole.
LEMMA WholeSnapshot ==
  ASSUME IngestSound, NEW s \in Session, Commit(s)
  PROVE  /\ \A m : m = txn[s].call => Recorded(m)' = Offered(txn[s].fetch)
         /\ \A n \in snapshots : Recorded(n.id)' = Recorded(n.id)
<1>1. PICK k : k = txn[s]
  OBVIOUS
<1>c. Commits(s)
  BY Committed
<1>2. /\ TxnSound(s) /\ Active(s) /\ observations' = observations \cup k.obs
      /\ k.game > Len(k.fetch) /\ k.at = "select"
  BY <1>1, <1>c DEF Commit, At, Commits
<1>3. \A o \in observations : o.event \in DOMAIN events /\ o.snapshot # k.call
  BY <1>1, <1>2 DEF IngestSound, RowsSound, TxnSound, Uncommitted
<1>4. \A o \in observations : events'[o.event].identity = events[o.event].identity
  BY <1>3, <1>c DEF Commits
<1>5. \A o \in k.obs : o.snapshot = k.call /\ events'[o.event].identity = Visible(s)[o.event].identity
  <2>1. \A o \in k.obs : o.snapshot = k.call /\ o.event \in DOMAIN Visible(s)
    BY <1>1, <1>2 DEF TxnSound, Gathered
  <2>2. \A e \in DOMAIN Visible(s) : events'[e].identity = Visible(s)[e].identity
    <3>1. /\ DOMAIN Visible(s) = DOMAIN events \cup DOMAIN txn[s].events
          /\ \A e \in DOMAIN events : Visible(s)[e] = events[e]
          /\ \A e \in DOMAIN txn[s].events : Visible(s)[e] = txn[s].events[e]
      BY <1>2, VisibleRows
    <3> QED BY <1>c, <3>1 DEF Commits
  <2> QED BY <2>1, <2>2
<1>6. ASSUME NEW n \in snapshots PROVE Recorded(n.id)' = Recorded(n.id)
  <2>1. n.id # k.call
    BY <1>1, <1>2, <1>6 DEF TxnSound, Uncommitted
  <2>2. \A o : o \in observations' /\ o.snapshot = n.id <=> o \in observations /\ o.snapshot = n.id
    BY <1>2, <1>5, <2>1
  <2>3. PICK m : m = n.id
    OBVIOUS
  <2>4. Recorded(m)' = Recorded(m)
    BY <1>4, <2>2, <2>3 DEF Recorded
  <2> QED BY <2>3, <2>4
<1>7. PICK m : m = k.call
  OBVIOUS
<1>8. Recorded(m)' = Offered(k.fetch)
  <2>1. Recorded(m)' = {<<Visible(s)[o.event].identity, o.key, o.side>> : o \in k.obs}
    <3>1. \A o : o \in observations' /\ o.snapshot = k.call <=> o \in k.obs
      BY <1>2, <1>3, <1>5
    <3> QED BY <1>5, <1>7, <3>1 DEF Recorded
  <2>2. \A i \in DOMAIN k.fetch : i < k.game
    <3>1. Len(k.fetch) \in Nat /\ DOMAIN k.fetch = 1..Len(k.fetch) /\ k.game \in Int
      BY <1>1, <1>2, FetchShape DEF TxnSound, TxnTyped
    <3> QED BY <1>2, <3>1
  <2>3. \A i \in DOMAIN k.fetch : \A j : Covered(s, i, j)
    BY <1>1, <2>2 DEF Covered
  <2>4. \A o \in k.obs : <<Visible(s)[o.event].identity, o.key, o.side>> \in Offered(k.fetch)
    BY <1>1, <1>2 DEF TxnSound, Gathered, RecordedAs, Offered
  <2>5. \A i \in DOMAIN k.fetch : \A j \in ValidOffers(k.fetch[i]) :
          \E o \in k.obs : <<Visible(s)[o.event].identity, o.key, o.side>> = OfferAt(k.fetch, i, j)
    BY <1>1, <1>2, <2>3 DEF TxnSound, Gathered, RecordedAs
  <2> QED BY <2>1, <2>4, <2>5 DEF Offered
<1> QED BY <1>1, <1>6, <1>7, <1>8

\* Committed rows are sound after a commit.
LEMMA CommitRows ==
  ASSUME IngestSound, NEW s \in Session, Commit(s)
  PROVE  RowsSound'
<1>1. PICK k : k = txn[s]
  OBVIOUS
<1>c. Commits(s)
  BY Committed
<1>d. calls \in Nat /\ k.call \in 1..calls
  BY <1>1, <1>c, IngestAssumption DEF Commits, TxnSound, TxnTyped
<1>2. /\ TxnSound(s) /\ Active(s) /\ calls \in Nat /\ calls' = calls
      /\ observations' = observations \cup k.obs
      /\ books' = books \cup {[key |-> b, by |-> k.call] : b \in k.books}
      /\ idents' = idents \cup {[ident |-> i, key |-> Canonical[i], by |-> k.call] : i \in k.idents}
      /\ k.call \in 1..calls
  BY <1>1, <1>c, <1>d DEF Commit, Commits
<1>3. PICK new : /\ snapshots' = snapshots \cup {new} /\ new.id = k.call /\ new.fetch = k.fetch
  <2>1. PICK new : new = [id |-> k.call, fetch |-> k.fetch, status |-> IF k.warned THEN "partial" ELSE "success"]
    OBVIOUS
  <2> QED BY <1>1, <2>1 DEF Commit
<1>4. DOMAIN events' \subseteq (1..calls) \X Nat
  BY <1>1, <1>2, <1>c DEF IngestSound, RowsSound, Commits
<1>5. \A e \in DOMAIN events' : events'[e].status \in Statuses /\ events'[e].known \subseteq DOMAIN events'
  <2>1. ASSUME NEW e \in DOMAIN events
        PROVE  events'[e].status \in Statuses /\ events'[e].known \subseteq DOMAIN events'
    BY <1>c, <2>1 DEF Commits, IngestSound, RowsSound, Statuses
  <2>2. ASSUME NEW e \in DOMAIN txn[s].events
        PROVE  events'[e].status \in Statuses /\ events'[e].known \subseteq DOMAIN events'
    BY <1>2, <1>c, <2>2 DEF Commits, TxnSound, TxnTyped
  <2> QED BY <1>c, <2>1, <2>2 DEF Commits
<1>6. \A o \in observations' : o.event \in DOMAIN events'
  <2>1. \A o \in observations : o.event \in DOMAIN events'
    BY <1>c DEF IngestSound, RowsSound, Commits
  <2>2. \A o \in k.obs : o.event \in DOMAIN Visible(s)
    BY <1>1, <1>2 DEF TxnSound, Gathered
  <2>3. DOMAIN Visible(s) = DOMAIN events'
    BY <1>2, <1>c, VisibleRows DEF Commits
  <2> QED BY <1>2, <2>1, <2>2, <2>3
<1>7. \A i \in idents' : i.key = Canonical[i.ident]
  BY <1>2 DEF IngestSound, RowsSound
<1>8. AmbiguityOnlyByOverlap'
  <2> SUFFICES ASSUME NEW e \in DOMAIN events', NEW f \in DOMAIN events',
                      e # f, events'[e].pid = events'[f].pid, events'[e].pid # NoId,
                      e \in events'[f].known
               PROVE  /\ events'[e].identity # events'[f].identity
                      /\ events'[e].status = "conflict" /\ events'[f].status = "conflict"
    BY DEF AmbiguityOnlyByOverlap
  <2>1. CASE f \in DOMAIN events
    <3>1. e \in DOMAIN events /\ e \in events[f].known /\ events[e].pid = events[f].pid
          /\ events[e].pid # NoId
      BY <1>c, <2>1 DEF IngestSound, RowsSound, Commits
    <3>2. /\ events[e].identity # events[f].identity
          /\ events[e].status = "conflict" /\ events[f].status = "conflict"
      BY <2>1, <3>1 DEF IngestSound, RowsSound, AmbiguityOnlyByOverlap
    <3> QED BY <1>c, <2>1, <3>1, <3>2 DEF Commits
  <2>2. CASE f \in DOMAIN txn[s].events
    <3>1. e \in txn[s].known /\ e \in DOMAIN events
      BY <1>2, <1>c, <2>2 DEF TxnSound, TxnTyped, Commits
    <3>2. events[e].pid = txn[s].events[f].pid /\ events[e].pid # NoId
      BY <1>c, <2>2, <3>1 DEF Commits
    <3>3. /\ events[e].identity # txn[s].events[f].identity
          /\ txn[s].events[f].status = "conflict" /\ e \in txn[s].marks
      BY <1>2, <2>2, <3>1, <3>2 DEF TxnSound, Wary
    <3> QED BY <1>c, <2>2, <3>1, <3>3 DEF Commits
  <2> QED BY <1>c, <2>1, <2>2 DEF Commits
<1>9. SnapshotsWhole'
  <2>1. ASSUME NEW n \in snapshots' PROVE Recorded(n.id)' = Offered(n.fetch)
    <3>1. CASE n \in snapshots
      BY <3>1, WholeSnapshot DEF IngestSound, RowsSound, SnapshotsWhole
    <3>2. CASE n = new
      <4>1. PICK m : m = new.id
        OBVIOUS
      <4>2. Recorded(m)' = Offered(new.fetch)
        BY <1>1, <1>3, <4>1, WholeSnapshot
      <4> QED BY <3>2, <4>1, <4>2
    <3> QED BY <1>3, <2>1, <3>1, <3>2
  <2>2. \A o \in observations' : \E n \in snapshots' : n.id = o.snapshot
    <3>1. \A o \in observations : \E n \in snapshots : n.id = o.snapshot
      BY DEF IngestSound, RowsSound, SnapshotsWhole
    <3> QED BY <1>1, <1>2, <1>3, <3>1 DEF TxnSound, Gathered
  <2> QED BY <2>1, <2>2 DEF SnapshotsWhole
<1>10. OnePricePerIdentity'
  BY <1>1, <1>2 DEF OnePricePerIdentity, IngestSound, RowsSound, TxnSound, Gathered, Uncommitted
<1>11. OneRowPerBook'
  <2>1. \A r, q \in books' : r.key = q.key => r = q
    BY <1>1, <1>2 DEF IngestSound, RowsSound, OneRowPerBook, TxnSound, Shelved, BookKeys
  <2>2. \A i, j \in idents' : i.ident = j.ident => i = j
    BY <1>1, <1>2 DEF IngestSound, RowsSound, OneRowPerBook, TxnSound, Shelved, Names
  <2>3. \A i \in idents' : i.key \in BookKeys'
    <3>1. \A i \in idents : i.key \in BookKeys
      BY DEF IngestSound, RowsSound, OneRowPerBook, BookKeys
    <3>2. \A i \in k.idents : Canonical[i] \in BookKeys \cup k.books
      BY <1>1, <1>2 DEF TxnSound, Shelved
    <3>3. \A i \in idents' : i \in idents \/ \E j \in k.idents : i.key = Canonical[j]
      BY <1>2
    <3>4. BookKeys' = BookKeys \cup k.books
      BY <1>1, <1>c DEF Commits
    <3> QED BY <3>1, <3>2, <3>3, <3>4
  <2> QED BY <2>1, <2>2, <2>3 DEF OneRowPerBook, BookKeys
<1>12. \A n \in snapshots' : n.id \in 1..calls
  BY <1>2, <1>3 DEF IngestSound, RowsSound
<1> QED BY <1>2, <1>4, <1>5, <1>6, <1>7, <1>8, <1>9, <1>10, <1>11, <1>12, <1>c
     DEF RowsSound, Commits

\* A commit leaves the open transactions sound: it takes none of their numbers, books
\* or names, and changes no game.
LEMMA CommitOthers ==
  ASSUME IngestSound, NEW s \in Session, Commit(s), NEW t \in Session \ {s}, Active(t)
  PROVE  TxnSound(t)'
<1>c. Commits(s)
  BY Committed
<1>1. /\ TxnSound(t) /\ TxnSound(s) /\ Separate(s, t) /\ txn'[t] = txn[t] /\ calls' = calls
      /\ Active(s)
  BY <1>c DEF IngestSound, Commits
<1>2. Game(t)' = Game(t) /\ (Resolved(t)' <=> Resolved(t)) /\ Offer(t)' = Offer(t)
  BY <1>1 DEF Game, Resolved, Offer
<1>3. \A e \in DOMAIN Visible(t) : e \in DOMAIN Visible(t)' /\ Visible(t)'[e].identity = Visible(t)[e].identity
  BY <1>1, <1>c DEF Visible, Commits
<1>4. txn[t].known \subseteq DOMAIN events
  BY <1>1 DEF TxnSound, TxnTyped
<1>5. TxnTyped(t)' /\ OwnEvents(t)'
  <2>1. DOMAIN events \subseteq DOMAIN events'
    BY <1>c DEF Commits
  <2> QED BY <1>1, <1>2, <2>1 DEF TxnSound, TxnTyped, OwnEvents, InBook, Resolved
<1>6. Wary(t)'
  BY <1>1, <1>4, <1>c DEF TxnSound, Wary, Commits
<1>7. EventFound(t)'
  <2>1. Reused(t) => Reused(t)'
    BY <1>1, <1>2, <1>3 DEF Reused
  <2>2. Proposed(t) => Proposed(t)'
    BY <1>1, <1>2, <1>3, <1>4, <1>c DEF Proposed, Commits
  <2> QED BY <1>1, <1>2, <1>3, <2>1, <2>2 DEF TxnSound, EventFound
<1>8. Gathered(t)'
  <2>1. \A i, j : Covered(t, i, j)' <=> Covered(t, i, j)
    BY <1>1, <1>2 DEF Covered
  <2>2. \A o \in txn[t].obs : \A i, j : RecordedAs(t, o, i, j)' <=> RecordedAs(t, o, i, j)
    BY <1>1, <1>3 DEF RecordedAs, TxnSound, Gathered
  <2> QED BY <1>1, <1>3, <2>1, <2>2 DEF TxnSound, Gathered
<1>9. Shelved(t)'
  BY <1>1, <1>2, <1>c DEF TxnSound, Shelved, Separate, Commits
<1>10. Uncommitted(t)'
  <2>1. \A e \in DOMAIN txn[s].events : e[1] = txn[s].call
    BY <1>1 DEF TxnSound, OwnEvents
  <2>2. \A n \in snapshots' : n \in snapshots \/ n.id = txn[s].call
    BY DEF Commit
  <2>3. \A o \in observations' : o \in observations \/ o.snapshot = txn[s].call
    BY <1>1 DEF Commit, TxnSound, Gathered
  <2> QED BY <1>1, <2>1, <2>2, <2>3, <1>c DEF TxnSound, Uncommitted, Separate, Commits
<1> QED BY <1>5, <1>6, <1>7, <1>8, <1>9, <1>10 DEF TxnSound

\* A commit.
LEMMA CommitKeeps ==
  ASSUME IngestSound, NEW s \in Session, Commit(s)
  PROVE  IngestSound'
<1>c. Commits(s)
  BY Committed
<1>1. \A t \in Session : Active(t)' => t # s /\ Active(t)
  BY <1>c DEF Active, Commits
<1>2. \A t \in Session : Active(t)' => TxnSound(t)'
  BY <1>1, CommitOthers
<1>3. \A t, u \in Session : Active(t)' /\ Active(u)' /\ t # u => Separate(t, u)'
  BY <1>1, <1>c DEF IngestSound, Separate, Commits
<1> QED BY <1>2, <1>3, <1>c, CommitRows DEF IngestSound, Commits

------------------------------------------------------------------------------
(* The theorems *)

\* A fetch that failed leaves a snapshot without rows.
LEMMA FailureKeeps ==
  ASSUME IngestSound, PersistFailure
  PROVE  IngestSound'
<1>1. /\ UNCHANGED <<events, books, idents, observations, txn>>
      /\ calls' = calls + 1 /\ calls \in Nat /\ calls' \in 0..MaxCalls /\ 1..calls \subseteq 1..calls'
      /\ calls' \in 1..calls' /\ calls' \notin 1..calls
  BY IngestAssumption DEF PersistFailure, IngestSound, RowsSound
<1>2. PICK new : snapshots' = snapshots \cup {new} /\ new.id = calls' /\ new.fetch = <<>>
  <2>1. PICK new : new = [id |-> calls + 1, fetch |-> <<>>, status |-> "failed"]
    OBVIOUS
  <2> QED BY <1>1, <2>1 DEF PersistFailure
<1>3. SnapshotsWhole'
  <2>1. \A n \in snapshots : Recorded(n.id)' = Offered(n.fetch)
    BY <1>1 DEF IngestSound, RowsSound, SnapshotsWhole, Recorded
  <2>2. \A o \in observations : o.snapshot \in 1..calls
    BY DEF IngestSound, RowsSound, SnapshotsWhole
  <2>3. PICK m : m = calls'
    OBVIOUS
  <2>4. Recorded(m)' = {}
    BY <1>1, <2>2, <2>3 DEF Recorded
  <2>5. Offered(<<>>) = {}
    BY DEF Offered
  <2>6. \A n \in snapshots' : Recorded(n.id)' = Offered(n.fetch)
    BY <1>2, <2>1, <2>3, <2>4, <2>5
  <2>7. {o.snapshot : o \in observations'} \subseteq {n.id : n \in snapshots'}
    BY <1>1, <1>2 DEF IngestSound, RowsSound, SnapshotsWhole
  <2> QED BY <2>6, <2>7 DEF SnapshotsWhole
<1>4. RowsSound'
  BY <1>1, <1>2, <1>3 DEF IngestSound, RowsSound, AmbiguityOnlyByOverlap, OnePricePerIdentity, OneRowPerBook
<1>5. ASSUME NEW t \in Session, Active(t)' PROVE TxnSound(t)'
  <2>1. TxnSound(t) /\ txn'[t] = txn[t] /\ txn[t].call \in 1..calls
    BY <1>1, <1>5 DEF IngestSound, Active, TxnSound, TxnTyped
  <2>2. Game(t)' = Game(t) /\ Visible(t)' = Visible(t) /\ (Resolved(t)' <=> Resolved(t))
        /\ Offer(t)' = Offer(t) /\ BookKeys' = BookKeys /\ Names' = Names
    BY <1>1 DEF Game, Visible, Resolved, Offer, BookKeys, Names
  <2>3. TxnTyped(t)' /\ OwnEvents(t)'
    BY <1>1, <2>1, <2>2 DEF TxnSound, TxnTyped, OwnEvents, InBook
  <2>4. Wary(t)' /\ EventFound(t)'
    BY <1>1, <2>1, <2>2 DEF TxnSound, Wary, EventFound, Reused, Proposed
  <2>5. Gathered(t)'
    BY <1>1, <2>1, <2>2 DEF TxnSound, Gathered, Covered, RecordedAs
  <2>6. Shelved(t)' /\ Uncommitted(t)'
    BY <1>1, <1>2, <2>1, <2>2 DEF TxnSound, Shelved, Uncommitted
  <2> QED BY <2>3, <2>4, <2>5, <2>6 DEF TxnSound
<1>6. \A t, u \in Session : Active(t)' /\ Active(u)' /\ t # u => Separate(t, u)'
  BY <1>1 DEF IngestSound, Active, Separate
<1> QED BY <1>1, <1>4, <1>5, <1>6 DEF IngestSound

\* Every step of a fetch keeps the invariant.
LEMMA IngestStep ==
  ASSUME IngestSound, [Next]_vars
  PROVE  IngestSound'
<1>1. ASSUME NEW s \in Session, Work(s) PROVE IngestSound'
  <2>1. CASE SkipGame(s) BY <2>1, SkipKeeps
  <2>2. CASE Reuse(s) BY <2>2, ReuseKeeps
  <2>3. CASE Propose(s) BY <2>3, ProposeKeeps
  <2>4. CASE Flush(s) BY <2>4, FlushKeeps
  <2>5. CASE EndGame(s) BY <2>5, EndGameKeeps
  <2>6. CASE Observe(s) BY <2>6, ObserveKeeps
  <2>7. CASE NewIdent(s) \/ FindBook(s) BY <2>7, FindKeeps
  <2>8. CASE AddBook(s) BY <2>8, AddBookKeeps
  <2>9. CASE AddIdent(s) BY <2>9, AddIdentKeeps
  <2>10. CASE Commit(s) BY <2>10, CommitKeeps
  <2>11. CASE DeadlockAbort(s) BY <2>11, RollbackKeeps DEF DeadlockAbort
  <2> QED BY <1>1, <2>1, <2>2, <2>3, <2>4, <2>5, <2>6, <2>7, <2>8, <2>9, <2>10, <2>11 DEF Work
<1>2. ASSUME NEW s \in Session, Crash(s) PROVE IngestSound'
  BY <1>2, RollbackKeeps DEF Crash
<1>3. ASSUME NEW s \in Session, NEW f \in Fetch, Begin(s, f) PROVE IngestSound'
  BY <1>3, BeginKeeps
<1>4. CASE UNCHANGED vars
  <2>1. UNCHANGED <<events, books, idents, observations, snapshots, calls, txn>>
    BY <1>4 DEF vars
  <2>2. UNCHANGED tables /\ calls \in Nat /\ calls' = calls /\ calls \in 0..MaxCalls
    BY <2>1, IngestAssumption DEF tables, IngestSound, RowsSound
  <2>3. RowsSound'
    BY <2>2, RowsStand DEF IngestSound
  <2>4. \A t \in Session : Active(t)' => TxnSound(t)'
    BY <2>1, <2>2, OthersStand DEF IngestSound, Active
  <2>5. \A t, u \in Session : Active(t)' /\ Active(u)' /\ t # u => Separate(t, u)'
    BY <2>1 DEF IngestSound, Active, Separate
  <2> QED BY <2>1, <2>3, <2>4, <2>5 DEF IngestSound
<1> QED BY <1>1, <1>2, <1>3, <1>4, FailureKeeps DEF Next

\* No fetch has begun.
LEMMA IngestInit ==
  ASSUME Init
  PROVE  IngestSound
<1>1. /\ DOMAIN txn = Session /\ \A s \in Session : ~Active(s)
      /\ DOMAIN events = {} /\ calls \in 0..MaxCalls
      /\ books = {} /\ idents = {} /\ observations = {} /\ snapshots = {}
  BY IngestAssumption DEF Init, Active
<1>2. RowsSound
  BY <1>1 DEF RowsSound, AmbiguityOnlyByOverlap, SnapshotsWhole, OnePricePerIdentity, OneRowPerBook
<1> QED BY <1>1, <1>2 DEF IngestSound

\* What concurrent fetches leave behind is sound, whatever they race, crash or roll
\* back: persist_fetch records each offer under the game it was made for, trusts no
\* event whose id is another's too, and keeps one row for each book.
THEOREM FetchesIngestSoundly == Spec => []IngestionSound
<1>1. ASSUME IngestSound PROVE IngestionSound
  <2>1. /\ DOMAIN events \subseteq (1..MaxCalls) \X Nat
        /\ {n.id : n \in snapshots} \subseteq 1..calls
    BY <1>1, IngestAssumption DEF IngestSound, RowsSound
  <2>2. TypeOK
    BY <1>1, <2>1 DEF IngestSound, RowsSound, TypeOK, TxnSound, TxnTyped, Resolved, Statuses
  <2> QED BY <1>1, <2>2 DEF IngestSound, RowsSound, IngestionSound
<1> QED BY <1>1, IngestInit, IngestStep, PTL DEF Spec

\* Quarantine is for ever: no fetch makes an event in conflict matched again, or gives
\* an event another game.
THEOREM QuarantineNeverEnds == Spec => QuarantineFinal
<1> DEFINE Final == \A e \in DOMAIN events :
                      /\ e \in DOMAIN events'
                      /\ events'[e].identity = events[e].identity
                      /\ events[e].status = "conflict" => events'[e].status = "conflict"
<1>1. ASSUME IngestSound, [Next]_vars PROVE [Final]_vars
  <2>1. ASSUME NEW s \in Session, Commit(s) PROVE Final
    <3>1. Commits(s)
      BY <1>1, <2>1, Committed
    <3>2. \A e \in DOMAIN events : events[e].status = "conflict" => events'[e].status = "conflict"
      BY <3>1 DEF Commits
    <3> QED BY <3>1, <3>2 DEF Commits
  <2>2. ASSUME UNCHANGED events PROVE Final
    BY <2>2
  <2> QED BY <1>1, <2>1, <2>2
        DEF Next, Work, SkipGame, Reuse, Propose, Flush, EndGame, Observe, NewIdent, FindBook,
            AddBook, AddIdent, DeadlockAbort, Crash, Begin, PersistFailure, Rollback, Continue,
            tables, vars
<1>2. Spec => [][Final]_vars
  <2>1. Init => IngestSound
    BY IngestInit
  <2>2. IngestSound /\ [Next]_vars => IngestSound'
    BY IngestStep
  <2>3. IngestSound /\ [Next]_vars => [Final]_vars
    BY <1>1
  <2> HIDE DEF Final
  <2> QED BY <2>1, <2>2, <2>3, PTL DEF Spec
<1> QED BY <1>2 DEF QuarantineFinal


-----------------------------------------------------------------------------
(* The pricing of a board. *)

\* What a run uses of the lines of a board, and what it makes of them.
UsedLines(lines) == {x \in LatestStates({y \in lines : KnownBy(y)}) : EligibleLine(x)}
MainOf(b) == MainPairs(b.market, PairsOf(b.market, UsedLines(b.lines)))
BooksOf(b) == {p.book : p \in MainOf(b)}
WeightsOf(b) == [k \in BooksOf(b) |-> OverroundWeight((CHOOSE q \in MainOf(b) : q.book = k).over)]
CentersOf(b) == IF b.market = "moneyline" THEN [k \in BooksOf(b) |-> 0] ELSE BookCenters(b.market, MainOf(b))
CenterOf(b) == IF b.market = "moneyline" THEN 0 ELSE MarketCenter(CentersOf(b), WeightsOf(b))
CandidateOf(b, side) ==
    Assessed(b.market, MainOf(b), side, CentersOf(b), WeightsOf(b), CenterOf(b))

\* Every candidate is that of a side of a market with enough books.
LEMMA CandidateIs ==
  ASSUME NEW b, NEW c \in CandidatesOf(b.market, b.lines)
  PROVE  /\ ~(Cardinality(MainOf(b)) < MinBooks)
         /\ MainOf(b) \subseteq PairsOf(b.market, UsedLines(b.lines))
         /\ \E side \in Range(Sides(b.market)) : c = CandidateOf(b, side)
<1>1. CandidatesOf(b.market, b.lines) =
        IF Cardinality(MainOf(b)) < MinBooks THEN {}
        ELSE {CandidateOf(b, side) : side \in Range(Sides(b.market))}
  BY DEF CandidatesOf, CandidateOf, MainOf, BooksOf, WeightsOf, CentersOf, CenterOf, UsedLines
<1>2. ~(Cardinality(MainOf(b)) < MinBooks)
  BY <1>1
<1>3. \E side \in Range(Sides(b.market)) : c = CandidateOf(b, side)
  BY <1>1, <1>2
<1>4. MainOf(b) \subseteq PairsOf(b.market, UsedLines(b.lines))
  BY DEF MainOf, MainPairs
<1>5. QED
  BY <1>2, <1>3, <1>4

\* A market has two sides.
LEMMA SidesAre ==
  ASSUME NEW market \in {"moneyline", "spread", "total"}
  PROVE  /\ Range(Sides(market)) = {Sides(market)[1], Sides(market)[2]}
         /\ Sides(market)[1] # Sides(market)[2]
         /\ market = "total" => Sides(market)[1] = "over" /\ Sides(market)[2] = "under"
         /\ market # "total" => Sides(market)[1] = "home" /\ Sides(market)[2] = "away"
BY DEF Sides, Range

\* A pair is two lines of one book, one for each side, on one line.
PairShape(market, lines, p) ==
    /\ p.lines \subseteq lines /\ p = PairOf(market, p.lines)
    /\ p.lines \in LineGroups(market, {x \in lines : x.book = p.book})
    /\ Fit(market, p.lines)
    /\ \A x \in p.lines : x.book = p.book /\ LineOf(market, x) = p.line
    /\ \A side \in Range(Sides(market)) :
          On(p.lines, side) \in p.lines /\ On(p.lines, side).side = side

\* What a pair is made of: two sides of one line at one book.
LEMMA PairsAre ==
  ASSUME NEW market \in {"moneyline", "spread", "total"}, NEW lines,
         NEW p \in PairsOf(market, lines)
  PROVE  PairShape(market, lines, p)
<1>1. PICK k \in {x.book : x \in lines} :
         p \in {PairOf(market, g) : g \in {h \in LineGroups(market, {x \in lines : x.book = k}) : Fit(market, h)}}
  BY DEF PairsOf
<1> DEFINE own == {x \in lines : x.book = k}
<1>2. PICK g \in LineGroups(market, own) : Fit(market, g) /\ p = PairOf(market, g)
  BY <1>1
<1>3. g \subseteq own
  BY <1>2 DEF LineGroups
<1>4. ASSUME NEW side \in Range(Sides(market)) PROVE On(g, side) \in g /\ On(g, side).side = side
  <2>1. side \in {x.side : x \in g}
    BY <1>2 DEF Fit
  <2>2. \E x \in g : x.side = side
    BY <2>1
  <2>3. QED
    BY <2>2 DEF On
<1>5. On(g, Sides(market)[1]) \in g
  BY <1>4, SidesAre
<1>6. p.lines = g /\ p.book = On(g, Sides(market)[1]).book /\ p.line = LineOf(market, On(g, Sides(market)[1]))
  BY <1>2 DEF PairOf
<1>7. p.book = k /\ \A x \in g : x.book = k
  BY <1>3, <1>5, <1>6
<1>8. \A x \in g : LineOf(market, x) = p.line
  BY <1>2, <1>5, <1>6 DEF Fit
<1>9. QED
  BY <1>2, <1>3, <1>4, <1>6, <1>7, <1>8 DEF PairShape

\* A book's newest lines are its only ones that count, and what is in one snapshot has
\* the times of the snapshot.
LEMMA UsedIsNewest ==
  ASSUME NEW b \in Boards, NEW y \in UsedLines(b.lines), NEW x \in b.lines,
         x.book = y.book, KnownBy(x)
  PROVE  ~NewerLine(x, y)
<1>1. PICK top \in b.lines :
         /\ y \in b.lines /\ top.book = y.book /\ top.snap = y.snap
         /\ ~ \E z \in {w \in b.lines : KnownBy(w)} : z.book = top.book /\ NewerLine(z, top)
  BY DEF UsedLines, LatestStates
<1>2. ~NewerLine(x, top)
  BY <1>1
<1>3. top.requested = y.requested /\ top.observed = y.observed /\ top.ingested = y.ingested
  BY <1>1, BoardAssumption
<1>4. QED
  BY <1>1, <1>2, <1>3 DEF NewerLine

\* The pairs of finitely many lines are finitely many.
LEMMA PairsFinite ==
  ASSUME NEW market, NEW lines, IsFiniteSet(lines)
  PROVE  IsFiniteSet(PairsOf(market, lines))
<1> DEFINE T == {PairOf(market, g) : g \in SUBSET lines}
           f == [g \in SUBSET lines |-> PairOf(market, g)]
<1>1. IsFiniteSet(SUBSET lines)
  BY FS_SUBSET
<1>2. f \in Surjection(SUBSET lines, T)
  BY DEF Surjection
<1>3. IsFiniteSet(T)
  BY <1>1, <1>2, FS_Surjection
<1>4. PairsOf(market, lines) \subseteq T
  <2> SUFFICES ASSUME NEW p \in PairsOf(market, lines) PROVE p \in T
    OBVIOUS
  <2>1. PICK k \in {x.book : x \in lines} :
         p \in {PairOf(market, g) : g \in {h \in LineGroups(market, {x \in lines : x.book = k}) : Fit(market, h)}}
    BY DEF PairsOf
  <2>2. PICK g \in LineGroups(market, {x \in lines : x.book = k}) : p = PairOf(market, g)
    BY <2>1
  <2>3. g \subseteq {x \in lines : x.book = k}
    BY <2>2 DEF LineGroups
  <2>4. QED
    BY <2>2, <2>3
<1>5. QED
  BY <1>3, <1>4, FS_Subset

\* A board that has candidates has pairs, finitely many, of finitely many lines.
LEMMA MainIs ==
  ASSUME NEW b \in Boards, NEW c \in CandidatesOf(b.market, b.lines)
  PROVE  /\ b.market \in {"moneyline", "spread", "total"}
         /\ UsedLines(b.lines) \subseteq b.lines /\ IsFiniteSet(UsedLines(b.lines))
         /\ IsFiniteSet(PairsOf(b.market, UsedLines(b.lines)))
         /\ MainOf(b) \subseteq PairsOf(b.market, UsedLines(b.lines))
         /\ IsFiniteSet(MainOf(b)) /\ MainOf(b) # {}
         /\ \A p \in PairsOf(b.market, UsedLines(b.lines)) :
               PairShape(b.market, UsedLines(b.lines), p)
<1>1. b.market \in {"moneyline", "spread", "total"} /\ IsFiniteSet(b.lines)
      /\ MinBooks \in Nat /\ MinBooks >= 2
  BY BoardAssumption
<1>2. UsedLines(b.lines) \subseteq b.lines
  BY DEF UsedLines, LatestStates
<1>3. IsFiniteSet(UsedLines(b.lines))
  BY <1>1, <1>2, FS_Subset
<1>4. IsFiniteSet(PairsOf(b.market, UsedLines(b.lines)))
  BY <1>3, PairsFinite
<1>5. MainOf(b) \subseteq PairsOf(b.market, UsedLines(b.lines)) /\ ~(Cardinality(MainOf(b)) < MinBooks)
  BY CandidateIs
<1>6. IsFiniteSet(MainOf(b))
  BY <1>4, <1>5, FS_Subset
<1>7. MainOf(b) # {}
  BY <1>1, <1>5, FS_EmptySet
<1>8. \A p \in PairsOf(b.market, UsedLines(b.lines)) : PairShape(b.market, UsedLines(b.lines), p)
  BY <1>1, PairsAre
<1>9. QED
  BY <1>1, <1>2, <1>3, <1>4, <1>5, <1>6, <1>7, <1>8

\* What a run returned is what its board gives.
PricingInv ==
    \/ candidates = {}
    \/ board \in Boards /\ candidates = CandidatesOf(board.market, board.lines)

\* The candidates are those of the board they were priced from.
LEMMA PricingKeeps == ConsensusSpec => []PricingInv
<1>1. ConsensusInit => PricingInv
  BY DEF ConsensusInit, PricingInv
<1>2. PricingInv /\ [ConsensusNext]_consensusVars => PricingInv'
  <2>1. ASSUME NEW b \in Boards, Analyze(b) PROVE PricingInv'
    BY <2>1 DEF PricingInv, Analyze
  <2>2. PricingInv /\ UNCHANGED consensusVars => PricingInv'
    BY DEF PricingInv, consensusVars
  <2>3. QED
    BY <2>1, <2>2 DEF ConsensusNext
<1>3. QED
  BY <1>1, <1>2, PTL DEF ConsensusSpec

\* A price that its book replaced or withdrew by the cutoff neither is offered nor vouches
\* for another one (_latest_market_states), whatever lines are stored in whatever order.
THEOREM WithdrawnPricesAreGone == ConsensusSpec => []OfferedStill
<1>1. PricingInv => OfferedStill
  <2> SUFFICES ASSUME PricingInv, NEW c \in candidates, NEW p \in c.main, NEW x \in board.lines,
                      x.book = p.book, KnownBy(x), NEW y \in p.lines
               PROVE  ~NewerLine(x, y)
    BY DEF OfferedStill
  <2>1. board \in Boards /\ c \in CandidatesOf(board.market, board.lines)
    BY DEF PricingInv
  <2>2. c.main = MainOf(board)
    <3>1. PICK side : c = CandidateOf(board, side)
      BY <2>1, CandidateIs
    <3>2. QED
      BY <3>1 DEF CandidateOf, Assessed
  <2>3. p \in PairsOf(board.market, UsedLines(board.lines))
    BY <2>1, <2>2, MainIs
  <2>4. PairShape(board.market, UsedLines(board.lines), p)
    BY <2>1, <2>3, MainIs
  <2>5. y \in UsedLines(board.lines) /\ y.book = p.book
    BY <2>4 DEF PairShape
  <2>6. QED
    BY <2>1, <2>5, UsedIsNewest
<1>2. QED
  BY <1>1, PricingKeeps, PTL

-----------------------------------------------------------------------------
(* Medians. *)

AtMost(f, v) == {i \in DOMAIN f : f[i] <= v}
AtLeast(f, v) == {i \in DOMAIN f : f[i] >= v}
LowOf(f) == {v \in Range(f) : 2 * Cardinality(AtMost(f, v)) >= Cardinality(DOMAIN f)}
HighOf(f) == {v \in Range(f) : 2 * Cardinality(AtLeast(f, v)) >= Cardinality(DOMAIN f)}

\* The two values a median lies between.
LEMMA MedianIs == \A f : DoubleMedian(f) = Min(LowOf(f)) + Max(HighOf(f))
BY DEF DoubleMedian, LowOf, HighOf, AtMost, AtLeast

\* The values of a function on a finite set are finitely many.
LEMMA RangeFinite ==
  ASSUME NEW f, IsFiniteSet(DOMAIN f)
  PROVE  IsFiniteSet(Range(f))
<1> DEFINE g == [x \in DOMAIN f |-> f[x]]
<1>1. g \in Surjection(DOMAIN f, Range(f))
  BY DEF Surjection, Range
<1> HIDE DEF g
<1>2. QED
  BY <1>1, FS_Surjection

\* The lower and the upper median exist.
LEMMA MiddleIs ==
  ASSUME NEW D, IsFiniteSet(D), D # {}, NEW f \in [D -> Int]
  PROVE  /\ LowOf(f) \subseteq Int /\ IsFiniteSet(LowOf(f)) /\ LowOf(f) # {}
         /\ HighOf(f) \subseteq Int /\ IsFiniteSet(HighOf(f)) /\ HighOf(f) # {}
<1>1. DOMAIN f = D /\ IsFiniteSet(Range(f)) /\ Range(f) \subseteq Int /\ Range(f) # {}
  BY RangeFinite DEF Range
<1>2. LowOf(f) \subseteq Range(f) /\ HighOf(f) \subseteq Range(f)
  BY DEF LowOf, HighOf
<1>3. IsFiniteSet(LowOf(f)) /\ IsFiniteSet(HighOf(f))
  BY <1>1, <1>2, FS_Subset
<1>4. Cardinality(D) \in Nat
  BY FS_CardinalityType
<1>5. \A i \in D : f[i] \in Range(f)
  BY <1>1 DEF Range
<1>6. Max(Range(f)) \in LowOf(f)
  <2>1. Max(Range(f)) \in Range(f) /\ \A y \in Range(f) : Max(Range(f)) >= y
    BY <1>1, MaxIs
  <2>2. AtMost(f, Max(Range(f))) = D
    <3>1. \A i \in D : f[i] \in Int /\ Max(Range(f)) \in Int /\ Max(Range(f)) >= f[i]
      BY <1>1, <1>5, <2>1
    <3>2. \A i \in D : f[i] <= Max(Range(f))
      BY <3>1
    <3>3. QED
      BY <1>1, <3>2 DEF AtMost
  <2>3. QED
    BY <1>1, <1>4, <2>1, <2>2 DEF LowOf
<1>7. Min(Range(f)) \in HighOf(f)
  <2>1. Min(Range(f)) \in Range(f) /\ \A y \in Range(f) : Min(Range(f)) <= y
    BY <1>1, MinIs
  <2>2. AtLeast(f, Min(Range(f))) = D
    <3>1. \A i \in D : f[i] \in Int /\ Min(Range(f)) \in Int /\ Min(Range(f)) <= f[i]
      BY <1>1, <1>5, <2>1
    <3>2. \A i \in D : f[i] >= Min(Range(f))
      BY <3>1
    <3>3. QED
      BY <1>1, <3>2 DEF AtLeast
  <2>3. QED
    BY <1>1, <1>4, <2>1, <2>2 DEF HighOf
<1>8. QED
  BY <1>1, <1>2, <1>3, <1>6, <1>7

\* So twice the median is an integer, between twice the least and the greatest value.
LEMMA MedianType ==
  ASSUME NEW D, IsFiniteSet(D), D # {}, NEW f \in [D -> Int]
  PROVE  /\ DoubleMedian(f) \in Int
         /\ Min(LowOf(f)) \in LowOf(f) /\ \A y \in LowOf(f) : Min(LowOf(f)) <= y
         /\ Max(HighOf(f)) \in HighOf(f) /\ \A y \in HighOf(f) : Max(HighOf(f)) >= y
<1>1. /\ LowOf(f) \in SUBSET Int /\ IsFiniteSet(LowOf(f)) /\ LowOf(f) # {}
      /\ HighOf(f) \in SUBSET Int /\ IsFiniteSet(HighOf(f)) /\ HighOf(f) # {}
  BY MiddleIs
<1>2. Min(LowOf(f)) \in LowOf(f) /\ \A y \in LowOf(f) : Min(LowOf(f)) <= y
  BY <1>1, MinIs
<1>3. Max(HighOf(f)) \in HighOf(f) /\ \A y \in HighOf(f) : Max(HighOf(f)) >= y
  BY <1>1, MaxIs
<1>4. Min(LowOf(f)) \in Int /\ Max(HighOf(f)) \in Int
  BY <1>1, <1>2, <1>3
<1>5. QED
  BY <1>2, <1>3, <1>4, MedianIs

\* The median of what is missing to a whole is what the median misses to it.
LEMMA MedianMirror ==
  ASSUME NEW D, IsFiniteSet(D), D # {}, NEW f \in [D -> Int], NEW g \in [D -> Int], NEW whole \in Int,
         \A i \in D : g[i] = whole - f[i]
  PROVE  DoubleMedian(g) = 2 * whole - DoubleMedian(f)
<1>1. \A i \in D : f[i] \in Int /\ g[i] \in Int /\ f[i] = whole - g[i] /\ g[i] = whole - f[i]
  OBVIOUS
<1>2. ASSUME NEW v \in Int
      PROVE  /\ AtMost(g, whole - v) = AtLeast(f, v) /\ AtLeast(g, whole - v) = AtMost(f, v)
             /\ whole - v \in Range(g) <=> v \in Range(f)
  <2>1. \A i \in D : (g[i] <= whole - v <=> f[i] >= v) /\ (g[i] >= whole - v <=> f[i] <= v)
                     /\ (g[i] = whole - v <=> f[i] = v)
    BY <1>1
  <2>2. DOMAIN f = D /\ DOMAIN g = D
    OBVIOUS
  <2>3. whole - v \in Range(g) <=> \E i \in D : g[i] = whole - v
    BY <2>2 DEF Range
  <2>4. v \in Range(f) <=> \E i \in D : f[i] = v
    BY <2>2 DEF Range
  <2>5. QED
    BY <2>1, <2>2, <2>3, <2>4 DEF AtMost, AtLeast
<1>3. ASSUME NEW v \in Int
      PROVE  (whole - v \in LowOf(g) <=> v \in HighOf(f)) /\ (whole - v \in HighOf(g) <=> v \in LowOf(f))
  <2>1. DOMAIN f = D /\ DOMAIN g = D
    OBVIOUS
  <2>2. whole - v \in LowOf(g) <=> whole - v \in Range(g) /\ 2 * Cardinality(AtMost(g, whole - v)) >= Cardinality(D)
    BY <2>1 DEF LowOf
  <2>3. whole - v \in HighOf(g) <=> whole - v \in Range(g) /\ 2 * Cardinality(AtLeast(g, whole - v)) >= Cardinality(D)
    BY <2>1 DEF HighOf
  <2>4. v \in LowOf(f) <=> v \in Range(f) /\ 2 * Cardinality(AtMost(f, v)) >= Cardinality(D)
    BY <2>1 DEF LowOf
  <2>5. v \in HighOf(f) <=> v \in Range(f) /\ 2 * Cardinality(AtLeast(f, v)) >= Cardinality(D)
    BY <2>1 DEF HighOf
  <2>6. QED
    BY <1>2, <2>2, <2>3, <2>4, <2>5
<1> DEFINE lf == Min(LowOf(f))
           hf == Max(HighOf(f))
           lg == Min(LowOf(g))
           hg == Max(HighOf(g))
<1>4. /\ lf \in Int /\ lf \in LowOf(f) /\ \A y \in LowOf(f) : lf <= y
      /\ hf \in Int /\ hf \in HighOf(f) /\ \A y \in HighOf(f) : hf >= y
  BY MedianType, MiddleIs
<1>5. /\ lg \in Int /\ lg \in LowOf(g) /\ \A y \in LowOf(g) : lg <= y
      /\ hg \in Int /\ hg \in HighOf(g) /\ \A y \in HighOf(g) : hg >= y
  BY MedianType, MiddleIs
<1>6. DoubleMedian(f) = lf + hf /\ DoubleMedian(g) = lg + hg
  BY MedianIs
<1> HIDE DEF lf, hf, lg, hg
<1>7. lg = whole - hf
  <2>1. whole - hf \in LowOf(g) /\ lg <= whole - hf
    BY <1>3, <1>4, <1>5
  <2>2. whole - lg \in Int /\ whole - (whole - lg) = lg
    BY <1>5
  <2>3. whole - lg \in HighOf(f)
    BY <1>3, <1>5, <2>2
  <2>4. hf >= whole - lg
    BY <1>4, <2>3
  <2>5. QED
    BY <1>4, <1>5, <2>1, <2>4
<1>8. hg = whole - lf
  <2>1. whole - lf \in HighOf(g) /\ hg >= whole - lf
    BY <1>3, <1>4, <1>5
  <2>2. whole - hg \in Int /\ whole - (whole - hg) = hg
    BY <1>5
  <2>3. whole - hg \in LowOf(f)
    BY <1>3, <1>5, <2>2
  <2>4. lf <= whole - hg
    BY <1>4, <2>3
  <2>5. QED
    BY <1>4, <1>5, <2>1, <2>4
<1>9. QED
  BY <1>4, <1>6, <1>7, <1>8

\* What more than half have is the median.
LEMMA MedianMajority ==
  ASSUME NEW D, IsFiniteSet(D), NEW f \in [D -> Int], NEW v \in Int,
         2 * Cardinality({i \in D : f[i] = v}) > Cardinality(D)
  PROVE  DoubleMedian(f) = 2 * v
<1> DEFINE H == {i \in D : f[i] = v}
<1>1. IsFiniteSet(H) /\ Cardinality(H) \in Nat /\ Cardinality(D) \in Nat
  BY FS_Subset, FS_CardinalityType
<1>2. 2 * Cardinality(H) > Cardinality(D)
  OBVIOUS
<1>3. H # {}
  BY <1>1, <1>2, FS_EmptySet
<1>4. D # {} /\ v \in Range(f) /\ DOMAIN f = D
  BY <1>3 DEF Range
<1>5. \A S \in SUBSET D : IsFiniteSet(S) /\ Cardinality(S) \in Nat
  BY FS_Subset, FS_CardinalityType
<1>6. ASSUME NEW S \in SUBSET D, H \subseteq S PROVE 2 * Cardinality(S) >= Cardinality(D)
  <2>1. Cardinality(H) <= Cardinality(S)
    BY <1>5, <1>6, FS_Subset
  <2> HIDE DEF H
  <2>2. QED
    BY <1>1, <1>2, <1>5, <2>1
<1>7. ASSUME NEW S \in SUBSET D, H \cap S = {} PROVE ~(2 * Cardinality(S) >= Cardinality(D))
  <2>0. D \ H \in SUBSET D /\ S \subseteq D \ H
    BY <1>7
  <2>1. S \subseteq D \ H /\ IsFiniteSet(D \ H)
    BY <1>5, <2>0
  <2>2. Cardinality(S) <= Cardinality(D \ H)
    BY <2>1, FS_Subset
  <2>3. Cardinality(D \ H) = Cardinality(D) - Cardinality(D \cap H)
    BY FS_Difference
  <2>4. D \cap H = H
    OBVIOUS
  <2>5. Cardinality(D \ H) \in Nat
    BY <2>1, FS_CardinalityType
  <2>6. Cardinality(D \ H) = Cardinality(D) - Cardinality(H)
    BY <2>3, <2>4
  <2>7. Cardinality(S) \in Nat
    BY <1>5
  <2> HIDE DEF H
  <2>8. QED
    BY <1>1, <1>2, <2>2, <2>5, <2>6, <2>7
<1> DEFINE lf == Min(LowOf(f))
           hf == Max(HighOf(f))
<1>8. /\ lf \in Int /\ lf \in LowOf(f) /\ \A y \in LowOf(f) : lf <= y
      /\ hf \in Int /\ hf \in HighOf(f) /\ \A y \in HighOf(f) : hf >= y
  BY <1>4, MedianType, MiddleIs
<1>9. v \in LowOf(f) /\ v \in HighOf(f)
  <2>1. AtMost(f, v) \in SUBSET D /\ H \subseteq AtMost(f, v)
    BY <1>4 DEF AtMost
  <2>2. AtLeast(f, v) \in SUBSET D /\ H \subseteq AtLeast(f, v)
    BY <1>4 DEF AtLeast
  <2> HIDE DEF H
  <2>3. 2 * Cardinality(AtMost(f, v)) >= Cardinality(D) /\ 2 * Cardinality(AtLeast(f, v)) >= Cardinality(D)
    BY <1>6, <2>1, <2>2
  <2>4. QED
    BY <1>4, <2>3 DEF LowOf, HighOf
<1>10. \A u \in LowOf(f) : ~(u < v)
  <2> SUFFICES ASSUME NEW u \in LowOf(f), u < v PROVE FALSE
    OBVIOUS
  <2>1. u \in Int
    BY <1>4, MiddleIs
  <2>2. AtMost(f, u) \in SUBSET D /\ H \cap AtMost(f, u) = {}
    BY <1>4, <2>1 DEF AtMost
  <2>3. 2 * Cardinality(AtMost(f, u)) >= Cardinality(D)
    BY <1>4 DEF LowOf
  <2> HIDE DEF H
  <2>4. QED
    BY <1>7, <2>2, <2>3
<1>11. \A u \in HighOf(f) : ~(u > v)
  <2> SUFFICES ASSUME NEW u \in HighOf(f), u > v PROVE FALSE
    OBVIOUS
  <2>1. u \in Int
    BY <1>4, MiddleIs
  <2>2. AtLeast(f, u) \in SUBSET D /\ H \cap AtLeast(f, u) = {}
    BY <1>4, <2>1 DEF AtLeast
  <2>3. 2 * Cardinality(AtLeast(f, u)) >= Cardinality(D)
    BY <1>4 DEF HighOf
  <2> HIDE DEF H
  <2>4. QED
    BY <1>7, <2>2, <2>3
<1>12. DoubleMedian(f) = lf + hf
  BY MedianIs
<1> HIDE DEF lf, hf, H
<1>13. lf = v /\ hf = v
  BY <1>8, <1>9, <1>10, <1>11
<1>14. QED
  BY <1>12, <1>13

-----------------------------------------------------------------------------
(* Rounding, prices and probabilities. *)

\* Division with a remainder.
LEMMA Division ==
  ASSUME NEW n \in Int, NEW d \in Int, d > 0
  PROVE  /\ n \div d \in Int /\ n % d \in Int /\ n = d * (n \div d) + (n % d)
         /\ 0 <= n % d /\ n % d < d
OBVIOUS

\* A rounded quotient is off by a half at most.
LEMMA RoundNear ==
  ASSUME NEW n \in Int, NEW d \in Int, d > 0
  PROVE  /\ RoundHalfEven(n, d) \in Int
         /\ 2 * (n - d * RoundHalfEven(n, d)) <= d /\ 2 * (d * RoundHalfEven(n, d) - n) <= d
<1> DEFINE q == n \div d
           r == n % d
           x == RoundHalfEven(n, d)
<1>1. q \in Int /\ r \in Int /\ n = d * q + r /\ 0 <= r /\ r < d
  BY Division
<1>2. (x = q /\ 2 * r <= d) \/ (x = q + 1 /\ 2 * r >= d)
  <2>1. x = IF 2 * r > d \/ (2 * r = d /\ q % 2 = 1) THEN q + 1 ELSE q
    BY DEF RoundHalfEven
  <2> HIDE DEF q, r, x
  <2>2. QED
    BY <1>1, <2>1
<1>3. d * q \in Int /\ d * (q + 1) = d * q + d
  BY <1>1
<1> HIDE DEF q, r, x
<1>4. CASE x = q /\ 2 * r <= d
  BY <1>1, <1>3, <1>4 DEF x
<1>5. CASE x = q + 1 /\ 2 * r >= d
  <2>1. x \in Int /\ d * x = d * q + d
    BY <1>1, <1>3, <1>5
  <2>2. d * x \in Int
    BY <2>1
  <2>3. 2 * (n - d * x) <= d /\ 2 * (d * x - n) <= d
    BY <1>1, <1>3, <1>5, <2>1
  <2>4. QED
    BY <2>1, <2>3 DEF x
<1>6. QED
  BY <1>2, <1>4, <1>5

\* A share of a whole, rounded, is between nothing and the whole.
LEMMA RoundWithin ==
  ASSUME NEW n \in Int, NEW d \in Int, d > 0, NEW whole \in Int, 0 <= n, n <= whole * d
  PROVE  RoundHalfEven(n, d) \in 0 .. whole
<1> DEFINE x == RoundHalfEven(n, d)
<1>1. x \in Int /\ 2 * (n - d * x) <= d /\ 2 * (d * x - n) <= d
  BY RoundNear
<1> HIDE DEF x
<1>2. d * x \in Int /\ whole * d \in Int
  BY <1>1
<1>3. ~(x < 0)
  <2> SUFFICES ASSUME x <= -1 PROVE FALSE
    BY <1>1
  <2>1. d * x <= -d
    BY <1>1
  <2>2. QED
    BY <1>1, <1>2, <2>1
<1>4. ~(x > whole)
  <2> SUFFICES ASSUME x >= whole + 1 PROVE FALSE
    BY <1>1
  <2>1. d * x >= d * (whole + 1) /\ d * (whole + 1) = whole * d + d
    BY <1>1
  <2>2. QED
    BY <1>1, <1>2, <2>1
<1>5. QED
  BY <1>1, <1>3, <1>4 DEF x

\* A price returns the stake at least.
LEMMA PriceIs ==
  ASSUME NEW x, x.odds \in Int, Magnitude(x.odds) >= 100
  PROVE  PriceOf(x) \in Int /\ PriceOf(x) >= 100
<1> DEFINE n == -x.odds
<1>1. CASE x.odds > 0
  BY <1>1 DEF PriceOf, DecimalOdds
<1>2. CASE ~(x.odds > 0)
  <2>1. n \in Int /\ n > 0
    BY <1>2 DEF Magnitude
  <2>2. 10000 \div n \in Int /\ 10000 \div n >= 0
    <3> HIDE DEF n
    <3>1. 10000 \div n \in Int /\ 10000 % n \in Int /\ 10000 = n * (10000 \div n) + (10000 % n)
          /\ 0 <= 10000 % n /\ 10000 % n < n
      BY <2>1, Division
    <3>2. 10000 \div n >= 0
      <4> DEFINE q == 10000 \div n
      <4>1. q \in Int /\ 10000 < n * q + n
        BY <2>1, <3>1
      <4> HIDE DEF q
      <4>2. ASSUME q <= -1 PROVE FALSE
        <5>1. n * q <= -n
          BY <2>1, <4>1, <4>2
        <5>2. n * q \in Int
          BY <2>1, <4>1
        <5>3. QED
          BY <2>1, <4>1, <5>1, <5>2
      <4>3. QED
        BY <4>1, <4>2 DEF q
    <3>3. QED
      BY <3>1, <3>2
  <2>3. PriceOf(x) = 100 + 10000 \div n
    BY <1>2 DEF PriceOf, DecimalOdds
  <2>4. QED
    BY <2>2, <2>3
<1>3. QED
  BY <1>1, <1>2

\* The chances of a pair add up to one.
LEMMA NoVigIs ==
  ASSUME NEW d1 \in Int, NEW d2 \in Int, d1 >= 100, d2 >= 100
  PROVE  /\ NoVig(d1, d2)[1] \in 0 .. Quantum /\ NoVig(d1, d2)[2] \in 0 .. Quantum
         /\ NoVig(d1, d2)[2] = Quantum - NoVig(d1, d2)[1]
<1> DEFINE n == Quantum * d2
           d == d1 + d2
           x == RoundHalfEven(n, d)
<1>1. Quantum \in Int /\ Quantum > 0
  BY CurveAssumption
<1>2. n \in Int /\ d \in Int /\ d > 0 /\ 0 <= n /\ n <= Quantum * d
  <2>1. Quantum * d2 >= 0 /\ Quantum * d1 >= 0
    BY <1>1
  <2>2. Quantum * (d1 + d2) = Quantum * d1 + Quantum * d2
    BY <1>1
  <2>3. Quantum * d1 \in Int /\ Quantum * d2 \in Int
    BY <1>1
  <2>4. QED
    BY <1>1, <2>1, <2>2, <2>3
<1>3. x \in 0 .. Quantum
  <2> HIDE DEF n, d
  <2>1. QED
    BY <1>1, <1>2, RoundWithin
<1>4. NoVig(d1, d2) = <<x, Quantum - x>>
  BY DEF NoVig
<1> HIDE DEF x
<1>5. QED
  BY <1>1, <1>3, <1>4

-----------------------------------------------------------------------------
(* The empirical curve. *)

Lined == {"spread", "total"}
Signs == {-1, 0, 1}

\* Totals are as large as what they are the totals of.
LEMMA TotalLeq ==
  ASSUME NEW S, IsFiniteSet(S), NEW w, NEW v,
         \A x \in S : w[x] \in Int /\ v[x] \in Int /\ w[x] <= v[x]
  PROVE  Total(w, S) <= Total(v, S)
<1> DEFINE B == {U \in SUBSET S : ~(Total(w, U) <= Total(v, U))}
<1> SUFFICES ASSUME B # {} PROVE FALSE
  OBVIOUS
<1>1. PICK U \in B : \A t \in SUBSET U : t # U => t \notin B
  <2>1. B \subseteq SUBSET S
    OBVIOUS
  <2> HIDE DEF B
  <2>2. QED
    BY <2>1, Minimal
<1>2. U # {}
  <2>1. Total(w, {}) = 0 /\ Total(v, {}) = 0
    BY TotalEmpty
  <2>2. Total(w, {}) <= Total(v, {})
    BY <2>1
  <2>3. QED
    BY <1>1, <2>2
<1>3. PICK x \in U : TRUE
  BY <1>2
<1>4. IsFiniteSet(U) /\ U \subseteq S
  BY <1>1, FS_Subset
<1>5. Total(w, U) = w[x] + Total(w, U \ {x}) /\ Total(v, U) = v[x] + Total(v, U \ {x})
  BY <1>3, <1>4, TotalRemove
<1>6. Total(w, U \ {x}) <= Total(v, U \ {x})
  BY <1>1, <1>3, <1>4
<1>7. IsFiniteSet(U \ {x}) /\ \A y \in U \ {x} : w[y] \in Int /\ v[y] \in Int
  BY <1>4, FS_RemoveElement
<1>8. Total(w, U \ {x}) \in Int /\ Total(v, U \ {x}) \in Int
  BY <1>7, TotalInt
<1>9. w[x] \in Int /\ v[x] \in Int /\ w[x] <= v[x] /\ ~(Total(w, U) <= Total(v, U))
  BY <1>1, <1>3, <1>4
<1>10. QED
  BY <1>5, <1>6, <1>8, <1>9

\* A continuous score is a whole score and the rest.
LEMMA ScoreIs ==
  ASSUME NEW k \in Int
  PROVE  /\ k \div Grid \in Int /\ k % Grid \in Int /\ k = Grid * (k \div Grid) + (k % Grid)
         /\ 0 <= k % Grid /\ k % Grid < Grid /\ Grid \in Int /\ Grid > 0
BY CurveAssumption, Division

\* What the endings of a residual add is a part of one residual.
LEMMA ResidualPart ==
  ASSUME NEW market, NEW center \in Int, NEW point, NEW side, NEW sign, NEW r \in Int
  PROVE  OfResidual(market, center, point, side, sign, r) \in Nat
<1> DEFINE Ends(score) == Sign(Margin(market, side, score * Grid, point)) = sign
           q == (center + r) \div Grid
           f == (center + r) % Grid
<1>1. f \in Int /\ 0 <= f /\ f < Grid /\ Grid \in Int
  <2>1. center + r \in Int
    OBVIOUS
  <2>2. QED
    BY <2>1, ScoreIs
<1>2. OfResidual(market, center, point, side, sign, r)
        = (IF Ends(q) THEN Grid - f ELSE 0) + (IF Ends(q + 1) THEN f ELSE 0)
  BY DEF OfResidual
<1> HIDE DEF Ends, q, f
<1>3. QED
  BY <1>1, <1>2

\* A score higher wins the first side what a lower one wins, and loses it no more.
LEMMA FirstSideRises ==
  ASSUME NEW market \in Lined, NEW point \in Int, NEW lower \in Int, NEW upper \in Int, lower <= upper
  PROVE  LET Of(score) == Sign(Margin(market, Sides(market)[1], score * Grid, point))
         IN  /\ Of(lower) \in Signs
             /\ Of(lower) = 1 => Of(upper) = 1
             /\ Of(upper) = -1 => Of(lower) = -1
<1>1. Grid \in Int /\ Grid > 0
  BY CurveAssumption
<1> DEFINE a == lower * Grid
           b == upper * Grid
<1>2. a \in Int /\ b \in Int /\ a <= b
  BY <1>1
<1> HIDE DEF a, b
<1>3. /\ Sign(Margin(market, Sides(market)[1], a, point)) \in Signs
      /\ Sign(Margin(market, Sides(market)[1], a, point)) = 1
            => Sign(Margin(market, Sides(market)[1], b, point)) = 1
      /\ Sign(Margin(market, Sides(market)[1], b, point)) = -1
            => Sign(Margin(market, Sides(market)[1], a, point)) = -1
  <2>1. CASE market = "spread"
    <3>1. Margin(market, Sides(market)[1], a, point) = a + point
          /\ Margin(market, Sides(market)[1], b, point) = b + point
      BY <2>1 DEF Margin, Sides
    <3>2. QED
      BY <1>2, <3>1 DEF Sign, Signs
  <2>2. CASE market = "total"
    <3>1. Margin(market, Sides(market)[1], a, point) = a - point
          /\ Margin(market, Sides(market)[1], b, point) = b - point
      BY <2>2 DEF Margin, Sides
    <3>2. QED
      BY <1>2, <3>1 DEF Sign, Signs
  <2>3. QED
    BY <2>1, <2>2 DEF Lined
<1>4. QED
  BY <1>3 DEF a, b

\* So a higher center wins the first side more of each residual, and loses it less.
LEMMA ResidualRises ==
  ASSUME NEW market \in Lined, NEW point \in Int, NEW low \in Int, NEW high \in Int, low <= high,
         NEW r \in Int
  PROVE  /\ OfResidual(market, low, point, Sides(market)[1], 1, r)
              <= OfResidual(market, high, point, Sides(market)[1], 1, r)
         /\ OfResidual(market, high, point, Sides(market)[1], -1, r)
              <= OfResidual(market, low, point, Sides(market)[1], -1, r)
<1> DEFINE Of(score) == Sign(Margin(market, Sides(market)[1], score * Grid, point))
           q == (low + r) \div Grid
           f == (low + r) % Grid
           p == (high + r) \div Grid
           g == (high + r) % Grid
<1>1. /\ q \in Int /\ f \in Int /\ low + r = Grid * q + f /\ 0 <= f /\ f < Grid
      /\ p \in Int /\ g \in Int /\ high + r = Grid * p + g /\ 0 <= g /\ g < Grid
      /\ Grid \in Int /\ Grid > 0
  BY ScoreIs
<1>2. \A sign : OfResidual(market, low, point, Sides(market)[1], sign, r)
        = (IF Of(q) = sign THEN Grid - f ELSE 0) + (IF Of(q + 1) = sign THEN f ELSE 0)
  BY DEF OfResidual
<1>3. \A sign : OfResidual(market, high, point, Sides(market)[1], sign, r)
        = (IF Of(p) = sign THEN Grid - g ELSE 0) + (IF Of(p + 1) = sign THEN g ELSE 0)
  BY DEF OfResidual
<1>4. \A m, n \in Int : m <= n => /\ Of(m) = 1 => Of(n) = 1
                                  /\ Of(n) = -1 => Of(m) = -1
  BY FirstSideRises
<1> HIDE DEF Of, q, f, p, g
<1>5. Grid * q \in Int /\ Grid * p \in Int
  BY <1>1
<1>6. ~(p < q)
  <2> SUFFICES ASSUME p + 1 <= q PROVE FALSE
    BY <1>1
  <2>1. Grid * (p + 1) <= Grid * q /\ Grid * (p + 1) = Grid * p + Grid
    BY <1>1
  <2>2. QED
    BY <1>1, <1>5, <2>1
<1>7. CASE p = q
  <2>1. f <= g
    BY <1>1, <1>5, <1>7
  <2>2. /\ Of(q) = 1 => Of(q + 1) = 1
        /\ Of(q + 1) = -1 => Of(q) = -1
    BY <1>1, <1>4
  <2>3. QED
    BY <1>1, <1>2, <1>3, <1>7, <2>1, <2>2
<1>8. CASE q < p
  <2>1. q + 1 <= p
    BY <1>1, <1>8
  <2>2. /\ Of(q) = 1 => Of(q + 1) = 1
        /\ Of(q + 1) = 1 => Of(p) = 1
        /\ Of(p) = 1 => Of(p + 1) = 1
        /\ Of(p + 1) = -1 => Of(p) = -1
        /\ Of(p) = -1 => Of(q + 1) = -1
        /\ Of(q + 1) = -1 => Of(q) = -1
    BY <1>1, <1>4, <2>1
  <2>3. QED
    BY <1>1, <1>2, <1>3, <2>2
<1>9. QED
  BY <1>1, <1>6, <1>7, <1>8

\* What a sign's mass is a total of.
Weighed(market, center, point, side, sign) ==
    [r \in DOMAIN Histogram[market] |->
        Histogram[market][r] * OfResidual(market, center, point, side, sign, r)]

\* The mass of a settlement is a sum of natural numbers over the residuals.
LEMMA MassIs ==
  ASSUME NEW market \in Lined, NEW center \in Int, NEW point, NEW side, NEW sign
  PROVE  /\ Mass(market, center, point, side, sign)
              = Total(Weighed(market, center, point, side, sign), DOMAIN Histogram[market])
         /\ \A r \in DOMAIN Histogram[market] :
               /\ Weighed(market, center, point, side, sign)[r] \in Nat
               /\ Weighed(market, center, point, side, sign)[r]
                    = Histogram[market][r] * OfResidual(market, center, point, side, sign, r)
         /\ IsFiniteSet(DOMAIN Histogram[market])
         /\ Mass(market, center, point, side, sign) \in Nat
<1> DEFINE D == DOMAIN Histogram[market]
           w == Weighed(market, center, point, side, sign)
<1>1. IsFiniteSet(D) /\ \A r \in D : r \in Int /\ Histogram[market][r] \in Nat
  BY CurveAssumption DEF Lined
<1>2. Mass(market, center, point, side, sign) = Total(w, D)
  BY DEF Mass, Weighed
<1>3. ASSUME NEW r \in D
      PROVE  w[r] \in Nat /\ w[r] = Histogram[market][r] * OfResidual(market, center, point, side, sign, r)
  <2>1. OfResidual(market, center, point, side, sign, r) \in Nat /\ Histogram[market][r] \in Nat
    BY <1>1, ResidualPart
  <2>2. w[r] = Histogram[market][r] * OfResidual(market, center, point, side, sign, r)
    BY DEF Weighed
  <2>3. Histogram[market][r] * OfResidual(market, center, point, side, sign, r) \in Nat
    BY <2>1
  <2>4. QED
    BY <2>2, <2>3
<1>4. Total(w, D) \in Nat
  <2> HIDE DEF w, D
  <2>1. QED
    BY <1>1, <1>3, TotalNat
<1>5. QED
  BY <1>1, <1>2, <1>3, <1>4

\* The first side wins more, and loses less, the higher the center.
LEMMA MassRises ==
  ASSUME NEW market \in Lined, NEW point \in Int, NEW low \in Int, NEW high \in Int, low <= high
  PROVE  /\ Mass(market, low, point, Sides(market)[1], 1) <= Mass(market, high, point, Sides(market)[1], 1)
         /\ Mass(market, high, point, Sides(market)[1], -1) <= Mass(market, low, point, Sides(market)[1], -1)
<1> DEFINE D == DOMAIN Histogram[market]
           side == Sides(market)[1]
           W(center, sign) == Weighed(market, center, point, side, sign)
<1>1. \A r \in D : r \in Int /\ Histogram[market][r] \in Nat
  BY CurveAssumption DEF Lined
<1>2. ASSUME NEW r \in D PROVE W(low, 1)[r] <= W(high, 1)[r] /\ W(high, -1)[r] <= W(low, -1)[r]
  <2> DEFINE a == OfResidual(market, low, point, side, 1, r)
             b == OfResidual(market, high, point, side, 1, r)
             c == OfResidual(market, high, point, side, -1, r)
             d == OfResidual(market, low, point, side, -1, r)
             h == Histogram[market][r]
  <2>1. a \in Nat /\ b \in Nat /\ c \in Nat /\ d \in Nat /\ h \in Nat
    BY <1>1, ResidualPart
  <2>2. a <= b /\ c <= d
    BY <1>1, ResidualRises
  <2>3. W(low, 1)[r] = h * a /\ W(high, 1)[r] = h * b /\ W(high, -1)[r] = h * c /\ W(low, -1)[r] = h * d
    BY DEF Weighed
  <2> HIDE DEF a, b, c, d, h, W
  <2>4. h * a <= h * b /\ h * c <= h * d
    BY <2>1, <2>2
  <2>5. QED
    BY <2>3, <2>4
<1>3. IsFiniteSet(D) /\ \A center \in {low, high}, sign \in {1, -1} : \A r \in D : W(center, sign)[r] \in Int
  <2>1. IsFiniteSet(D)
    BY MassIs
  <2>2. ASSUME NEW center \in {low, high}, NEW sign \in {1, -1}, NEW r \in D
        PROVE  W(center, sign)[r] \in Int
    <3>1. center \in Int
      OBVIOUS
    <3>2. Weighed(market, center, point, side, sign)[r] \in Nat
      BY <3>1, MassIs
    <3>3. QED
      BY <3>2
  <2> HIDE DEF W, D
  <2>3. QED
    BY <2>1, <2>2
<1>4. Total(W(low, 1), D) <= Total(W(high, 1), D) /\ Total(W(high, -1), D) <= Total(W(low, -1), D)
  <2> HIDE DEF W, D
  <2>1. QED
    BY <1>2, <1>3, TotalLeq
<1>5. QED
  BY <1>4, MassIs

\* The other side wins where the first loses.
LEMMA MassMirror ==
  ASSUME NEW market \in Lined, NEW center \in Int, NEW p1 \in Int, NEW p2 \in Int,
         p2 = IF market = "spread" THEN -p1 ELSE p1, NEW s1 \in Signs, NEW s2 \in Signs, s1 + s2 = 0
  PROVE  Mass(market, center, p2, Sides(market)[2], s2) = Mass(market, center, p1, Sides(market)[1], s1)
<1> DEFINE D == DOMAIN Histogram[market]
           W1 == Weighed(market, center, p1, Sides(market)[1], s1)
           W2 == Weighed(market, center, p2, Sides(market)[2], s2)
<1>1. ASSUME NEW out \in Int
      PROVE  Sign(Margin(market, Sides(market)[2], out, p2)) = s2
               <=> Sign(Margin(market, Sides(market)[1], out, p1)) = s1
  <2>1. CASE market = "spread"
    <3>1. Margin(market, Sides(market)[2], out, p2) = -out + -p1
          /\ Margin(market, Sides(market)[1], out, p1) = out + p1
      BY <2>1 DEF Margin, Sides
    <3>2. QED
      BY <3>1 DEF Sign, Signs
  <2>2. CASE market = "total"
    <3>1. Margin(market, Sides(market)[2], out, p2) = p1 - out
          /\ Margin(market, Sides(market)[1], out, p1) = out - p1
      BY <2>2 DEF Margin, Sides
    <3>2. QED
      BY <3>1 DEF Sign, Signs
  <2>3. QED
    BY <2>1, <2>2 DEF Lined
<1>2. \A r \in D : r \in Int
  BY CurveAssumption DEF Lined
<1>3. ASSUME NEW r \in D
      PROVE  OfResidual(market, center, p2, Sides(market)[2], s2, r)
               = OfResidual(market, center, p1, Sides(market)[1], s1, r)
  <2> DEFINE q == (center + r) \div Grid
  <2>0. center + r \in Int
    BY <1>2
  <2>1. q \in Int /\ Grid \in Int
    BY <2>0, ScoreIs
  <2>2. q * Grid \in Int /\ (q + 1) * Grid \in Int
    BY <2>1
  <2>3. QED
    BY <1>1, <2>2 DEF OfResidual
<1>4. W1 = W2
  BY <1>3 DEF Weighed
<1>5. QED
  BY <1>4, MassIs

-----------------------------------------------------------------------------
(* The center of a book. *)

\* What a line is worth rises with the center.
LEMMA BelowFalls ==
  ASSUME NEW market \in Lined, NEW point \in Int, NEW low \in Int, NEW high \in Int, low <= high,
         NEW target \in 0 .. Quantum, Below(market, high, point, target)
  PROVE  Below(market, low, point, target)
<1> DEFINE w == Mass(market, low, point, Sides(market)[1], 1)
           l == Mass(market, low, point, Sides(market)[1], -1)
           W == Mass(market, high, point, Sides(market)[1], 1)
           L == Mass(market, high, point, Sides(market)[1], -1)
<1>1. w \in Nat /\ l \in Nat /\ W \in Nat /\ L \in Nat /\ w <= W /\ L <= l
  BY MassIs, MassRises
<1>2. IF W + L = 0 THEN 0 < target ELSE W * Quantum < target * (W + L)
  BY DEF Below, Settlement
<1>3. Below(market, low, point, target)
        <=> IF w + l = 0 THEN 0 < target ELSE w * Quantum < target * (w + l)
  BY DEF Below, Settlement
<1>4. Quantum \in Nat /\ target \in Nat /\ target <= Quantum
  BY CurveAssumption
<1> DEFINE rest == Quantum - target
<1>5. rest \in Nat /\ Quantum = rest + target
  BY <1>4
<1> HIDE DEF w, l, W, L, rest
<1>6. /\ w * Quantum = w * rest + w * target /\ W * Quantum = W * rest + W * target
      /\ target * (w + l) = w * target + target * l /\ target * (W + L) = W * target + target * L
  BY <1>1, <1>4, <1>5
<1>7. /\ w * rest \in Nat /\ W * rest \in Nat /\ target * l \in Nat /\ target * L \in Nat
      /\ w * target \in Nat /\ W * target \in Nat
  BY <1>1, <1>4, <1>5
<1>8. w * rest <= W * rest /\ target * L <= target * l
  BY <1>1, <1>4, <1>5
<1>9. CASE W + L = 0
  <2>1. w = 0 /\ 0 < target
    BY <1>1, <1>2, <1>9
  <2>2. CASE l = 0
    BY <1>3, <2>1, <2>2
  <2>3. CASE l # 0
    <3>1. w * rest = 0 /\ target * l > 0
      BY <1>1, <1>4, <1>5, <2>1, <2>3
    <3>2. w * Quantum < target * (w + l) /\ w + l # 0
      BY <1>1, <1>6, <1>7, <2>1, <2>3, <3>1
    <3>3. QED
      BY <1>3, <3>2
  <2>4. QED
    BY <2>2, <2>3
<1>10. CASE W + L # 0
  <2>1. W * rest < target * L
    BY <1>2, <1>6, <1>7, <1>10
  <2>2. w * rest < target * l
    BY <1>7, <1>8, <2>1
  <2>3. w * Quantum < target * (w + l)
    BY <1>6, <1>7, <2>2
  <2>4. w + l # 0
    <3> SUFFICES ASSUME l = 0 PROVE FALSE
      BY <1>1
    <3>1. target * l = 0
      BY <1>4
    <3>2. QED
      BY <1>7, <2>2, <3>1
  <2>5. QED
    BY <1>3, <2>3, <2>4
<1>11. QED
  BY <1>9, <1>10

\* The rounds of a search.
Rounds(k, first, market, point, target, f) ==
    f = [n \in 0 .. k |-> IF n = 0 THEN first ELSE Halve(market, point, target, f[n - 1])]

\* The rounds of a bisection, as a function of their number.
LEMMA RoundsExist ==
  ASSUME NEW N \in Nat, NEW first, NEW market, NEW point, NEW target
  PROVE  \E f : Rounds(N, first, market, point, target, f)
<1> DEFINE Has(k) == \E f : Rounds(k, first, market, point, target, f)
           B == {k \in 0 .. N : ~Has(k)}
<1>1. ASSUME B # {} PROVE FALSE
  <2>1. PICK k \in B : \A j \in B : k <= j
    <3>1. B \in SUBSET Int /\ IsFiniteSet(B)
      <4>1. IsFiniteSet(0 .. N)
        BY FS_Interval
      <4>2. B \subseteq 0 .. N
        OBVIOUS
      <4>3. B \in SUBSET Int
        OBVIOUS
      <4> HIDE DEF B
      <4>4. IsFiniteSet(B)
        BY <4>1, <4>2, FS_Subset
      <4>5. QED
        BY <4>3, <4>4
    <3> HIDE DEF B
    <3>2. QED
      BY <1>1, <3>1, LeastOf
  <2>2. k \in 0 .. N /\ ~Has(k)
    BY <2>1
  <2>3. CASE k = 0
    <3> DEFINE f == [n \in 0 .. 0 |-> first]
    <3>1. Rounds(0, first, market, point, target, f)
      BY DEF Rounds
    <3>2. QED
      BY <2>2, <2>3, <3>1
  <2>4. CASE k # 0
    <3>1. k - 1 \in 0 .. N /\ ~(k <= k - 1)
      BY <2>2, <2>4
    <3>2. k - 1 \notin B
      BY <2>1, <3>1
    <3>3. PICK f : Rounds(k - 1, first, market, point, target, f)
      BY <3>1, <3>2
    <3> DEFINE g == [n \in 0 .. k |-> IF n = k THEN Halve(market, point, target, f[k - 1]) ELSE f[n]]
    <3>4. \A n \in 0 .. k : g[n] = IF n = 0 THEN first ELSE Halve(market, point, target, g[n - 1])
      <4> SUFFICES ASSUME NEW n \in 0 .. k
                   PROVE  g[n] = IF n = 0 THEN first ELSE Halve(market, point, target, g[n - 1])
        OBVIOUS
      <4>1. CASE n = k
        <5>1. k - 1 \in 0 .. k /\ k - 1 # k /\ n # 0
          BY <2>2, <2>4, <4>1
        <5>2. g[k - 1] = f[k - 1] /\ g[k] = Halve(market, point, target, f[k - 1])
          BY <4>1, <5>1
        <5>3. QED
          BY <4>1, <5>1, <5>2
      <4>2. CASE n # k
        <5>1. n \in 0 .. (k - 1) /\ (n # 0 => n - 1 \in 0 .. k /\ n - 1 # k)
          BY <2>2, <4>2
        <5>2. g[n] = f[n] /\ (n # 0 => g[n - 1] = f[n - 1])
          BY <4>2, <5>1
        <5>3. f[n] = IF n = 0 THEN first ELSE Halve(market, point, target, f[n - 1])
          BY <3>3, <5>1 DEF Rounds
        <5> HIDE DEF g
        <5>4. QED
          BY <5>2, <5>3
      <4>3. QED
        BY <4>1, <4>2
    <3>5. g = [n \in 0 .. k |-> g[n]]
      OBVIOUS
    <3> HIDE DEF g
    <3>6. Rounds(k, first, market, point, target, g)
      BY <3>4, <3>5 DEF Rounds
    <3>7. QED
      BY <2>2, <3>6
  <2>5. QED
    BY <2>3, <2>4
<1>2. N \in 0 .. N
  OBVIOUS
<1>3. QED
  BY <1>1, <1>2

\* What is known after some rounds: below the interval the line is worth less than the
\* price, above it is not, and the interval has become smaller.
Narrowed(market, point, target, base, n, between) ==
    \E l, u \in Int :
        /\ between = <<l, u>> /\ l < u /\ base - Reach <= l /\ u <= base + Reach
        /\ u - l <= 1 \/ u - l <= 2 * Reach - n
        /\ \A m \in (base - Reach + 1) .. l : Below(market, m, point, target)
        /\ \A m \in u .. (base + Reach - 1) : ~Below(market, m, point, target)

\* A round of the bisection keeps the crossing between its two ends and halves what is open.
LEMMA HalveNarrows ==
  ASSUME NEW market \in Lined, NEW point \in Int, NEW target \in 0 .. Quantum, NEW base \in Int,
         NEW n \in Int, NEW between, Narrowed(market, point, target, base, n, between)
  PROVE  Narrowed(market, point, target, base, n + 1, Halve(market, point, target, between))
<1> DEFINE Under(m) == Below(market, m, point, target)
<1>1. PICK l, u \in Int :
        /\ between = <<l, u>> /\ l < u /\ base - Reach <= l /\ u <= base + Reach
        /\ u - l <= 1 \/ u - l <= 2 * Reach - n
        /\ \A m \in (base - Reach + 1) .. l : Under(m)
        /\ \A m \in u .. (base + Reach - 1) : ~Under(m)
  BY DEF Narrowed
<1> DEFINE mid == (l + u) \div 2
<1>2. mid \in Int /\ l + u = 2 * mid + ((l + u) % 2) /\ (l + u) % 2 \in 0 .. 1
  OBVIOUS
<1>3. Reach \in Int
  BY CurveAssumption
<1>4. Halve(market, point, target, between) = IF u - l <= 1 THEN between
        ELSE IF Under(mid) THEN <<mid, u>> ELSE <<l, mid>>
  BY <1>1 DEF Halve
<1>5. \A m, k \in Int : m <= k /\ Under(k) => Under(m)
  BY BelowFalls
<1> HIDE DEF Under, mid
<1>6. CASE u - l <= 1
  <2>1. Halve(market, point, target, between) = <<l, u>>
    BY <1>1, <1>4, <1>6
  <2> USE DEF Under
  <2>2. QED
    BY <1>1, <1>6, <2>1 DEF Narrowed
<1>7. CASE ~(u - l <= 1) /\ Under(mid)
  <2>1. Halve(market, point, target, between) = <<mid, u>>
    BY <1>4, <1>7
  <2>2. l < mid /\ mid < u
    BY <1>2, <1>7
  <2>3. u - mid <= 2 * Reach - (n + 1) /\ base - Reach <= mid
    BY <1>1, <1>2, <1>3, <1>7, <2>2
  <2>4. \A m \in (base - Reach + 1) .. mid : Under(m)
    BY <1>2, <1>3, <1>5, <1>7
  <2> USE DEF Under
  <2>5. QED
    BY <1>1, <1>2, <2>1, <2>2, <2>3, <2>4 DEF Narrowed
<1>8. CASE ~(u - l <= 1) /\ ~Under(mid)
  <2>1. Halve(market, point, target, between) = <<l, mid>>
    BY <1>4, <1>8
  <2>2. l < mid /\ mid < u
    BY <1>2, <1>8
  <2>3. mid - l <= 2 * Reach - (n + 1) /\ mid <= base + Reach
    BY <1>1, <1>2, <1>3, <1>8, <2>2
  <2>4. \A m \in mid .. (base + Reach - 1) : ~Under(m)
    BY <1>2, <1>3, <1>5, <1>8
  <2> USE DEF Under
  <2>5. QED
    BY <1>1, <1>2, <2>1, <2>2, <2>3, <2>4 DEF Narrowed
<1>9. QED
  BY <1>6, <1>7, <1>8

\* The center that is found is the first at which the line is worth the price.
LEMMA InferCenterIs ==
  ASSUME NEW market \in Lined, NEW point \in Int, NEW target \in 0 .. Quantum, NEW base,
         base = IF market = "spread" THEN -point ELSE point
  PROVE  /\ InferCenter(market, point, target) \in Int
         /\ \A m \in (base - Reach + 1) .. (base + Reach - 1) :
               Below(market, m, point, target) <=> m < InferCenter(market, point, target)
<1> DEFINE N == 2 * Reach
           first == <<base - Reach, base + Reach>>
           F == Bisect(market, point, target, base)
<1>1. base \in Int /\ Reach \in Nat /\ Reach > 0 /\ N \in Nat
  BY CurveAssumption
<1>2. Rounds(N, first, market, point, target, F)
  <2>1. F = CHOOSE f : Rounds(N, first, market, point, target, f)
    BY DEF Bisect, Rounds
  <2> HIDE DEF F, N, first
  <2>2. QED
    BY <1>1, <2>1, RoundsExist
<1> DEFINE Bad == {n \in 0 .. N : ~Narrowed(market, point, target, base, n, F[n])}
<1>3. ASSUME Bad # {} PROVE FALSE
  <2>1. PICK n \in Bad : \A j \in Bad : n <= j
    <3>1. Bad \in SUBSET Int /\ IsFiniteSet(Bad)
      <4>1. IsFiniteSet(0 .. N)
        BY <1>1, FS_Interval
      <4>2. Bad \subseteq 0 .. N
        OBVIOUS
      <4>3. Bad \in SUBSET Int
        OBVIOUS
      <4> HIDE DEF Bad, N
      <4>4. IsFiniteSet(Bad)
        BY <4>1, <4>2, FS_Subset
      <4>5. QED
        BY <4>3, <4>4
    <3> HIDE DEF Bad
    <3>2. QED
      BY <1>3, <3>1, LeastOf
  <2>2. n \in 0 .. N /\ ~Narrowed(market, point, target, base, n, F[n])
    BY <2>1
  <2> HIDE DEF F
  <2>3. CASE n = 0
    <3>1. F[0] = first
      BY <1>1, <1>2, <2>2, <2>3 DEF Rounds
    <3>2. Narrowed(market, point, target, base, 0, first)
      BY <1>1 DEF Narrowed
    <3>3. QED
      BY <2>2, <2>3, <3>1, <3>2
  <2>4. CASE n # 0
    <3>1. n - 1 \in 0 .. N /\ ~(n <= n - 1) /\ n - 1 \in Int /\ (n - 1) + 1 = n
      BY <1>1, <2>2, <2>4
    <3>2. n - 1 \notin Bad
      BY <2>1, <3>1
    <3>3. Narrowed(market, point, target, base, n - 1, F[n - 1])
      BY <3>1, <3>2
    <3>4. F[n] = Halve(market, point, target, F[n - 1])
      BY <1>2, <2>2, <2>4 DEF Rounds
    <3>5. Narrowed(market, point, target, base, (n - 1) + 1, Halve(market, point, target, F[n - 1]))
      BY <1>1, <3>1, <3>3, HalveNarrows
    <3>6. QED
      BY <2>2, <3>1, <3>4, <3>5
  <2>5. QED
    BY <2>3, <2>4
<1>4. Narrowed(market, point, target, base, N, F[N])
  <2>1. N \in 0 .. N
    BY <1>1
  <2>2. N \notin Bad
    BY <1>3
  <2>3. QED
    BY <2>1, <2>2
<1>5. PICK l, u \in Int :
        /\ F[N] = <<l, u>> /\ l < u /\ base - Reach <= l /\ u <= base + Reach
        /\ u - l <= 1 \/ u - l <= 2 * Reach - N
        /\ \A m \in (base - Reach + 1) .. l : Below(market, m, point, target)
        /\ \A m \in u .. (base + Reach - 1) : ~Below(market, m, point, target)
  BY <1>4 DEF Narrowed
<1>6. InferCenter(market, point, target) = u
  BY <1>5 DEF InferCenter
<1>7. u = l + 1
  BY <1>1, <1>5
<1>8. QED
  BY <1>1, <1>5, <1>6, <1>7

-----------------------------------------------------------------------------
(* The pairs of a board. *)

\* The lines of a pair are of its kind of market, on its line; its chances add up to one.
PairIs(market, p) ==
    /\ \A x \in p.lines : IF market = "moneyline" THEN x.point = Pointless ELSE x.point \in Int
    /\ \A x \in p.lines : PriceOf(x) \in Int /\ PriceOf(x) >= 100
    /\ IF market = "moneyline" THEN p.line = Pointless ELSE p.line \in Int
    /\ ReferencePoint(market, p) \in Int
    /\ p.over \in Int
    /\ p.probability[1] \in 0 .. Quantum /\ p.probability[2] \in 0 .. Quantum
    /\ p.probability[2] = Quantum - p.probability[1]

\* The numbers of a pair.
LEMMA PairTyped ==
  ASSUME NEW b \in Boards, NEW p \in PairsOf(b.market, UsedLines(b.lines))
  PROVE  PairIs(b.market, p)
<1> DEFINE market == b.market
           lines == UsedLines(b.lines)
<1>1. market \in {"moneyline", "spread", "total"} /\ lines \subseteq b.lines
  BY BoardAssumption DEF UsedLines, LatestStates
<1>2. PairShape(market, lines, p)
  BY <1>1, PairsAre
<1>3. \A x \in p.lines : /\ x \in b.lines /\ (x.point = Pointless \/ x.point \in Int)
                         /\ x.odds \in Int /\ Magnitude(x.odds) >= 100
  BY <1>1, <1>2, BoardAssumption DEF PairShape
<1>4. \A x \in p.lines : PriceOf(x) \in Int /\ PriceOf(x) >= 100
  BY <1>3, PriceIs
<1>5. \A x \in p.lines : market = "moneyline" <=> x.point = Pointless
  <2> DEFINE own == {x \in lines : x.book = p.book}
  <2>1. p.lines \in LineGroups(market, own)
    BY <1>2 DEF PairShape
  <2> HIDE DEF own, market
  <2>2. CASE Cardinality(own) = 2 /\ {x.side : x \in own} = Range(Sides(market))
             /\ \A x \in own : WellFormed(market, x)
    <3>1. p.lines = own
      BY <2>1, <2>2 DEF LineGroups
    <3>2. QED
      BY <2>2, <3>1 DEF WellFormed
  <2>3. CASE ~(Cardinality(own) = 2 /\ {x.side : x \in own} = Range(Sides(market))
               /\ \A x \in own : WellFormed(market, x))
    <3> DEFINE keyed == {x \in own : market = "moneyline" <=> x.point = Pointless}
    <3>1. p.lines \in {{y \in keyed : LineOf(market, y) = LineOf(market, x)} : x \in keyed}
      BY <2>1, <2>3 DEF LineGroups
    <3>2. p.lines \subseteq keyed
      BY <3>1
    <3>3. QED
      BY <3>2
  <2>4. QED
    BY <2>2, <2>3
<1>6. \A x \in p.lines : IF market = "moneyline" THEN x.point = Pointless ELSE x.point \in Int
  BY <1>3, <1>5
<1> DEFINE x1 == On(p.lines, Sides(market)[1])
           x2 == On(p.lines, Sides(market)[2])
<1>7. x1 \in p.lines /\ x2 \in p.lines
  BY <1>1, <1>2, SidesAre DEF PairShape
<1>8. p = PairOf(market, p.lines)
  BY <1>2 DEF PairShape
<1>9. /\ p.line = LineOf(market, x1) /\ p.probability = NoVig(PriceOf(x1), PriceOf(x2))
      /\ p.over = Overround(PriceOf(x1), PriceOf(x2))
  BY <1>8 DEF PairOf
<1>10. PriceOf(x1) \in Int /\ PriceOf(x1) >= 100 /\ PriceOf(x2) \in Int /\ PriceOf(x2) >= 100
  BY <1>4, <1>7
<1> HIDE DEF x1, x2, market, lines
<1>11. /\ p.probability[1] \in 0 .. Quantum /\ p.probability[2] \in 0 .. Quantum
       /\ p.probability[2] = Quantum - p.probability[1]
  BY <1>9, <1>10, NoVigIs
<1>12. p.over \in Int
  <2> DEFINE d1 == PriceOf(x1)
             d2 == PriceOf(x2)
             n == Quantum * ((d1 + d2) * 100 - d1 * d2)
             d == d1 * d2
  <2>1. d1 \in Int /\ d2 \in Int /\ d1 > 0 /\ d2 > 0 /\ Quantum \in Int
    BY <1>10, CurveAssumption
  <2>2. p.over = RoundHalfEven(n, d)
    BY <1>9 DEF Overround
  <2> HIDE DEF d1, d2
  <2>3. d \in Int /\ d > 0
    BY <2>1
  <2>4. n \in Int
    BY <2>1
  <2> HIDE DEF n, d
  <2>5. QED
    BY <2>2, <2>3, <2>4, RoundNear
<1>13. IF market = "moneyline" THEN p.line = Pointless ELSE p.line \in Int
  <2>1. CASE market = "moneyline"
    BY <1>6, <1>7, <1>9, <2>1 DEF LineOf
  <2>2. CASE market # "moneyline"
    <3>1. x1.point \in Int /\ -x1.point \in Int
      BY <1>6, <1>7, <2>2
    <3>2. QED
      BY <1>9, <2>2, <3>1 DEF LineOf
  <2>3. QED
    BY <2>1, <2>2
<1>14. ReferencePoint(market, p) \in Int
  BY <1>1, <1>13 DEF ReferencePoint, market
<1>15. PairIs(market, p)
  BY <1>4, <1>6, <1>11, <1>12, <1>13, <1>14 DEF PairIs
<1>16. QED
  BY <1>15 DEF market

\* A book's pair on a line is the only one on it.
LEMMA PairOnLine ==
  ASSUME NEW market, NEW lines, NEW p, NEW q,
         PairShape(market, lines, p), PairShape(market, lines, q),
         p.book = q.book, p.line = q.line, p.lines # {}, q.lines # {}
  PROVE  p = q
<1> DEFINE own == {x \in lines : x.book = p.book}
<1>1. p.lines \in LineGroups(market, own) /\ q.lines \in LineGroups(market, own)
  BY DEF PairShape
<1>2. (\A x \in p.lines : LineOf(market, x) = p.line) /\ (\A x \in q.lines : LineOf(market, x) = p.line)
  BY DEF PairShape
<1> HIDE DEF own
<1>3. p.lines = q.lines
  <2>1. CASE Cardinality(own) = 2 /\ {x.side : x \in own} = Range(Sides(market))
             /\ \A x \in own : WellFormed(market, x)
    BY <1>1, <2>1 DEF LineGroups
  <2>2. CASE ~(Cardinality(own) = 2 /\ {x.side : x \in own} = Range(Sides(market))
               /\ \A x \in own : WellFormed(market, x))
    <3> DEFINE keyed == {x \in own : market = "moneyline" <=> x.point = Pointless}
    <3>1. p.lines \in {{y \in keyed : LineOf(market, y) = LineOf(market, x)} : x \in keyed}
          /\ q.lines \in {{y \in keyed : LineOf(market, y) = LineOf(market, x)} : x \in keyed}
      BY <1>1, <2>2 DEF LineGroups
    <3>2. PICK x \in keyed : p.lines = {y \in keyed : LineOf(market, y) = LineOf(market, x)}
      BY <3>1
    <3>3. PICK z \in keyed : q.lines = {y \in keyed : LineOf(market, y) = LineOf(market, z)}
      BY <3>1
    <3> HIDE DEF keyed
    <3>4. LineOf(market, x) = p.line /\ LineOf(market, z) = p.line
      BY <1>2, <3>2, <3>3
    <3>5. QED
      BY <3>2, <3>3, <3>4
  <2>3. QED
    BY <2>1, <2>2
<1>4. p = PairOf(market, p.lines) /\ q = PairOf(market, q.lines)
  BY DEF PairShape
<1>5. QED
  BY <1>3, <1>4

\* The pairs of a board, where they lie, and the median they are compared with.
PairsAt(b) == PairsOf(b.market, UsedLines(b.lines))
PlaceOf(b) == [p \in PairsAt(b) |-> ReferencePoint(b.market, p)]
MiddleOf(b) == DoubleMedian(PlaceOf(b))

\* The main pair of a book is the nearest of its pairs to the middle of the market.
LEMMA MainIsNearest ==
  ASSUME NEW b \in Boards, NEW c \in CandidatesOf(b.market, b.lines)
  PROVE  /\ IsFiniteSet(PairsAt(b)) /\ PairsAt(b) # {} /\ MainOf(b) \subseteq PairsAt(b)
         /\ PlaceOf(b) \in [PairsAt(b) -> Int] /\ MiddleOf(b) \in Int
         /\ \A p \in PairsAt(b) : /\ PairIs(b.market, p)
                                  /\ PairShape(b.market, UsedLines(b.lines), p)
                                  /\ p.lines # {}
         /\ \A p \in MainOf(b) : \A q \in PairsAt(b) :
               q.book = p.book => Nearer(b.market, p, q, MiddleOf(b))
<1>1. /\ IsFiniteSet(PairsAt(b)) /\ PairsAt(b) # {} /\ MainOf(b) \subseteq PairsAt(b)
      /\ b.market \in {"moneyline", "spread", "total"}
      /\ \A p \in PairsAt(b) : PairShape(b.market, UsedLines(b.lines), p)
  BY MainIs DEF PairsAt
<1>2. \A p \in PairsAt(b) : PairIs(b.market, p)
  BY PairTyped DEF PairsAt
<1>3. PlaceOf(b) \in [PairsAt(b) -> Int]
  <2>1. \A p \in PairsAt(b) : ReferencePoint(b.market, p) \in Int
    BY <1>2 DEF PairIs
  <2>2. QED
    BY <2>1 DEF PlaceOf
<1>4. MiddleOf(b) \in Int
  <2> DEFINE D == PairsAt(b)
             f == PlaceOf(b)
  <2>1. IsFiniteSet(D) /\ D # {} /\ f \in [D -> Int]
    BY <1>1, <1>3
  <2> HIDE DEF D, f
  <2>2. DoubleMedian(f) \in Int
    BY <2>1, MedianType
  <2>3. QED
    BY <2>2 DEF MiddleOf, f
<1>5. \A p \in PairsAt(b) : p.lines # {}
  <2> SUFFICES ASSUME NEW p \in PairsAt(b) PROVE p.lines # {}
    OBVIOUS
  <2>1. Sides(b.market)[1] \in Range(Sides(b.market))
    BY <1>1, SidesAre
  <2>2. On(p.lines, Sides(b.market)[1]) \in p.lines
    BY <1>1, <2>1 DEF PairShape
  <2>3. QED
    BY <2>2
<1>6. MainOf(b) = {p \in PairsAt(b) : \A q \in PairsAt(b) :
                     q.book = p.book => Nearer(b.market, p, q, MiddleOf(b))}
  BY DEF MainOf, MainPairs, PairsAt, MiddleOf, PlaceOf
<1>7. QED
  BY <1>1, <1>2, <1>3, <1>4, <1>5, <1>6

\* Of every book one pair is used.
LEMMA OneMain ==
  ASSUME NEW b \in Boards, NEW c \in CandidatesOf(b.market, b.lines),
         NEW p \in MainOf(b), NEW q \in MainOf(b), p.book = q.book
  PROVE  p = q
<1> DEFINE m == MiddleOf(b)
           Away(r) == Magnitude(2 * ReferencePoint(b.market, r) - m)
<1>1. p \in PairsAt(b) /\ q \in PairsAt(b) /\ m \in Int
  BY MainIsNearest
<1>2. PairIs(b.market, p) /\ PairIs(b.market, q)
  BY <1>1, MainIsNearest
<1>3. Away(p) \in Int /\ Away(q) \in Int /\ Magnitude(p.over) \in Int /\ Magnitude(q.over) \in Int
  BY <1>1, <1>2 DEF PairIs, Magnitude
<1>4. Nearer(b.market, p, q, m) /\ Nearer(b.market, q, p, m)
  BY <1>1, MainIsNearest
<1>5. p.line = q.line \/ (p.line < q.line /\ q.line < p.line)
  <2>1. \/ Away(p) < Away(q)
        \/ Away(p) = Away(q) /\ Magnitude(p.over) < Magnitude(q.over)
        \/ Away(p) = Away(q) /\ Magnitude(p.over) = Magnitude(q.over)
             /\ (p.line = q.line \/ p.line < q.line)
    BY <1>4 DEF Nearer
  <2>2. \/ Away(q) < Away(p)
        \/ Away(q) = Away(p) /\ Magnitude(q.over) < Magnitude(p.over)
        \/ Away(q) = Away(p) /\ Magnitude(q.over) = Magnitude(p.over)
             /\ (q.line = p.line \/ q.line < p.line)
    BY <1>4 DEF Nearer
  <2> HIDE DEF Away
  <2>3. QED
    BY <1>3, <2>1, <2>2
<1>6. p.line = q.line
  <2>1. CASE b.market = "moneyline"
    BY <1>2, <2>1 DEF PairIs
  <2>2. CASE b.market # "moneyline"
    <3>1. p.line \in Int /\ q.line \in Int
      BY <1>2, <2>2 DEF PairIs
    <3>2. QED
      BY <1>5, <3>1
  <2>3. QED
    BY <2>1, <2>2
<1>7. PairShape(b.market, UsedLines(b.lines), p) /\ PairShape(b.market, UsedLines(b.lines), q)
      /\ p.lines # {} /\ q.lines # {}
  BY <1>1, MainIsNearest
<1>8. QED
  BY <1>6, <1>7, PairOnLine

\* A book's center is that of its pair.
LEMMA CenterOfBook ==
  ASSUME NEW b \in Boards, NEW c \in CandidatesOf(b.market, b.lines), b.market # "moneyline",
         NEW p \in MainOf(b)
  PROVE  /\ CentersOf(b)[p.book]
              = InferCenter(b.market, On(p.lines, Sides(b.market)[1]).point, p.probability[1])
         /\ On(p.lines, Sides(b.market)[1]).point \in Int
         /\ p.probability[1] \in 0 .. Quantum
         /\ b.market \in Lined
<1> DEFINE q == CHOOSE r \in MainOf(b) : r.book = p.book
<1>1. q \in MainOf(b) /\ q.book = p.book
  OBVIOUS
<1>2. q = p
  <2> HIDE DEF q
  <2>1. QED
    BY <1>1, OneMain
<1>3. p.book \in {r.book : r \in MainOf(b)}
  OBVIOUS
<1>4. CentersOf(b)[p.book] = InferCenter(b.market, On(q.lines, Sides(b.market)[1]).point, q.probability[1])
  BY <1>3 DEF CentersOf, BookCenters
<1>5. p \in PairsAt(b) /\ b.market \in {"moneyline", "spread", "total"}
  BY MainIsNearest, BoardAssumption
<1>6. PairIs(b.market, p) /\ PairShape(b.market, UsedLines(b.lines), p)
  BY <1>5, MainIsNearest
<1>7. On(p.lines, Sides(b.market)[1]) \in p.lines
  BY <1>5, <1>6, SidesAre DEF PairShape
<1> HIDE DEF q
<1>8. QED
  BY <1>2, <1>4, <1>5, <1>6, <1>7 DEF PairIs, Lined

\* A center that was found for a book prices the book's line as the book does.
LEMMA PricesReproduced ==
  ASSUME PricingInv
  PROVE  CentersReproducePrices
<1> SUFFICES ASSUME NEW d \in candidates, board.market # "moneyline", NEW p \in d.main,
                    NEW point, NEW base, NEW center,
                    point = On(p.lines, Sides(board.market)[1]).point,
                    base = (IF board.market = "spread" THEN -point ELSE point),
                    center = (CHOOSE c \in candidates : TRUE).centers[p.book]
             PROVE  \A m \in (base - Reach + 1)..(base + Reach - 1) :
                       Below(board.market, m, point, p.probability[1]) <=> m < center
  BY DEF CentersReproducePrices
<1>1. board \in Boards /\ candidates = CandidatesOf(board.market, board.lines)
  BY DEF PricingInv
<1>2. \A c \in candidates : c.main = MainOf(board) /\ c.centers = CentersOf(board)
  <2> SUFFICES ASSUME NEW c \in candidates PROVE c.main = MainOf(board) /\ c.centers = CentersOf(board)
    OBVIOUS
  <2>1. PICK side : c = CandidateOf(board, side)
    BY <1>1, CandidateIs
  <2>2. QED
    BY <2>1 DEF CandidateOf, Assessed
<1>3. (CHOOSE c \in candidates : TRUE) \in candidates
  OBVIOUS
<1>4. center = CentersOf(board)[p.book] /\ p \in MainOf(board)
  BY <1>2, <1>3
<1>5. /\ center = InferCenter(board.market, point, p.probability[1])
      /\ point \in Int /\ p.probability[1] \in 0 .. Quantum /\ board.market \in Lined
  BY <1>1, <1>4, CenterOfBook
<1>6. QED
  BY <1>5, InferCenterIs

\* A line every book offers is used of every book, when fewer other lines are on offer
\* than there are books.
LEMMA AgreedIsUsed ==
  ASSUME NEW b \in Boards, NEW c \in CandidatesOf(b.market, b.lines), NEW line,
         \A k \in {r.book : r \in PairsAt(b)} : \E r \in PairsAt(b) : r.book = k /\ r.line = line,
         Cardinality({p \in PairsAt(b) : p.line # line}) < Cardinality({r.book : r \in PairsAt(b)}),
         NEW p \in MainOf(b)
  PROVE  p.line = line
<1> DEFINE D == PairsAt(b)
           B == {r.book : r \in D}
           H == {r \in D : r.line = line}
           O == {r \in D : r.line # line}
           F == PlaceOf(b)
<1>1. /\ IsFiniteSet(D) /\ D # {} /\ p \in D /\ F \in [D -> Int]
      /\ b.market \in {"moneyline", "spread", "total"}
  BY MainIsNearest, BoardAssumption
<1>2. \A r \in D : PairIs(b.market, r)
  BY MainIsNearest
<1>3. PICK r \in D : r.book = p.book /\ r.line = line
  BY <1>1
<1>4. CASE b.market = "moneyline"
  <2>1. p.line = Pointless /\ r.line = Pointless
    BY <1>1, <1>2, <1>3, <1>4 DEF PairIs
  <2>2. QED
    BY <1>3, <2>1
<1>5. CASE b.market # "moneyline"
  <2>1. \A q \in D : q.line \in Int
    BY <1>2, <1>5 DEF PairIs
  <2> DEFINE v == IF b.market = "spread" THEN -line ELSE line
             h == [q \in H |-> q.book]
  <2>2. line \in Int /\ v \in Int
    BY <1>3, <2>1
  <2>3. \A q \in D : F[q] = (IF b.market = "spread" THEN -q.line ELSE q.line)
    BY <1>1, <1>5 DEF PlaceOf, ReferencePoint
  <2>4. IsFiniteSet(H) /\ IsFiniteSet(O) /\ H \in SUBSET D /\ O \in SUBSET D
    BY <1>1, FS_Subset
  <2>5. Cardinality(B) <= Cardinality(H)
    <3>1. h \in Surjection(H, B)
      <4>1. \A q \in H : q.book \in B
        OBVIOUS
      <4>2. \A k \in B : \E q \in H : q.book = k
        OBVIOUS
      <4>3. \A k \in B : \E q \in H : h[q] = k
        BY <4>2
      <4>4. QED
        BY <4>1, <4>3 DEF Surjection
    <3> HIDE DEF h, H, B
    <3>2. QED
      BY <2>4, <3>1, FS_Surjection
  <2>6. IsFiniteSet(B)
    <3>1. [q \in D |-> q.book] \in Surjection(D, B)
      BY DEF Surjection
    <3> HIDE DEF D, B
    <3>2. QED
      BY <1>1, <3>1, FS_Surjection
  <2>7. Cardinality(D) = Cardinality(H) + Cardinality(O)
    <3>1. D \ H = O /\ D \cap H = H
      OBVIOUS
    <3> HIDE DEF D, H, O
    <3>2. Cardinality(O) = Cardinality(D) - Cardinality(H)
      BY <1>1, <3>1, FS_Difference
    <3>3. Cardinality(D) \in Nat /\ Cardinality(H) \in Nat
      BY <1>1, <2>4, FS_CardinalityType
    <3>4. QED
      BY <3>2, <3>3
  <2>8. Cardinality(O) < Cardinality(B)
    OBVIOUS
  <2>9. 2 * Cardinality(H) > Cardinality(D)
    <3> HIDE DEF D, H, O, B
    <3>1. Cardinality(H) \in Nat /\ Cardinality(O) \in Nat /\ Cardinality(B) \in Nat
      BY <2>4, <2>6, FS_CardinalityType
    <3>2. QED
      BY <2>5, <2>7, <2>8, <3>1
  <2>10. {i \in D : F[i] = v} = H
    <3>1. \A q \in D : F[q] = v <=> q.line = line
      BY <2>1, <2>2, <2>3
    <3> HIDE DEF F, D, v
    <3>2. QED
      BY <3>1
  <2>11. MiddleOf(b) = 2 * v
    <3>1. DoubleMedian(F) = 2 * v
      <4> HIDE DEF F, D, v, H
      <4>1. QED
        BY <1>1, <2>2, <2>9, <2>10, MedianMajority
    <3>2. QED
      BY <3>1 DEF MiddleOf
  <2>12. Nearer(b.market, p, r, MiddleOf(b))
    BY <1>1, <1>3, MainIsNearest
  <2> DEFINE Away(q) == Magnitude(2 * ReferencePoint(b.market, q) - MiddleOf(b))
  <2>13. Away(r) = 0
    <3>1. ReferencePoint(b.market, r) = v
      BY <1>1, <1>3, <1>5 DEF ReferencePoint
    <3> HIDE DEF v
    <3>2. QED
      BY <2>2, <2>11, <3>1 DEF Magnitude
  <2>14. ReferencePoint(b.market, p) \in Int
    BY <1>1, <1>2 DEF PairIs
  <2>15. Away(p) \in Int /\ Away(p) >= 0 /\ (Away(p) = 0 => ReferencePoint(b.market, p) = v)
    <3> HIDE DEF v
    <3>1. QED
      BY <2>2, <2>11, <2>14 DEF Magnitude
  <2>16. Away(p) = 0
    <3>1. Away(p) < Away(r) \/ Away(p) = Away(r)
      BY <2>12 DEF Nearer
    <3> HIDE DEF Away
    <3>2. QED
      BY <2>13, <2>15, <3>1
  <2>17. ReferencePoint(b.market, p) = v
    BY <2>15, <2>16
  <2>18. p.line \in Int /\ ReferencePoint(b.market, p) = (IF b.market = "spread" THEN -p.line ELSE p.line)
    BY <1>1, <1>5, <2>1 DEF ReferencePoint
  <2>19. QED
    BY <2>2, <2>17, <2>18
<1>6. QED
  BY <1>4, <1>5

\* A line that all books have two prices for is the one that is used.
LEMMA AgreementHolds ==
  ASSUME PricingInv
  PROVE  AgreedLineUsed
<1>1. \A c \in candidates : board \in Boards /\ c \in CandidatesOf(board.market, board.lines)
                             /\ c.main = MainOf(board)
  <2> SUFFICES ASSUME NEW c \in candidates
               PROVE  board \in Boards /\ c \in CandidatesOf(board.market, board.lines)
                        /\ c.main = MainOf(board)
    OBVIOUS
  <2>1. board \in Boards /\ c \in CandidatesOf(board.market, board.lines)
    BY DEF PricingInv
  <2>2. PICK side : c = CandidateOf(board, side)
    BY <2>1, CandidateIs
  <2>3. QED
    BY <2>1, <2>2 DEF CandidateOf, Assessed
<1> DEFINE pairs == PairsAt(board)
           Everywhere(q) == \A k \in {r.book : r \in pairs} :
                               \E r \in pairs : r.book = k /\ r.line = q.line
           agreed == {p.line : p \in {q \in pairs : Everywhere(q)}}
<1>2. AgreedLineUsed <=>
        \A c \in candidates : \A line \in agreed :
           Cardinality({p \in pairs : p.line # line}) < Cardinality({p.book : p \in pairs})
             => \A p \in c.main : p.line = line
  BY DEF AgreedLineUsed, PairsAt, UsedLines
<1>3. ASSUME NEW c \in candidates, NEW line \in agreed,
             Cardinality({p \in pairs : p.line # line}) < Cardinality({p.book : p \in pairs}),
             NEW p \in c.main
      PROVE  p.line = line
  <2>1. \A k \in {r.book : r \in pairs} : \E r \in pairs : r.book = k /\ r.line = line
    OBVIOUS
  <2>2. p \in MainOf(board) /\ board \in Boards /\ c \in CandidatesOf(board.market, board.lines)
    BY <1>1
  <2>3. QED
    BY <1>3, <2>1, <2>2, AgreedIsUsed
<1>4. QED
  BY <1>2, <1>3

-----------------------------------------------------------------------------
(* The center of a market. *)

\* The larger and the smaller of two numbers.
LEMMA OfTwo ==
  ASSUME NEW m \in Int, NEW n \in Int
  PROVE  /\ Max({m, n}) = IF m >= n THEN m ELSE n
         /\ Min({m, n}) = IF m <= n THEN m ELSE n
<1>1. \E x \in {m, n} : \A y \in {m, n} : x >= y
  OBVIOUS
<1>2. Max({m, n}) \in {m, n} /\ Max({m, n}) >= m /\ Max({m, n}) >= n
  BY <1>1 DEF Max
<1>3. \E x \in {m, n} : \A y \in {m, n} : x <= y
  OBVIOUS
<1>4. Min({m, n}) \in {m, n} /\ Min({m, n}) <= m /\ Min({m, n}) <= n
  BY <1>3 DEF Min
<1>5. QED
  BY <1>2, <1>4

\* A book weighs between a half and two.
LEMMA WeightIs ==
  ASSUME NEW over \in Int
  PROVE  OverroundWeight(over) \in Nat /\ OverroundWeight(over) > 0
<1> DEFINE floor == (Quantum + 49) \div 50
           top == Max({over, floor})
           raw == (40 * Quantum) \div top
           w == Max({500, raw})
<1>1. Quantum \in Int /\ Quantum >= 1
  BY CurveAssumption
<1>2. floor \in Int /\ floor >= 1
  <2> DEFINE q == (Quantum + 49) \div 50
             r == (Quantum + 49) % 50
  <2>1. q \in Int /\ r \in Int /\ Quantum + 49 = 50 * q + r /\ r < 50
    BY <1>1, Division
  <2> HIDE DEF q, r
  <2>2. q >= 1
    BY <1>1, <2>1
  <2>3. QED
    BY <2>1, <2>2 DEF q
<1> HIDE DEF floor
<1>3. top \in Int /\ top >= 1
  BY <1>2, OfTwo
<1> HIDE DEF top
<1>4. raw \in Int
  <2>1. 40 * Quantum \in Int /\ top > 0
    BY <1>1, <1>3
  <2>2. QED
    BY <1>3, <2>1, Division
<1> HIDE DEF raw
<1>5. w \in Int /\ w >= 500
  BY <1>4, OfTwo
<1> HIDE DEF w
<1>6. Min({2000, w}) \in Int /\ Min({2000, w}) >= 500
  <2>1. Min({2000, w}) = IF 2000 <= w THEN 2000 ELSE w
    BY <1>5, OfTwo
  <2>2. QED
    BY <1>5, <2>1
<1>7. OverroundWeight(over) = Min({2000, w})
  BY DEF OverroundWeight, w, raw, top, floor
<1>8. QED
  BY <1>6, <1>7

\* The total of a combination is the combination of the totals.
LEMMA TotalLinear ==
  ASSUME NEW S, IsFiniteSet(S), NEW w, NEW f, NEW g, NEW m \in Int, NEW n \in Int,
         \A x \in S : f[x] \in Int /\ g[x] \in Int /\ w[x] = m * f[x] + n * g[x]
  PROVE  Total(w, S) = m * Total(f, S) + n * Total(g, S)
<1> DEFINE B == {U \in SUBSET S : Total(w, U) # m * Total(f, U) + n * Total(g, U)}
<1> SUFFICES ASSUME B # {} PROVE FALSE
  OBVIOUS
<1>1. PICK U \in B : \A t \in SUBSET U : t # U => t \notin B
  <2>1. B \subseteq SUBSET S
    OBVIOUS
  <2> HIDE DEF B
  <2>2. QED
    BY <2>1, Minimal
<1>2. U # {}
  <2>1. Total(w, {}) = 0 /\ Total(f, {}) = 0 /\ Total(g, {}) = 0
    BY TotalEmpty
  <2>2. Total(w, {}) = m * Total(f, {}) + n * Total(g, {})
    BY <2>1
  <2>3. QED
    BY <1>1, <2>2
<1>3. PICK x \in U : TRUE
  BY <1>2
<1>4. IsFiniteSet(U) /\ U \subseteq S
  BY <1>1, FS_Subset
<1>5. \A y \in S : w[y] \in Int
  <2> SUFFICES ASSUME NEW y \in S PROVE w[y] \in Int
    OBVIOUS
  <2>1. f[y] \in Int /\ g[y] \in Int /\ w[y] = m * f[y] + n * g[y]
    OBVIOUS
  <2>2. m * f[y] \in Int /\ n * g[y] \in Int
    BY <2>1
  <2>3. QED
    BY <2>1, <2>2
<1>6. /\ Total(w, U) = w[x] + Total(w, U \ {x}) /\ Total(f, U) = f[x] + Total(f, U \ {x})
      /\ Total(g, U) = g[x] + Total(g, U \ {x})
  BY <1>3, <1>4, <1>5, TotalRemove
<1>7. Total(w, U \ {x}) = m * Total(f, U \ {x}) + n * Total(g, U \ {x})
  BY <1>1, <1>3, <1>4
<1>8. IsFiniteSet(U \ {x}) /\ U \ {x} \subseteq S
  BY <1>4, FS_RemoveElement
<1>9. Total(f, U \ {x}) \in Int /\ Total(g, U \ {x}) \in Int
  BY <1>8, TotalInt
<1>10. f[x] \in Int /\ g[x] \in Int /\ w[x] = m * f[x] + n * g[x]
  BY <1>3, <1>4
<1> DEFINE F == Total(f, U \ {x})
           G == Total(g, U \ {x})
           fx == f[x]
           gx == g[x]
<1>11. m * (fx + F) + n * (gx + G) = (m * fx + n * gx) + (m * F + n * G)
  <2>0. F \in Int /\ G \in Int /\ fx \in Int /\ gx \in Int
    BY <1>9, <1>10
  <2> HIDE DEF F, G, fx, gx
  <2>1. m * (fx + F) = m * fx + m * F /\ n * (gx + G) = n * gx + n * G
    BY <2>0
  <2>2. m * fx \in Int /\ m * F \in Int /\ n * gx \in Int /\ n * G \in Int
    BY <2>0
  <2>3. QED
    BY <2>1, <2>2
<1>12. QED
  BY <1>1, <1>6, <1>7, <1>10, <1>11

\* What a book that is not at the center counts, with no deviation in the middle: it moves
\* the center by half a point of its weight at most.
LEMMA InfluenceIs ==
  ASSUME NEW weight \in Nat, NEW deviation \in Nat
  PROVE  /\ Influence(weight, deviation, 0) \in Nat
         /\ deviation = 0 => Influence(weight, deviation, 0) = weight
         /\ 2 * deviation * Influence(weight, deviation, 0) <= Grid * weight
<1>1. Grid \in Int /\ Grid > 0
  BY CurveAssumption
<1>2. CASE deviation = 0
  <2>1. Influence(weight, deviation, 0) = weight
    BY <1>2 DEF Influence
  <2>2. Grid * weight \in Nat
    BY <1>1
  <2>3. QED
    BY <1>2, <2>1, <2>2
<1>3. CASE deviation # 0
  <2> DEFINE d == 200 * deviation
             cap == Min({d, Max({100 * Grid, 222 * 0})})
             n == weight * cap
             x == n \div d
  <2>1. d \in Int /\ d > 0 /\ d = 200 * deviation
    BY <1>3
  <2> HIDE DEF d
  <2>2. cap \in Int /\ 0 <= cap /\ cap <= 100 * Grid
    <3>1. Max({100 * Grid, 222 * 0}) = 100 * Grid
      BY <1>1, OfTwo
    <3> DEFINE g == 100 * Grid
    <3>2. g \in Int /\ 0 <= g
      BY <1>1
    <3> HIDE DEF g
    <3>3. Min({d, g}) = IF d <= g THEN d ELSE g
      BY <2>1, <3>2, OfTwo
    <3>4. Min({d, g}) \in Int /\ 0 <= Min({d, g}) /\ Min({d, g}) <= g
      BY <2>1, <3>2, <3>3
    <3>5. QED
      BY <3>1, <3>4 DEF g
  <2>3. Influence(weight, deviation, 0) = x
    BY <1>3 DEF Influence, d
  <2> HIDE DEF cap
  <2>4. n \in Int /\ 0 <= n /\ n <= weight * (100 * Grid)
    <3>1. weight * cap <= weight * (100 * Grid)
      BY <1>1, <2>2
    <3>2. weight * cap \in Int /\ 0 <= weight * cap
      BY <2>2
    <3>3. QED
      BY <3>1, <3>2
  <2> HIDE DEF n
  <2>5. x \in Int /\ n % d \in Int /\ n = d * x + (n % d) /\ 0 <= n % d /\ n % d < d
    BY <2>1, <2>4, Division
  <2> HIDE DEF x
  <2>6. x >= 0
    <3>1. ASSUME x <= -1 PROVE FALSE
      <4>1. d * x <= -d /\ d * x \in Int
        BY <2>1, <2>5, <3>1
      <4>2. QED
        BY <2>1, <2>4, <2>5, <4>1
    <3>2. QED
      BY <2>5, <3>1
  <2>7. d * x <= weight * (100 * Grid)
    <3>1. d * x \in Int /\ weight * (100 * Grid) \in Int
      BY <1>1, <2>1, <2>5
    <3>2. QED
      BY <2>4, <2>5, <3>1
  <2>8. d * x = 100 * (2 * deviation * x) /\ weight * (100 * Grid) = 100 * (Grid * weight)
    BY <1>1, <2>1, <2>5
  <2>9. 2 * deviation * x \in Int /\ Grid * weight \in Int
    BY <1>1, <2>5
  <2>10. 2 * deviation * x <= Grid * weight
    BY <2>7, <2>8, <2>9
  <2>11. QED
    BY <1>3, <2>3, <2>5, <2>6, <2>10
<1>4. QED
  BY <1>2, <1>3

\* A majority of a weight has the weighted median.
LEMMA WeightedMajority ==
  ASSUME NEW B, IsFiniteSet(B), NEW cen \in [B -> Int], NEW wt \in [B -> Nat], NEW v \in Int,
         v \in Range(cen), 2 * Total(wt, {k \in B : cen[k] = v}) > Total(wt, B)
  PROVE  WeightedMedian(cen, wt) = v
<1> DEFINE Agreed == {k \in B : cen[k] = v}
           UpTo(u) == {k \in B : cen[k] <= u}
           T == {u \in Range(cen) : 2 * Total(wt, UpTo(u)) >= Total(wt, B)}
<1>1. DOMAIN cen = B /\ \A k \in B : wt[k] \in Nat
  OBVIOUS
<1>2. \A S \in SUBSET B : IsFiniteSet(S) /\ Total(wt, S) \in Nat
  <2> SUFFICES ASSUME NEW S \in SUBSET B PROVE IsFiniteSet(S) /\ Total(wt, S) \in Nat
    OBVIOUS
  <2>1. IsFiniteSet(S) /\ \A k \in S : wt[k] \in Nat
    BY <1>1, FS_Subset
  <2>2. QED
    BY <2>1, TotalNat
<1>3. T \in SUBSET Int /\ IsFiniteSet(T)
  <2>1. IsFiniteSet(Range(cen)) /\ Range(cen) \subseteq Int
    BY <1>1, RangeFinite DEF Range
  <2>2. T \subseteq Range(cen)
    OBVIOUS
  <2> HIDE DEF T
  <2>3. IsFiniteSet(T)
    BY <2>1, <2>2, FS_Subset
  <2>4. QED
    BY <2>1, <2>2, <2>3
<1>4. v \in T
  <2>1. Agreed \in SUBSET UpTo(v) /\ UpTo(v) \in SUBSET B
    OBVIOUS
  <2>2. IsFiniteSet(UpTo(v)) /\ \A k \in UpTo(v) : wt[k] \in Nat
    BY <1>1, <1>2, <2>1
  <2> HIDE DEF Agreed, UpTo
  <2>3. Total(wt, Agreed) <= Total(wt, UpTo(v))
    BY <2>1, <2>2, TotalMonotone
  <2>4. Total(wt, Agreed) \in Nat /\ Total(wt, UpTo(v)) \in Nat /\ Total(wt, B) \in Nat
    BY <1>2, <2>1
  <2>5. 2 * Total(wt, Agreed) > Total(wt, B)
    BY DEF Agreed
  <2>6. QED
    BY <2>3, <2>4, <2>5
<1>5. ASSUME NEW u \in T, u < v PROVE FALSE
  <2>1. u \in Int
    BY <1>3
  <2>2. Agreed \in SUBSET B /\ UpTo(u) \in SUBSET B /\ Agreed \cap UpTo(u) = {}
        /\ Agreed \cup UpTo(u) \in SUBSET B
    BY <1>5, <2>1
  <2>3. 2 * Total(wt, UpTo(u)) >= Total(wt, B)
    OBVIOUS
  <2>4. 2 * Total(wt, Agreed) > Total(wt, B)
    BY DEF Agreed
  <2> HIDE DEF Agreed, UpTo, T
  <2>5. \A k \in Agreed \cup UpTo(u) : wt[k] \in Int
    BY <1>1, <2>2
  <2>6. IsFiniteSet(Agreed) /\ IsFiniteSet(UpTo(u))
    BY <1>2, <2>2
  <2>7. Total(wt, Agreed \cup UpTo(u)) = Total(wt, Agreed) + Total(wt, UpTo(u))
    BY <2>2, <2>5, <2>6, TotalUnion
  <2>8. Total(wt, Agreed \cup UpTo(u)) <= Total(wt, B)
    BY <1>1, <2>2, TotalMonotone
  <2>9. Total(wt, Agreed) \in Nat /\ Total(wt, UpTo(u)) \in Nat /\ Total(wt, B) \in Nat
    BY <1>2, <2>2
  <2>10. QED
    BY <2>3, <2>4, <2>7, <2>8, <2>9
<1>6. WeightedMedian(cen, wt) = Min(T)
  BY DEF WeightedMedian
<1> HIDE DEF T
<1>7. Min(T) \in T /\ Min(T) <= v
  BY <1>3, <1>4, MinIs
<1>8. Min(T) \in Int
  BY <1>3, <1>7
<1>9. QED
  BY <1>5, <1>6, <1>7, <1>8

\* A mean that lies within half a point of v, rounded.
LEMMA MeanNear ==
  ASSUME NEW n \in Int, NEW d \in Int, d > 0, NEW v \in Int,
         2 * (n - v * d) < Grid * d, 2 * (v * d - n) < Grid * d
  PROVE  2 * Magnitude(RoundHalfEven(n, d) - v) <= Grid
<1> DEFINE x == RoundHalfEven(n, d)
<1>1. x \in Int /\ 2 * (n - d * x) <= d /\ 2 * (d * x - n) <= d
  BY RoundNear
<1>2. Grid \in Int /\ Grid > 0
  BY CurveAssumption
<1> HIDE DEF x
<1>3. d * x \in Int /\ v * d \in Int /\ Grid * d \in Int
  BY <1>1, <1>2
<1>4. ASSUME NEW y \in Int, 2 * y >= Grid + 1 PROVE 2 * (d * y) >= Grid * d + d
  <2>1. d * (2 * y) >= d * (Grid + 1)
    BY <1>2, <1>4
  <2>2. d * (2 * y) = 2 * (d * y) /\ d * (Grid + 1) = Grid * d + d
    BY <1>2
  <2>3. QED
    BY <2>1, <2>2
<1>5. ~(2 * (x - v) >= Grid + 1)
  <2> SUFFICES ASSUME 2 * (x - v) >= Grid + 1 PROVE FALSE
    OBVIOUS
  <2>0. x - v \in Int
    BY <1>1
  <2>1. 2 * (d * (x - v)) >= Grid * d + d
    BY <1>4, <2>0
  <2>2. d * (x - v) = d * x - v * d
    BY <1>1
  <2>3. QED
    BY <1>1, <1>3, <2>1, <2>2
<1>6. ~(2 * (v - x) >= Grid + 1)
  <2> SUFFICES ASSUME 2 * (v - x) >= Grid + 1 PROVE FALSE
    OBVIOUS
  <2>0. v - x \in Int
    BY <1>1
  <2>1. 2 * (d * (v - x)) >= Grid * d + d
    BY <1>4, <2>0
  <2>2. d * (v - x) = v * d - d * x
    BY <1>1
  <2>3. QED
    BY <1>1, <1>3, <2>1, <2>2
<1>7. 2 * Magnitude(x - v) <= Grid
  BY <1>1, <1>2, <1>5, <1>6 DEF Magnitude
<1>8. QED
  BY <1>7 DEF x

\* Where most of the books and of the weight put the center is half a point from it at most.
LEMMA MajorityCenter ==
  ASSUME NEW B, IsFiniteSet(B), NEW cen \in [B -> Int], NEW wt \in [B -> Nat], NEW v \in Int,
         v \in Range(cen),
         2 * Cardinality({k \in B : cen[k] = v}) > Cardinality(B),
         2 * Total(wt, {k \in B : cen[k] = v}) > Total(wt, B)
  PROVE  2 * Magnitude(MarketCenter(cen, wt) - v) <= Grid
<1> DEFINE Agreed == {k \in B : cen[k] = v}
           Off == B \ Agreed
           dev == [k \in B |-> Magnitude(cen[k] - v)]
           inf == [k \in B |-> Influence(wt[k], dev[k], 0)]
           pull == [k \in B |-> cen[k] * inf[k]]
           e == [k \in B |-> pull[k] + (-v) * inf[k]]
           t == [k \in B |-> IF k \in Agreed THEN wt[k] ELSE -wt[k]]
           n == Total(pull, B)
           d == Total(inf, B)
<1>1. \A k \in B : cen[k] \in Int /\ wt[k] \in Nat /\ dev[k] \in Nat /\ (dev[k] = 0 <=> cen[k] = v)
                   /\ (dev[k] = cen[k] - v \/ dev[k] = v - cen[k])
  BY DEF Magnitude
<1>2. Grid \in Int /\ Grid > 0 /\ DOMAIN cen = B /\ dev \in [B -> Int]
  BY <1>1, CurveAssumption
<1>3. WeightedMedian(cen, wt) = v
  BY WeightedMajority
<1>4. DoubleMedian(dev) = 0
  <2>1. {k \in B : dev[k] = 0} = Agreed
    BY <1>1
  <2>2. 2 * Cardinality({k \in B : dev[k] = 0}) > Cardinality(B)
    BY <2>1
  <2> HIDE DEF dev
  <2>3. QED
    BY <1>2, <2>2, MedianMajority
<1>5. MarketCenter(cen, wt) = RoundHalfEven(n, d)
  <2>1. MarketCenter(cen, wt) =
          LET influence == [b \in B |-> Influence(wt[b], dev[b], DoubleMedian(dev))]
          IN  RoundHalfEven(Total([b \in B |-> cen[b] * influence[b]], B), Total(influence, B))
    BY <1>2, <1>3 DEF MarketCenter
  <2>2. QED
    BY <1>4, <2>1
<1>6. ASSUME NEW k \in B
      PROVE  /\ inf[k] \in Nat /\ (k \in Agreed => inf[k] = wt[k]) /\ 2 * dev[k] * inf[k] <= Grid * wt[k]
             /\ Grid * wt[k] \in Int
  <2>1. wt[k] \in Nat /\ dev[k] \in Nat /\ inf[k] = Influence(wt[k], dev[k], 0)
    BY <1>1
  <2>2. k \in Agreed => dev[k] = 0
    BY <1>1
  <2> DEFINE w == wt[k]
             a == dev[k]
             i == Influence(w, a, 0)
  <2>3. w \in Nat /\ a \in Nat /\ inf[k] = i /\ (k \in Agreed => a = 0)
    BY <2>1, <2>2
  <2>4. wt[k] = w /\ dev[k] = a
    OBVIOUS
  <2> HIDE DEF inf, dev, Agreed, w, a
  <2>5. i \in Nat /\ (a = 0 => i = w) /\ 2 * a * i <= Grid * w
    BY <2>3, InfluenceIs
  <2> HIDE DEF i
  <2>6. Grid * w \in Int
    BY <1>2, <2>3
  <2>7. QED
    BY <2>3, <2>4, <2>5, <2>6
<1>7. ASSUME NEW k \in B
      PROVE  /\ pull[k] \in Int /\ e[k] \in Int /\ t[k] \in Int /\ inf[k] \in Int
             /\ e[k] = 1 * pull[k] + (-v) * inf[k]
             /\ 2 * e[k] + Grid * t[k] <= Grid * inf[k]
             /\ -2 * e[k] + Grid * t[k] <= Grid * inf[k]
  <2> DEFINE c == cen[k]
             i == inf[k]
             w == wt[k]
             a == dev[k]
  <2>1. c \in Int /\ w \in Nat /\ i \in Nat /\ a \in Nat /\ (a = c - v \/ a = v - c)
        /\ 2 * a * i <= Grid * w /\ (k \in Agreed => i = w /\ a = 0)
    BY <1>1, <1>6
  <2>2. pull[k] = c * i /\ e[k] = c * i + (-v) * i /\ t[k] = (IF k \in Agreed THEN w ELSE -w)
    OBVIOUS
  <2> HIDE DEF c, i, w, a, pull, e, t, Agreed, inf, dev
  <2>3. c * i \in Int /\ (-v) * i \in Int /\ c * i + (-v) * i = (c - v) * i
    BY <2>1
  <2>4. pull[k] \in Int /\ e[k] \in Int /\ t[k] \in Int /\ e[k] = (c - v) * i
    BY <2>1, <2>2, <2>3
  <2>5. a * i \in Int /\ (a * i = (c - v) * i \/ a * i = -((c - v) * i))
    BY <2>1
  <2>6. 0 <= Grid * i /\ Grid * i \in Int /\ Grid * w \in Int /\ Grid * (-w) = -(Grid * w)
    BY <1>2, <2>1
  <2>7. 2 * a * i = 2 * (a * i)
    BY <2>1
  <2>8. CASE k \in Agreed
    <3>1. a * i = 0
      BY <2>1, <2>8
    <3>2. e[k] = 0
      BY <2>4, <2>5, <3>1
    <3>3. t[k] = i
      BY <2>1, <2>2, <2>8
    <3>4. 2 * e[k] + Grid * t[k] <= Grid * inf[k] /\ -2 * e[k] + Grid * t[k] <= Grid * inf[k]
      BY <2>6, <3>2, <3>3 DEF i
    <3>5. QED
      BY <2>1, <2>2, <2>4, <3>4 DEF i
  <2>9. CASE k \notin Agreed
    <3>1. Grid * t[k] = -(Grid * w)
      BY <2>2, <2>6, <2>9
    <3>2. 2 * e[k] <= Grid * w /\ -2 * e[k] <= Grid * w
      <4>1. 2 * (a * i) <= Grid * w /\ (e[k] = a * i \/ e[k] = -(a * i))
        BY <2>1, <2>4, <2>5, <2>7
      <4>2. a * i >= 0
        BY <2>1
      <4>3. QED
        BY <2>5, <2>6, <4>1, <4>2
    <3>3. 2 * e[k] + Grid * t[k] <= Grid * inf[k] /\ -2 * e[k] + Grid * t[k] <= Grid * inf[k]
      BY <2>4, <2>6, <3>1, <3>2 DEF i
    <3>4. QED
      BY <2>1, <2>2, <2>4, <3>3 DEF i
  <2>10. QED
    BY <2>8, <2>9

<1> DEFINE up == [k \in B |-> 2 * e[k] + Grid * t[k]]
           down == [k \in B |-> (-2) * e[k] + Grid * t[k]]
           room == [k \in B |-> Grid * inf[k] + 0 * inf[k]]
<1>8. \A k \in B : up[k] = 2 * e[k] + Grid * t[k] /\ down[k] = (-2) * e[k] + Grid * t[k]
                   /\ room[k] = Grid * inf[k] + 0 * inf[k]
  OBVIOUS
<1>9. \A k \in B : (k \in Agreed => t[k] = wt[k]) /\ (k \in Off => t[k] = -wt[k])
  OBVIOUS
<1>10. Agreed \in SUBSET B /\ Off \in SUBSET B /\ Agreed \cap Off = {} /\ Agreed \cup Off = B
  OBVIOUS
<1>11. 2 * Total(wt, Agreed) > Total(wt, B)
  OBVIOUS
<1> HIDE DEF up, down, room, e, t, pull, inf, dev, Agreed, Off
<1>12. Total(e, B) = n + (-v) * d /\ n \in Int /\ d \in Int
  <2>1. n \in Int /\ d \in Int
    BY <1>7, TotalInt
  <2>2. \A k \in B : pull[k] \in Int /\ inf[k] \in Int /\ e[k] = 1 * pull[k] + (-v) * inf[k]
    BY <1>7
  <2>3. 1 \in Int /\ -v \in Int
    OBVIOUS
  <2>4. Total(e, B) = 1 * n + (-v) * d
    BY <2>2, <2>3, TotalLinear
  <2>5. QED
    BY <2>1, <2>4
<1>13. Total(t, B) \in Int /\ Total(t, B) > 0 /\ Total(wt, Agreed) > 0 /\ Total(wt, Agreed) \in Int
  <2>1. IsFiniteSet(Agreed) /\ IsFiniteSet(Off)
    BY <1>10, FS_Subset
  <2>2. Total(t, Agreed) = Total(wt, Agreed)
    BY <1>9, <1>10, <2>1, TotalAgree
  <2>3. Total(t, Off) = (-1) * Total(wt, Off) + 0 * Total(wt, Off)
    <3>1. \A k \in Off : wt[k] \in Int /\ t[k] = (-1) * wt[k] + 0 * wt[k]
      BY <1>1, <1>9, <1>10
    <3>2. QED
      BY <2>1, <3>1, TotalLinear
  <2>4. Total(wt, Agreed) \in Nat /\ Total(wt, Off) \in Nat
    <3>1. (\A k \in Agreed : wt[k] \in Nat) /\ \A k \in Off : wt[k] \in Nat
      BY <1>1, <1>10
    <3>2. QED
      BY <2>1, <3>1, TotalNat
  <2>5. Total(t, B) = Total(t, Agreed) + Total(t, Off)
    <3>1. \A k \in Agreed \cup Off : t[k] \in Int
      BY <1>7, <1>10
    <3>2. QED
      BY <1>10, <2>1, <3>1, TotalUnion
  <2>6. Total(wt, B) = Total(wt, Agreed) + Total(wt, Off)
    <3>1. \A k \in Agreed \cup Off : wt[k] \in Int
      BY <1>1, <1>10
    <3>2. QED
      BY <1>10, <2>1, <3>1, TotalUnion
  <2>7. QED
    BY <1>11, <2>2, <2>3, <2>4, <2>5, <2>6
<1>14. d > 0
  <2>1. Total(inf, Agreed) <= d
    BY <1>6, <1>10, TotalMonotone
  <2>2. Total(inf, Agreed) = Total(wt, Agreed)
    <3>1. IsFiniteSet(Agreed) /\ \A k \in Agreed : inf[k] = wt[k]
      BY <1>6, <1>10, FS_Subset
    <3>2. QED
      BY <3>1, TotalAgree
  <2>3. QED
    BY <1>12, <1>13, <2>1, <2>2
<1>15. Total(up, B) = 2 * Total(e, B) + Grid * Total(t, B)
  <2>1. \A k \in B : e[k] \in Int /\ t[k] \in Int /\ up[k] = 2 * e[k] + Grid * t[k]
    BY <1>7, <1>8
  <2>2. QED
    BY <1>2, <2>1, TotalLinear
<1>16. Total(down, B) = (-2) * Total(e, B) + Grid * Total(t, B)
  <2>1. \A k \in B : e[k] \in Int /\ t[k] \in Int /\ down[k] = (-2) * e[k] + Grid * t[k]
    BY <1>7, <1>8
  <2>2. -2 \in Int
    OBVIOUS
  <2>3. QED
    BY <1>2, <2>1, <2>2, TotalLinear
<1>17. Total(room, B) = Grid * d + 0 * d
  <2>1. \A k \in B : inf[k] \in Int /\ room[k] = Grid * inf[k] + 0 * inf[k]
    BY <1>7, <1>8
  <2>2. QED
    BY <1>2, <2>1, TotalLinear
<1>18. Total(up, B) <= Total(room, B) /\ Total(down, B) <= Total(room, B)
  <2>1. ASSUME NEW k \in B
        PROVE  up[k] \in Int /\ down[k] \in Int /\ room[k] \in Int /\ up[k] <= room[k] /\ down[k] <= room[k]
    <3>1. e[k] \in Int /\ t[k] \in Int /\ inf[k] \in Int
      BY <1>7
    <3>2. Grid * t[k] \in Int /\ Grid * inf[k] \in Int /\ 0 * inf[k] = 0
      BY <1>2, <3>1
    <3>3. (-2) * e[k] = -2 * e[k]
      BY <3>1
    <3>4. QED
      BY <1>7, <1>8, <3>1, <3>2, <3>3
  <2>2. QED
    BY <2>1, TotalLeq
<1> HIDE DEF n, d
<1>19. 2 * (n - v * d) < Grid * d /\ 2 * (v * d - n) < Grid * d
  <2>1. v * d \in Int /\ (-v) * d = -(v * d) /\ Grid * d \in Int /\ 0 * d = 0
    BY <1>2, <1>12
  <2>2. Grid * Total(t, B) \in Int /\ Grid * Total(t, B) > 0
    BY <1>2, <1>13
  <2>3. QED
    BY <1>12, <1>15, <1>16, <1>17, <1>18, <2>1, <2>2
<1>20. QED
  BY <1>5, <1>12, <1>14, <1>19, MeanNear

\* What a market of lines is priced with: a center and a weight for every book.
LEMMA CentersTyped ==
  ASSUME NEW b \in Boards, NEW c \in CandidatesOf(b.market, b.lines)
  PROVE  /\ IsFiniteSet(BooksOf(b)) /\ BooksOf(b) # {}
         /\ CentersOf(b) \in [BooksOf(b) -> Int]
         /\ WeightsOf(b) \in [BooksOf(b) -> Nat] /\ \A k \in BooksOf(b) : WeightsOf(b)[k] > 0
         /\ \A k \in BooksOf(b) : \E p \in MainOf(b) : p.book = k
<1>1. IsFiniteSet(MainOf(b)) /\ MainOf(b) # {} /\ b.market \in {"moneyline", "spread", "total"}
  BY MainIs
<1>2. \A k \in BooksOf(b) : \E p \in MainOf(b) : p.book = k
  BY DEF BooksOf
<1>3. IsFiniteSet(BooksOf(b)) /\ BooksOf(b) # {}
  <2>1. [p \in MainOf(b) |-> p.book] \in Surjection(MainOf(b), BooksOf(b))
    BY DEF Surjection, BooksOf
  <2>2. IsFiniteSet(BooksOf(b))
    BY <1>1, <2>1, FS_Surjection
  <2>3. BooksOf(b) # {}
    BY <1>1 DEF BooksOf
  <2>4. QED
    BY <2>2, <2>3
<1>4. WeightsOf(b) \in [BooksOf(b) -> Nat] /\ \A k \in BooksOf(b) : WeightsOf(b)[k] > 0
  <2>1. ASSUME NEW k \in BooksOf(b)
        PROVE  /\ OverroundWeight((CHOOSE q \in MainOf(b) : q.book = k).over) \in Nat
               /\ OverroundWeight((CHOOSE q \in MainOf(b) : q.book = k).over) > 0
    <3> DEFINE p == CHOOSE q \in MainOf(b) : q.book = k
    <3>1. p \in MainOf(b)
      BY <1>2
    <3> HIDE DEF p
    <3>2. p \in PairsAt(b)
      BY <3>1, MainIsNearest
    <3>3. p.over \in Int
      BY <3>2, MainIsNearest DEF PairIs
    <3>4. OverroundWeight(p.over) \in Nat /\ OverroundWeight(p.over) > 0
      BY <3>3, WeightIs
    <3>5. QED
      BY <3>4 DEF p
  <2>2. QED
    BY <2>1 DEF WeightsOf
<1>5. CentersOf(b) \in [BooksOf(b) -> Int]
  <2>1. CASE b.market = "moneyline"
    BY <2>1 DEF CentersOf
  <2>2. CASE b.market # "moneyline"
    <3>1. CentersOf(b) = BookCenters(b.market, MainOf(b))
      BY <2>2 DEF CentersOf
    <3>2. ASSUME NEW k \in BooksOf(b) PROVE CentersOf(b)[k] \in Int
      <4>1. PICK p \in MainOf(b) : p.book = k
        BY <1>2
      <4>2. /\ CentersOf(b)[p.book]
                 = InferCenter(b.market, On(p.lines, Sides(b.market)[1]).point, p.probability[1])
            /\ On(p.lines, Sides(b.market)[1]).point \in Int
            /\ p.probability[1] \in 0 .. Quantum /\ b.market \in Lined
        BY <2>2, CenterOfBook
      <4> DEFINE point == On(p.lines, Sides(b.market)[1]).point
                 target == p.probability[1]
      <4>3. point \in Int /\ target \in 0 .. Quantum /\ b.market \in Lined
        BY <4>2
      <4> HIDE DEF point, target
      <4>4. InferCenter(b.market, point, target) \in Int
        BY <4>3, InferCenterIs
      <4>5. QED
        BY <4>1, <4>2, <4>4 DEF point, target
    <3>3. CentersOf(b) = [k \in BooksOf(b) |-> CentersOf(b)[k]]
      <4>1. DOMAIN BookCenters(b.market, MainOf(b)) = BooksOf(b)
        BY DEF BookCenters, BooksOf
      <4>2. BookCenters(b.market, MainOf(b)) = [k \in BooksOf(b) |-> BookCenters(b.market, MainOf(b))[k]]
        BY <4>1 DEF BookCenters
      <4>3. QED
        BY <3>1, <4>2
    <3>4. QED
      BY <3>2, <3>3
  <2>3. QED
    BY <2>1, <2>2
<1>6. QED
  BY <1>2, <1>3, <1>4, <1>5

\* The center of a majority is the center of the market, to half a point.
LEMMA MajorityRules ==
  ASSUME PricingInv
  PROVE  MajorityHoldsTheCenter
<1> DEFINE B == BooksOf(board)
           cen == CentersOf(board)
           wt == WeightsOf(board)
           Agreed(v) == {k \in B : cen[k] = v}
<1> SUFFICES ASSUME NEW c \in candidates, NEW v \in Range(c.centers),
                    2 * Cardinality({k \in DOMAIN c.centers : c.centers[k] = v}) > Cardinality(DOMAIN c.centers),
                    2 * Total(c.weights, {k \in DOMAIN c.centers : c.centers[k] = v})
                       > Total(c.weights, DOMAIN c.centers)
             PROVE  2 * Magnitude(c.center - v) <= Grid
  BY DEF MajorityHoldsTheCenter
<1>1. board \in Boards /\ c \in CandidatesOf(board.market, board.lines)
  BY DEF PricingInv
<1>2. c.centers = cen /\ c.weights = wt /\ c.center = CenterOf(board)
  <2>1. PICK side : c = CandidateOf(board, side)
    BY <1>1, CandidateIs
  <2>2. QED
    BY <2>1 DEF CandidateOf, Assessed
<1>3. IsFiniteSet(B) /\ cen \in [B -> Int] /\ wt \in [B -> Nat]
  BY <1>1, CentersTyped
<1>4. DOMAIN cen = B /\ v \in Range(cen)
  BY <1>2, <1>3
<1>5. 2 * Cardinality(Agreed(v)) > Cardinality(B) /\ 2 * Total(wt, Agreed(v)) > Total(wt, B)
  BY <1>2, <1>4
<1>6. v \in Int
  BY <1>3, <1>4 DEF Range
<1>7. CASE board.market = "moneyline"
  <2>1. CenterOf(board) = 0 /\ \A k \in B : cen[k] = 0
    BY <1>7 DEF CenterOf, CentersOf
  <2>2. v = 0
    BY <1>4, <2>1 DEF Range
  <2>3. Grid \in Nat
    BY CurveAssumption
  <2>4. QED
    BY <1>2, <2>1, <2>2, <2>3 DEF Magnitude
<1>8. CASE board.market # "moneyline"
  <2>1. CenterOf(board) = MarketCenter(cen, wt)
    BY <1>8 DEF CenterOf
  <2> HIDE DEF B, cen, wt
  <2>2. 2 * Magnitude(MarketCenter(cen, wt) - v) <= Grid
    BY <1>3, <1>4, <1>5, <1>6, MajorityCenter
  <2>3. QED
    BY <1>2, <2>1, <2>2
<1>9. QED
  BY <1>7, <1>8

\* The center of a market is the one its books mean (infer_market_center, build_market_center):
\* whatever the histogram of residuals, the resolutions and the lines.
THEOREM CentersAreTheBooks == ConsensusSpec => []CenterIsTheBooks
<1>1. PricingInv => CenterIsTheBooks
  BY AgreementHolds, MajorityRules, PricesReproduced DEF CenterIsTheBooks
<1>2. QED
  BY <1>1, PricingKeeps, PTL

-----------------------------------------------------------------------------
(* The best price of a side. *)

\* Fractions with positive denominators are compared as their numbers are.
LEMMA FractionsOrdered ==
  ASSUME NEW n1 \in Int, NEW d1 \in Int, NEW n2 \in Int, NEW d2 \in Int, NEW n3 \in Int, NEW d3 \in Int,
         d1 > 0, d2 > 0, d3 > 0, n1 * d2 >= n2 * d1, n2 * d3 >= n3 * d2
  PROVE  /\ n1 * d3 >= n3 * d1
         /\ n1 * d2 > n2 * d1 \/ n2 * d3 > n3 * d2 => n1 * d3 > n3 * d1
<1> DEFINE a == n1 * d2
           b == n2 * d1
           c == n2 * d3
           e == n3 * d2
           g == n1 * d3
           h == n3 * d1
<1>1. a \in Int /\ b \in Int /\ c \in Int /\ e \in Int /\ g \in Int /\ h \in Int
  OBVIOUS
<1>2. d3 * a = d2 * g /\ d3 * b = d1 * c /\ d1 * e = d2 * h
  OBVIOUS
<1>3. a >= b /\ c >= e
  OBVIOUS
<1>4. (a > b \/ c > e => g > h) /\ g >= h
  <2> HIDE DEF a, b, c, e, g, h
  <2>1. d3 * a >= d3 * b /\ d1 * c >= d1 * e /\ (a > b => d3 * a > d3 * b) /\ (c > e => d1 * c > d1 * e)
    BY <1>1, <1>3
  <2>2. d2 * g \in Int /\ d2 * h \in Int /\ d3 * b \in Int /\ d1 * e \in Int
    BY <1>1
  <2>3. d2 * g >= d2 * h /\ (a > b \/ c > e => d2 * g > d2 * h)
    BY <1>2, <2>1, <2>2
  <2>4. (g < h => d2 * g < d2 * h) /\ (g <= h => d2 * g <= d2 * h)
    BY <1>1
  <2>5. QED
    BY <1>1, <2>2, <2>3, <2>4
<1>5. QED
  BY <1>4

\* x is at least as good as y: by value, by the edge, by the price, by the book's key.
AsGood(V, N, D, P, K, x, y) ==
    \/ V[x] > V[y]
    \/ V[x] = V[y] /\ N[x] * D[y] > N[y] * D[x]
    \/ V[x] = V[y] /\ N[x] * D[y] = N[y] * D[x]
         /\ (P[x] > P[y] \/ (P[x] = P[y] /\ K[x] >= K[y]))

\* So there is a best one.
LEMMA BestExists ==
  ASSUME NEW S, IsFiniteSet(S), S # {}, NEW V \in [S -> Int], NEW N \in [S -> Int], NEW D \in [S -> Int],
         NEW P \in [S -> Int], NEW K \in [S -> Int], \A x \in S : D[x] > 0
  PROVE  \E x \in S : \A y \in S : AsGood(V, N, D, P, K, x, y)
<1> DEFINE R == {pair \in S \X S : AsGood(V, N, D, P, K, pair[1], pair[2])}
<1>1. \A x, y \in S : <<x, y>> \in R <=> AsGood(V, N, D, P, K, x, y)
  OBVIOUS
<1> HIDE DEF R
<1>2. \A x \in S : V[x] \in Int /\ N[x] \in Int /\ D[x] \in Int /\ D[x] > 0 /\ P[x] \in Int /\ K[x] \in Int
  OBVIOUS
<1>3. \A x, y \in S : N[x] * D[y] \in Int
  BY <1>2
<1>4. \A x, y \in S : AsGood(V, N, D, P, K, x, y) \/ AsGood(V, N, D, P, K, y, x)
  <2> SUFFICES ASSUME NEW x \in S, NEW y \in S
               PROVE  AsGood(V, N, D, P, K, x, y) \/ AsGood(V, N, D, P, K, y, x)
    OBVIOUS
  <2> DEFINE m == N[x] * D[y]
             n == N[y] * D[x]
  <2>1. m \in Int /\ n \in Int
    BY <1>3
  <2>2. V[x] \in Int /\ V[y] \in Int /\ P[x] \in Int /\ P[y] \in Int /\ K[x] \in Int /\ K[y] \in Int
    BY <1>2
  <2>3. AsGood(V, N, D, P, K, x, y) <=>
          \/ V[x] > V[y]
          \/ V[x] = V[y] /\ m > n
          \/ V[x] = V[y] /\ m = n /\ (P[x] > P[y] \/ (P[x] = P[y] /\ K[x] >= K[y]))
    BY DEF AsGood
  <2>4. AsGood(V, N, D, P, K, y, x) <=>
          \/ V[y] > V[x]
          \/ V[y] = V[x] /\ n > m
          \/ V[y] = V[x] /\ n = m /\ (P[y] > P[x] \/ (P[y] = P[x] /\ K[y] >= K[x]))
    BY DEF AsGood
  <2> HIDE DEF m, n
  <2>5. QED
    BY <2>1, <2>2, <2>3, <2>4
<1>5. \A x, y, z \in S : AsGood(V, N, D, P, K, x, y) /\ AsGood(V, N, D, P, K, y, z) => AsGood(V, N, D, P, K, x, z)
  <2> SUFFICES ASSUME NEW x \in S, NEW y \in S, NEW z \in S,
                      AsGood(V, N, D, P, K, x, y), AsGood(V, N, D, P, K, y, z)
               PROVE  AsGood(V, N, D, P, K, x, z)
    OBVIOUS
  <2> DEFINE a == N[x] * D[y]
             b == N[y] * D[x]
             c == N[y] * D[z]
             e == N[z] * D[y]
             g == N[x] * D[z]
             h == N[z] * D[x]
  <2>1. a \in Int /\ b \in Int /\ c \in Int /\ e \in Int /\ g \in Int /\ h \in Int
    BY <1>3
  <2>2. /\ V[x] \in Int /\ V[y] \in Int /\ V[z] \in Int /\ P[x] \in Int /\ P[y] \in Int /\ P[z] \in Int
        /\ K[x] \in Int /\ K[y] \in Int /\ K[z] \in Int
    BY <1>2
  <2>3. /\ a >= b /\ c >= e => g >= h
        /\ a >= b /\ c >= e /\ (a > b \/ c > e) => g > h
    <3>1. /\ N[x] \in Int /\ N[y] \in Int /\ N[z] \in Int /\ D[x] \in Int /\ D[y] \in Int /\ D[z] \in Int
          /\ D[x] > 0 /\ D[y] > 0 /\ D[z] > 0
      BY <1>2
    <3>2. QED
      BY <3>1, FractionsOrdered
  <2>4. b >= a /\ e >= c => h >= g
    <3>1. /\ N[x] \in Int /\ N[y] \in Int /\ N[z] \in Int /\ D[x] \in Int /\ D[y] \in Int /\ D[z] \in Int
          /\ D[x] > 0 /\ D[y] > 0 /\ D[z] > 0
      BY <1>2
    <3>2. e >= c /\ b >= a => h >= g
      BY <3>1, FractionsOrdered
    <3>3. QED
      BY <3>2
  <2>5. \/ V[x] > V[y]
        \/ V[x] = V[y] /\ a > b
        \/ V[x] = V[y] /\ a = b /\ (P[x] > P[y] \/ (P[x] = P[y] /\ K[x] >= K[y]))
    BY DEF AsGood
  <2>6. \/ V[y] > V[z]
        \/ V[y] = V[z] /\ c > e
        \/ V[y] = V[z] /\ c = e /\ (P[y] > P[z] \/ (P[y] = P[z] /\ K[y] >= K[z]))
    BY DEF AsGood
  <2>7. AsGood(V, N, D, P, K, x, z) <=>
          \/ V[x] > V[z]
          \/ V[x] = V[z] /\ g > h
          \/ V[x] = V[z] /\ g = h /\ (P[x] > P[z] \/ (P[x] = P[z] /\ K[x] >= K[z]))
    BY DEF AsGood
  <2> HIDE DEF a, b, c, e, g, h
  <2>8. QED
    BY <2>1, <2>2, <2>3, <2>4, <2>5, <2>6, <2>7
<1>6. (\A x, y \in S : <<x, y>> \in R \/ <<y, x>> \in R)
      /\ \A x, y, z \in S : <<x, y>> \in R /\ <<y, z>> \in R => <<x, z>> \in R
  BY <1>1, <1>4, <1>5
<1>7. \E x \in S : \A y \in S : <<x, y>> \in R
  BY <1>6, Greatest
<1>8. QED
  BY <1>1, <1>7

\* What a book at some distance counts is never negative, at none its weight.
LEMMA InfluenceNat ==
  ASSUME NEW weight \in Nat, NEW deviation \in Nat, NEW mad \in Nat
  PROVE  /\ Influence(weight, deviation, mad) \in Nat
         /\ deviation = 0 => Influence(weight, deviation, mad) = weight
<1>1. Grid \in Int /\ Grid > 0
  BY CurveAssumption
<1>2. CASE deviation = 0
  BY <1>2 DEF Influence
<1>3. CASE deviation # 0
  <2> DEFINE d == 200 * deviation
             g == 100 * Grid
             h == 222 * mad
             top == Max({g, h})
             cap == Min({d, top})
             n == weight * cap
             x == n \div d
  <2>1. d \in Int /\ d > 0 /\ g \in Int /\ g > 0 /\ h \in Int
    BY <1>1, <1>3
  <2>2. Influence(weight, deviation, mad) = x
    BY <1>3 DEF Influence
  <2> HIDE DEF d, g, h
  <2>3. top \in Int /\ top > 0
    <3>1. top = IF g >= h THEN g ELSE h
      BY <2>1, OfTwo
    <3> HIDE DEF top
    <3>2. QED
      BY <2>1, <3>1
  <2> HIDE DEF top
  <2>4. cap \in Int /\ cap >= 0
    <3>1. cap = IF d <= top THEN d ELSE top
      BY <2>1, <2>3, OfTwo
    <3> HIDE DEF cap
    <3>2. QED
      BY <2>1, <2>3, <3>1
  <2> HIDE DEF cap
  <2>5. n \in Int /\ n >= 0
    BY <2>4
  <2> HIDE DEF n
  <2>6. x \in Int /\ n % d \in Int /\ n = d * x + (n % d) /\ n % d < d
    BY <2>1, <2>5, Division
  <2> HIDE DEF x
  <2>7. ASSUME x <= -1 PROVE FALSE
    <3>1. d * x <= -d /\ d * x \in Int
      BY <2>1, <2>6, <2>7
    <3>2. QED
      BY <2>1, <2>5, <2>6, <3>1
  <2>8. x \in Nat
    BY <2>6, <2>7
  <2>9. QED
    BY <1>3, <2>2, <2>8
<1>4. QED
  BY <1>2, <1>3

\* A center is a number: the book in the middle counts in full.
LEMMA MarketCenterInt ==
  ASSUME NEW B, IsFiniteSet(B), B # {}, NEW cen \in [B -> Int], NEW wt \in [B -> Nat],
         \A k \in B : wt[k] > 0
  PROVE  MarketCenter(cen, wt) \in Int
<1> DEFINE UpTo(u) == {k \in B : cen[k] <= u}
           T == {u \in Range(cen) : 2 * Total(wt, UpTo(u)) >= Total(wt, B)}
           v == WeightedMedian(cen, wt)
           dev == [k \in B |-> Magnitude(cen[k] - v)]
           mad == DoubleMedian(dev)
           inf == [k \in B |-> Influence(wt[k], dev[k], mad)]
           pull == [k \in B |-> cen[k] * inf[k]]
           n == Total(pull, B)
           d == Total(inf, B)
<1>1. DOMAIN cen = B /\ \A k \in B : cen[k] \in Int /\ wt[k] \in Nat /\ wt[k] > 0
  OBVIOUS
<1>2. IsFiniteSet(Range(cen)) /\ Range(cen) \in SUBSET Int /\ Range(cen) # {}
  BY <1>1, RangeFinite DEF Range
<1>3. v \in Range(cen)
  <2>1. Max(Range(cen)) \in Range(cen) /\ \A y \in Range(cen) : Max(Range(cen)) >= y
    BY <1>2, MaxIs
  <2>2. UpTo(Max(Range(cen))) = B
    <3>1. \A k \in B : cen[k] \in Range(cen)
      BY <1>1 DEF Range
    <3>2. \A k \in B : Max(Range(cen)) \in Int /\ cen[k] \in Int /\ Max(Range(cen)) >= cen[k]
      BY <1>2, <2>1, <3>1
    <3>3. \A k \in B : cen[k] <= Max(Range(cen))
      BY <3>2
    <3>4. QED
      BY <3>3
  <2>3. Total(wt, B) \in Nat
    BY <1>1, TotalNat
  <2>4. Max(Range(cen)) \in T
    <3> HIDE DEF UpTo
    <3>1. 2 * Total(wt, UpTo(Max(Range(cen)))) >= Total(wt, B)
      BY <2>2, <2>3
    <3>2. QED
      BY <2>1, <3>1
  <2>5. T \subseteq Range(cen)
    OBVIOUS
  <2>6. v = Min(T)
    BY DEF WeightedMedian
  <2> HIDE DEF T, v
  <2>7. IsFiniteSet(T) /\ T \in SUBSET Int /\ T # {}
    BY <1>2, <2>4, <2>5, FS_Subset
  <2>8. Min(T) \in T
    BY <2>7, MinIs
  <2>9. QED
    BY <2>5, <2>6, <2>8
<1>4. MarketCenter(cen, wt) = RoundHalfEven(n, d)
  BY <1>1 DEF MarketCenter
<1>5. PICK k0 \in B : cen[k0] = v
  <2> HIDE DEF v
  <2>1. QED
    BY <1>1, <1>3 DEF Range
<1>6. v \in Int
  BY <1>2, <1>3
<1> HIDE DEF v
<1>7. dev[k0] = 0 /\ \A k \in B : dev[k] \in Nat
  BY <1>1, <1>5, <1>6 DEF Magnitude
<1>8. dev \in [B -> Int] /\ \A y \in Range(dev) : y \in Nat
  BY <1>7 DEF Range
<1> HIDE DEF dev
<1>9. mad \in Nat
  <2>1. /\ mad \in Int /\ Min(LowOf(dev)) \in LowOf(dev) /\ Max(HighOf(dev)) \in HighOf(dev)
        /\ mad = Min(LowOf(dev)) + Max(HighOf(dev))
    BY <1>8, MedianType, MedianIs
  <2>2. Min(LowOf(dev)) \in Nat /\ Max(HighOf(dev)) \in Nat
    BY <1>8, <2>1 DEF LowOf, HighOf
  <2> HIDE DEF mad
  <2>3. QED
    BY <2>1, <2>2
<1> HIDE DEF mad
<1>10. ASSUME NEW k \in B PROVE inf[k] \in Nat /\ (dev[k] = 0 => inf[k] = wt[k]) /\ pull[k] \in Int
  <2> DEFINE w == wt[k]
             a == dev[k]
             i == Influence(w, a, mad)
  <2>1. w \in Nat /\ a \in Nat /\ inf[k] = i /\ pull[k] = cen[k] * i
    BY <1>1, <1>7
  <2>2. wt[k] = w /\ dev[k] = a /\ cen[k] \in Int
    BY <1>1
  <2> HIDE DEF w, a, inf, pull
  <2>3. i \in Nat /\ (a = 0 => i = w)
    BY <1>9, <2>1, InfluenceNat
  <2> HIDE DEF i
  <2>4. cen[k] * i \in Int
    BY <2>2, <2>3
  <2>5. QED
    BY <2>1, <2>2, <2>3, <2>4
<1> HIDE DEF inf, pull
<1>11. d \in Int /\ d > 0
  <2>1. \A k \in B : inf[k] \in Nat /\ inf[k] \in Int
    BY <1>10
  <2>2. Total(inf, B) = inf[k0] + Total(inf, B \ {k0})
    BY <2>1, TotalRemove
  <2>3. IsFiniteSet(B \ {k0}) /\ \A k \in B \ {k0} : inf[k] \in Nat
    BY <2>1, FS_RemoveElement
  <2>4. Total(inf, B \ {k0}) \in Nat
    BY <2>3, TotalNat
  <2>5. inf[k0] \in Nat /\ inf[k0] > 0
    BY <1>1, <1>7, <1>10
  <2>6. QED
    BY <2>2, <2>4, <2>5
<1>12. n \in Int
  BY <1>10, TotalInt
<1> HIDE DEF n, d
<1>13. QED
  BY <1>4, <1>11, <1>12, RoundNear

\* A median lies among the values.
LEMMA MedianWithin ==
  ASSUME NEW S, IsFiniteSet(S), S # {}, NEW whole \in Nat, NEW f \in [S -> 0 .. whole]
  PROVE  DoubleMedian(f) \in 0 .. (2 * whole)
<1>1. f \in [S -> Int] /\ Range(f) \subseteq 0 .. whole
  BY DEF Range
<1>2. /\ Min(LowOf(f)) \in LowOf(f) /\ Max(HighOf(f)) \in HighOf(f)
      /\ DoubleMedian(f) = Min(LowOf(f)) + Max(HighOf(f))
  BY <1>1, MedianType, MedianIs
<1>3. Min(LowOf(f)) \in 0 .. whole /\ Max(HighOf(f)) \in 0 .. whole
  BY <1>1, <1>2 DEF LowOf, HighOf
<1>4. QED
  BY <1>2, <1>3

\* The chances of one side of a moneyline among the books.
ChancesOf(b, index) == [p \in MainOf(b) |-> p.probability[index]]

\* The chances the books give the two sides add up.
LEMMA ChancesTyped ==
  ASSUME NEW b \in Boards, NEW c \in CandidatesOf(b.market, b.lines)
  PROVE  /\ IsFiniteSet(MainOf(b)) /\ MainOf(b) # {} /\ Quantum \in Nat
         /\ ChancesOf(b, 1) \in [MainOf(b) -> 0 .. Quantum]
         /\ ChancesOf(b, 2) \in [MainOf(b) -> 0 .. Quantum]
         /\ \A p \in MainOf(b) : ChancesOf(b, 2)[p] = Quantum - ChancesOf(b, 1)[p]
<1>1. \A p \in MainOf(b) : PairIs(b.market, p)
  BY MainIsNearest
<1>2. \A p \in MainOf(b) : p.probability[1] \in 0 .. Quantum /\ p.probability[2] \in 0 .. Quantum
                            /\ p.probability[2] = Quantum - p.probability[1]
  BY <1>1 DEF PairIs
<1>3. IsFiniteSet(MainOf(b)) /\ MainOf(b) # {} /\ Quantum \in Nat
  BY MainIs, CurveAssumption
<1>4. QED
  BY <1>2, <1>3 DEF ChancesOf

\* What is offered for a side: one line of every book.
OffersOf(b, side) == {On(p.lines, side) : p \in MainOf(b)}

\* The offers of a side and their numbers.
LEMMA OffersTyped ==
  ASSUME NEW b \in Boards, NEW c \in CandidatesOf(b.market, b.lines),
         NEW side \in Range(Sides(b.market))
  PROVE  /\ IsFiniteSet(OffersOf(b, side)) /\ OffersOf(b, side) # {}
         /\ \A x \in OffersOf(b, side) :
               /\ PriceOf(x) \in Int /\ PriceOf(x) >= 100 /\ x.book \in Int /\ x.side = side
               /\ IF b.market = "moneyline" THEN x.point = Pointless ELSE x.point \in Int
<1>1. IsFiniteSet(MainOf(b)) /\ MainOf(b) # {} /\ UsedLines(b.lines) \subseteq b.lines
  BY MainIs
<1>2. [p \in MainOf(b) |-> On(p.lines, side)] \in Surjection(MainOf(b), OffersOf(b, side))
  BY DEF Surjection, OffersOf
<1>3. IsFiniteSet(OffersOf(b, side)) /\ OffersOf(b, side) # {}
  <2>1. IsFiniteSet(OffersOf(b, side))
    BY <1>1, <1>2, FS_Surjection
  <2>2. OffersOf(b, side) # {}
    BY <1>1 DEF OffersOf
  <2>3. QED
    BY <2>1, <2>2
<1>4. ASSUME NEW x \in OffersOf(b, side)
      PROVE  /\ PriceOf(x) \in Int /\ PriceOf(x) >= 100 /\ x.book \in Int /\ x.side = side
             /\ IF b.market = "moneyline" THEN x.point = Pointless ELSE x.point \in Int
  <2>1. PICK p \in MainOf(b) : x = On(p.lines, side)
    BY DEF OffersOf
  <2>2. p \in PairsAt(b)
    BY MainIsNearest
  <2>3. PairIs(b.market, p) /\ PairShape(b.market, UsedLines(b.lines), p)
    BY <2>2, MainIsNearest
  <2>4. x \in p.lines /\ x.side = side /\ x \in b.lines
    BY <1>1, <2>1, <2>3 DEF PairShape
  <2>5. x.book \in Int
    BY <2>4, BoardAssumption
  <2>6. QED
    BY <2>3, <2>4, <2>5 DEF PairIs
<1>5. QED
  BY <1>3, <1>4

\* What a side is worth: chances, none of them negative, and those of the other side are
\* the same ones exchanged.
LEMMA CenterIsNumber ==
  ASSUME NEW b \in Boards, NEW c \in CandidatesOf(b.market, b.lines)
  PROVE  CenterOf(b) \in Int
<1>1. CASE b.market = "moneyline"
  BY <1>1 DEF CenterOf
<1>2. CASE b.market # "moneyline"
  <2> DEFINE B == BooksOf(b)
             cen == CentersOf(b)
             wt == WeightsOf(b)
  <2>1. IsFiniteSet(B) /\ B # {} /\ cen \in [B -> Int] /\ wt \in [B -> Nat] /\ \A k \in B : wt[k] > 0
    BY CentersTyped
  <2>2. CenterOf(b) = MarketCenter(cen, wt)
    BY <1>2 DEF CenterOf
  <2> HIDE DEF B, cen, wt
  <2>3. QED
    BY <2>1, <2>2, MarketCenterInt
<1>3. QED
  BY <1>1, <1>2

FairOf(b, x) == Fair(b.market, MainOf(b), x.side, x.point, CenterOf(b))

\* The chances of an offer are natural numbers.
LEMMA FairIs ==
  ASSUME NEW b \in Boards, NEW c \in CandidatesOf(b.market, b.lines),
         NEW side \in Range(Sides(b.market)), NEW x \in OffersOf(b, side)
  PROVE  FairOf(b, x).win \in Nat /\ FairOf(b, x).loss \in Nat
<1>1. x.side = side /\ IF b.market = "moneyline" THEN x.point = Pointless ELSE x.point \in Int
  BY OffersTyped
<1>2. CASE b.market = "moneyline"
  <2> DEFINE index == IF x.side = "home" THEN 1 ELSE 2
             twice == DoubleMedian(ChancesOf(b, index))
  <2>1. FairOf(b, x) = [win |-> twice, push |-> 0, loss |-> 2 * Quantum - twice]
    BY <1>2 DEF FairOf, Fair, ChancesOf
  <2>2. twice \in 0 .. (2 * Quantum) /\ Quantum \in Nat
    <3>1. ChancesOf(b, index) \in [MainOf(b) -> 0 .. Quantum]
      BY ChancesTyped
    <3>2. IsFiniteSet(MainOf(b)) /\ MainOf(b) # {} /\ Quantum \in Nat
      BY ChancesTyped
    <3> HIDE DEF index
    <3>3. QED
      BY <3>1, <3>2, MedianWithin
  <2> HIDE DEF twice
  <2>3. QED
    BY <2>1, <2>2
<1>3. CASE b.market # "moneyline"
  <2>1. b.market \in Lined /\ x.point \in Int /\ CenterOf(b) \in Int
    BY <1>1, <1>3, BoardAssumption, CenterIsNumber DEF Lined
  <2>2. FairOf(b, x) = Settlement(b.market, CenterOf(b), x.point, x.side)
    BY <1>3 DEF FairOf, Fair
  <2>3. QED
    BY <2>1, <2>2, MassIs DEF Settlement
<1>4. QED
  BY <1>2, <1>3

\* The two sides of a line see the same chances from opposite ends.
LEMMA FairMirrored ==
  ASSUME NEW b \in Boards, NEW c \in CandidatesOf(b.market, b.lines),
         NEW x \in OffersOf(b, Sides(b.market)[1]), NEW y \in OffersOf(b, Sides(b.market)[2]),
         LineOf(b.market, x) = LineOf(b.market, y)
  PROVE  FairOf(b, y).win = FairOf(b, x).loss /\ FairOf(b, y).loss = FairOf(b, x).win
<1> DEFINE market == b.market
           s1 == Sides(market)[1]
           s2 == Sides(market)[2]
<1>1. /\ market \in {"moneyline", "spread", "total"}
      /\ Range(Sides(market)) = {s1, s2}
      /\ market = "total" => s1 = "over" /\ s2 = "under"
      /\ market # "total" => s1 = "home" /\ s2 = "away"
  BY SidesAre, BoardAssumption
<1>2. /\ x.side = s1 /\ IF market = "moneyline" THEN x.point = Pointless ELSE x.point \in Int
      /\ y.side = s2 /\ IF market = "moneyline" THEN y.point = Pointless ELSE y.point \in Int
  BY <1>1, OffersTyped
<1>3. CASE market = "moneyline"
  <2> DEFINE f == ChancesOf(b, 1)
             g == ChancesOf(b, 2)
             D == MainOf(b)
  <2>1. FairOf(b, x) = [win |-> DoubleMedian(f), push |-> 0, loss |-> 2 * Quantum - DoubleMedian(f)]
    BY <1>1, <1>2, <1>3 DEF FairOf, Fair, ChancesOf
  <2>2. FairOf(b, y) = [win |-> DoubleMedian(g), push |-> 0, loss |-> 2 * Quantum - DoubleMedian(g)]
    BY <1>1, <1>2, <1>3 DEF FairOf, Fair, ChancesOf
  <2>3. /\ IsFiniteSet(D) /\ D # {} /\ Quantum \in Int /\ Quantum \in Nat
        /\ f \in [D -> 0 .. Quantum] /\ g \in [D -> 0 .. Quantum]
        /\ f \in [D -> Int] /\ g \in [D -> Int] /\ \A p \in D : g[p] = Quantum - f[p]
    BY ChancesTyped
  <2> HIDE DEF f, g, D
  <2>4. DoubleMedian(g) = 2 * Quantum - DoubleMedian(f)
    BY <2>3, MedianMirror
  <2>5. DoubleMedian(f) \in 0 .. (2 * Quantum)
    BY <2>3, MedianWithin
  <2>6. 2 * Quantum - (2 * Quantum - DoubleMedian(f)) = DoubleMedian(f)
    BY <2>3, <2>5
  <2>7. QED
    BY <2>1, <2>2, <2>4, <2>6
<1>4. CASE market # "moneyline"
  <2> DEFINE p1 == x.point
             p2 == y.point
             center == CenterOf(b)
  <2>1. market \in Lined /\ p1 \in Int /\ p2 \in Int /\ center \in Int
    BY <1>1, <1>2, <1>4, CenterIsNumber DEF Lined
  <2>2. p2 = IF market = "spread" THEN -p1 ELSE p1
    <3>1. p1 = IF market = "spread" THEN -p2 ELSE p2
      BY <1>1, <1>2, <1>4 DEF LineOf
    <3> HIDE DEF p1, p2
    <3>2. QED
      BY <2>1, <3>1
  <2>3. FairOf(b, x) = Settlement(market, center, p1, s1) /\ FairOf(b, y) = Settlement(market, center, p2, s2)
    BY <1>2, <1>4 DEF FairOf, Fair
  <2> HIDE DEF market, center, p1, p2
  <2>4. /\ Mass(market, center, p2, s2, 1) = Mass(market, center, p1, s1, -1)
        /\ Mass(market, center, p2, s2, -1) = Mass(market, center, p1, s1, 1)
    <3>1. ASSUME NEW k1 \in Signs, NEW k2 \in Signs, k1 + k2 = 0
          PROVE  Mass(market, center, p2, s2, k2) = Mass(market, center, p1, s1, k1)
      BY <2>1, <2>2, <3>1, MassMirror
    <3>2. 1 \in Signs /\ -1 \in Signs
      BY DEF Signs
    <3> HIDE DEF Signs
    <3>0. 1 + -1 = 0 /\ -1 + 1 = 0
      OBVIOUS
    <3> HIDE DEF s1, s2
    <3>3. Mass(market, center, p2, s2, 1) = Mass(market, center, p1, s1, -1)
      BY <3>0, <3>1, <3>2
    <3>4. Mass(market, center, p2, s2, -1) = Mass(market, center, p1, s1, 1)
      BY <3>0, <3>1, <3>2
    <3>5. QED
      BY <3>3, <3>4
  <2>5. QED
    BY <2>3, <2>4 DEF Settlement
<1>5. QED
  BY <1>3, <1>4

\* What a price is worth: the edge is a fraction, above zero where the value is.
WorthOf(b, x) == Value(FairOf(b, x), PriceOf(x))
EdgeAt(b, x) == Edge(FairOf(b, x), PriceOf(x))

\* An offer has an edge exactly when it is worth something.
LEMMA WorthIs ==
  ASSUME NEW b \in Boards, NEW c \in CandidatesOf(b.market, b.lines),
         NEW side \in Range(Sides(b.market)), NEW x \in OffersOf(b, side)
  PROVE  /\ WorthOf(b, x) \in Int
         /\ EdgeAt(b, x)[1] \in Int /\ EdgeAt(b, x)[2] \in Int /\ EdgeAt(b, x)[2] > 0
         /\ EdgeAt(b, x)[1] > 0 <=> WorthOf(b, x) > 0
<1> DEFINE w == FairOf(b, x).win
           l == FairOf(b, x).loss
           d == PriceOf(x)
<1>1. w \in Nat /\ l \in Nat /\ d \in Int /\ d >= 100
  BY FairIs, OffersTyped
<1>2. WorthOf(b, x) = w * (d - 100) - l * 100
  BY DEF WorthOf, Value
<1>3. EdgeAt(b, x) = IF w + l = 0 THEN <<-100, d>> ELSE <<w * d - 100 * (w + l), (w + l) * d>>
  BY DEF EdgeAt, Edge
<1> HIDE DEF w, l, d
<1>4. w * (d - 100) = w * d - w * 100 /\ w * d \in Int /\ (w + l) * d \in Int
  BY <1>1
<1>5. CASE w + l = 0
  <2>1. w = 0 /\ l = 0
    BY <1>1, <1>5
  <2>2. w * (d - 100) = 0
    BY <1>1, <2>1
  <2>3. WorthOf(b, x) = 0
    BY <1>2, <2>1, <2>2
  <2>4. QED
    BY <1>1, <1>3, <1>5, <2>3
<1>6. CASE w + l # 0
  <2>1. (w + l) * d > 0
    BY <1>1, <1>6
  <2>2. EdgeAt(b, x)[1] = w * d - 100 * (w + l) /\ EdgeAt(b, x)[2] = (w + l) * d
    BY <1>3, <1>6
  <2>3. QED
    BY <1>1, <1>2, <1>4, <2>1, <2>2
<1>7. QED
  BY <1>5, <1>6

BestOf(b, side) ==
    CHOOSE x \in OffersOf(b, side) : \A y \in OffersOf(b, side) :
        Preferred(b.market, MainOf(b), side, CenterOf(b), x, y)

\* There is a best offer: the preference is a total order.
LEMMA BestIs ==
  ASSUME NEW b \in Boards, NEW c \in CandidatesOf(b.market, b.lines),
         NEW side \in Range(Sides(b.market))
  PROVE  BestOf(b, side) \in OffersOf(b, side)
<1> DEFINE S == OffersOf(b, side)
           Pref(x, y) == Preferred(b.market, MainOf(b), side, CenterOf(b), x, y)
           V == [x \in S |-> IF b.market = "moneyline" THEN 0 ELSE WorthOf(b, x)]
           N == [x \in S |-> IF b.market = "moneyline" THEN 0 ELSE EdgeAt(b, x)[1]]
           D == [x \in S |-> IF b.market = "moneyline" THEN 1 ELSE EdgeAt(b, x)[2]]
           P == [x \in S |-> PriceOf(x)]
           K == [x \in S |-> x.book]
<1>1. IsFiniteSet(S) /\ S # {}
      /\ \A x \in S : PriceOf(x) \in Int /\ x.book \in Int /\ x.side = side
  BY OffersTyped
<1>2. \A x \in S : /\ WorthOf(b, x) \in Int /\ EdgeAt(b, x)[1] \in Int
                   /\ EdgeAt(b, x)[2] \in Int /\ EdgeAt(b, x)[2] > 0
  BY WorthIs
<1>3. /\ V \in [S -> Int] /\ N \in [S -> Int] /\ D \in [S -> Int] /\ P \in [S -> Int] /\ K \in [S -> Int]
      /\ \A x \in S : D[x] > 0
  BY <1>1, <1>2
<1>4. ASSUME NEW x \in S, NEW y \in S PROVE Pref(x, y) <=> AsGood(V, N, D, P, K, x, y)
  <2> DEFINE byPrice == PriceOf(x) > PriceOf(y) \/ (PriceOf(x) = PriceOf(y) /\ x.book >= y.book)
  <2>1. P[x] = PriceOf(x) /\ P[y] = PriceOf(y) /\ K[x] = x.book /\ K[y] = y.book
    OBVIOUS
  <2>2. CASE b.market = "moneyline"
    <3>1. Pref(x, y) <=> byPrice
      BY <2>2 DEF Preferred
    <3>2. V[x] = 0 /\ V[y] = 0 /\ N[x] = 0 /\ N[y] = 0 /\ D[x] = 1 /\ D[y] = 1
      BY <2>2
    <3> HIDE DEF V, N, D, P, K, Pref
    <3>3. AsGood(V, N, D, P, K, x, y) <=> byPrice
      BY <2>1, <3>2 DEF AsGood
    <3>4. QED
      BY <3>1, <3>3
  <2>3. CASE b.market # "moneyline"
    <3>1. Fair(b.market, MainOf(b), side, x.point, CenterOf(b)) = FairOf(b, x)
          /\ Fair(b.market, MainOf(b), side, y.point, CenterOf(b)) = FairOf(b, y)
      BY <1>1 DEF FairOf
    <3> DEFINE vx == WorthOf(b, x)
               vy == WorthOf(b, y)
               ex == EdgeAt(b, x)
               ey == EdgeAt(b, y)
    <3>2. Pref(x, y) <=>
            \/ vx > vy
            \/ vx = vy /\ ex[1] * ey[2] > ey[1] * ex[2]
            \/ vx = vy /\ ex[1] * ey[2] = ey[1] * ex[2] /\ byPrice
      BY <2>3, <3>1 DEF Preferred, WorthOf, EdgeAt
    <3>3. V[x] = vx /\ V[y] = vy /\ N[x] = ex[1] /\ N[y] = ey[1] /\ D[x] = ex[2] /\ D[y] = ey[2]
      BY <2>3
    <3> HIDE DEF V, N, D, P, K, Pref, vx, vy, ex, ey
    <3>4. AsGood(V, N, D, P, K, x, y) <=>
            \/ vx > vy
            \/ vx = vy /\ ex[1] * ey[2] > ey[1] * ex[2]
            \/ vx = vy /\ ex[1] * ey[2] = ey[1] * ex[2] /\ byPrice
      BY <2>1, <3>3 DEF AsGood
    <3>5. QED
      BY <3>2, <3>4
  <2>4. QED
    BY <2>2, <2>3
<1> HIDE DEF V, N, D, P, K, S
<1>5. \E x \in S : \A y \in S : AsGood(V, N, D, P, K, x, y)
  BY <1>1, <1>3, BestExists
<1>6. \E x \in S : \A y \in S : Pref(x, y)
  BY <1>4, <1>5
<1>7. (CHOOSE x \in S : \A y \in S : Pref(x, y)) \in S
  BY <1>6
<1>8. QED
  BY <1>7 DEF BestOf, S

\* A candidate is the best price of its side and what it is worth.
LEMMA CandidateWorth ==
  ASSUME PricingInv, NEW c \in candidates
  PROVE  /\ board \in Boards /\ c \in CandidatesOf(board.market, board.lines)
         /\ c.side \in Range(Sides(board.market)) /\ c.best \in OffersOf(board, c.side)
         /\ c.value = WorthOf(board, c.best) /\ c.edge = EdgeAt(board, c.best)
<1>1. board \in Boards /\ c \in CandidatesOf(board.market, board.lines)
  BY DEF PricingInv
<1>2. PICK side \in Range(Sides(board.market)) : c = CandidateOf(board, side)
  BY <1>1, CandidateIs
<1> DEFINE best == BestOf(board, side)
           fair == Fair(board.market, MainOf(board), side, best.point, CenterOf(board))
<1>3. best \in OffersOf(board, side) /\ best.side = side
  BY <1>1, BestIs, OffersTyped
<1>4. c.side = side /\ c.best = best /\ c.value = Value(fair, PriceOf(best)) /\ c.edge = Edge(fair, PriceOf(best))
  BY <1>2 DEF CandidateOf, Assessed, BestOf, OffersOf
<1>5. fair = FairOf(board, best)
  BY <1>3 DEF FairOf
<1>6. QED
  BY <1>1, <1>3, <1>4, <1>5 DEF WorthOf, EdgeAt

\* Both sides of a line are worth betting only at prices that win whatever happens.
LEMMA SidesPay ==
  ASSUME NEW b \in Boards, NEW c \in CandidatesOf(b.market, b.lines),
         NEW x \in OffersOf(b, Sides(b.market)[1]), NEW y \in OffersOf(b, Sides(b.market)[2]),
         LineOf(b.market, x) = LineOf(b.market, y), WorthOf(b, x) > 0, WorthOf(b, y) > 0
  PROVE  (PriceOf(x) + PriceOf(y)) * 100 < PriceOf(x) * PriceOf(y)
<1> DEFINE w == FairOf(b, x).win
           l == FairOf(b, x).loss
           a == PriceOf(x)
           d == PriceOf(y)
<1>1. Sides(b.market)[1] \in Range(Sides(b.market)) /\ Sides(b.market)[2] \in Range(Sides(b.market))
  BY SidesAre, BoardAssumption
<1>2. w \in Nat /\ l \in Nat /\ a \in Int /\ a >= 100 /\ d \in Int /\ d >= 100
  BY <1>1, FairIs, OffersTyped
<1>3. FairOf(b, y).win = l /\ FairOf(b, y).loss = w
  BY FairMirrored
<1>4. w * (a - 100) - l * 100 > 0 /\ l * (d - 100) - w * 100 > 0
  BY <1>3 DEF WorthOf, Value
<1> DEFINE m == a - 100
           n == d - 100
<1>5. m \in Nat /\ n \in Nat /\ w * m - l * 100 > 0 /\ l * n - w * 100 > 0
  BY <1>2, <1>4
<1>6. m * n > 10000
  <2> HIDE DEF w, l, a, d, m, n
  <2>1. w * m \in Nat /\ l * n \in Nat
    BY <1>2, <1>5
  <2>2. w > 0 /\ n > 0
    <3>1. w * m > 0 /\ l * n > 0
      BY <1>2, <1>5, <2>1
    <3>2. QED
      BY <1>2, <1>5, <3>1
  <2>3. (w * m) * n > (l * 100) * n
    BY <1>2, <1>5, <2>1, <2>2
  <2>4. (l * 100) * n = 100 * (l * n) /\ (w * m) * n = w * (m * n) /\ m * n \in Nat
    BY <1>2, <1>5
  <2>5. 100 * (l * n) > 10000 * w
    BY <1>2, <1>5, <2>1
  <2>6. w * (m * n) > w * 10000
    <3>1. w * (m * n) \in Nat
      BY <1>2, <2>4
    <3>2. QED
      BY <1>2, <2>1, <2>3, <2>4, <2>5, <3>1
  <2> DEFINE k == m * n
  <2>7. k \in Nat /\ w * k > w * 10000
    BY <2>4, <2>6
  <2> HIDE DEF k
  <2>8. k > 10000
    <3>1. k <= 10000 => w * k <= w * 10000
      BY <1>2, <2>7
    <3>2. w * k \in Nat
      BY <1>2, <2>7
    <3>3. QED
      BY <1>2, <2>7, <3>1, <3>2
  <2>9. QED
    BY <2>8 DEF k
<1>7. m * n = a * d - 100 * a - 100 * d + 10000
  <2> HIDE DEF a, d
  <2>1. QED
    BY <1>2
<1> HIDE DEF w, l, m, n
<1>8. QED
  <2> HIDE DEF a, d
  <2>1. a * d \in Int /\ (a + d) * 100 = 100 * a + 100 * d
    BY <1>2
  <2>2. (a + d) * 100 < a * d
    BY <1>2, <1>6, <1>7, <2>1
  <2>3. QED
    BY <2>2 DEF a, d

\* Edge and expected value agree on every price, and the two sides of a line about each
\* other (assess_market_side): whatever the books' prices, with and without pushes.
THEOREM ValuesAgree == ConsensusSpec => []ValueConsistent
<1>1. PricingInv => EdgeAndValueAgree
  <2> SUFFICES ASSUME PricingInv, NEW c \in candidates PROVE c.edge[1] > 0 <=> c.value > 0
    BY DEF EdgeAndValueAgree
  <2>1. /\ board \in Boards /\ c \in CandidatesOf(board.market, board.lines)
        /\ c.side \in Range(Sides(board.market)) /\ c.best \in OffersOf(board, c.side)
        /\ c.value = WorthOf(board, c.best) /\ c.edge = EdgeAt(board, c.best)
    BY CandidateWorth
  <2>2. EdgeAt(board, c.best)[1] > 0 <=> WorthOf(board, c.best) > 0
    BY <2>1, WorthIs
  <2>3. QED
    BY <2>1, <2>2
<1>2. PricingInv => BothSidesPayOnlyInArbitrage
  <2> SUFFICES ASSUME PricingInv, NEW c \in candidates, NEW d \in candidates,
                      c.side # d.side, c.value > 0, d.value > 0,
                      LineOf(board.market, c.best) = LineOf(board.market, d.best)
               PROVE  (PriceOf(c.best) + PriceOf(d.best)) * 100 < PriceOf(c.best) * PriceOf(d.best)
    BY DEF BothSidesPayOnlyInArbitrage
  <2> DEFINE s1 == Sides(board.market)[1]
             s2 == Sides(board.market)[2]
  <2>1. /\ board \in Boards /\ c \in CandidatesOf(board.market, board.lines)
        /\ c.side \in Range(Sides(board.market)) /\ c.best \in OffersOf(board, c.side)
        /\ c.value = WorthOf(board, c.best)
    BY CandidateWorth
  <2>2. /\ d.side \in Range(Sides(board.market)) /\ d.best \in OffersOf(board, d.side)
        /\ d.value = WorthOf(board, d.best)
    BY CandidateWorth
  <2>3. Range(Sides(board.market)) = {s1, s2}
    BY <2>1, SidesAre, BoardAssumption
  <2>4. (c.side = s1 /\ d.side = s2) \/ (c.side = s2 /\ d.side = s1)
    BY <2>1, <2>2, <2>3
  <2>5. CASE c.side = s1 /\ d.side = s2
    BY <2>1, <2>2, <2>5, SidesPay
  <2>6. CASE c.side = s2 /\ d.side = s1
    <3>1. (PriceOf(d.best) + PriceOf(c.best)) * 100 < PriceOf(d.best) * PriceOf(c.best)
      BY <2>1, <2>2, <2>6, SidesPay
    <3>2. PriceOf(c.best) \in Int /\ PriceOf(d.best) \in Int
      BY <2>1, <2>2, OffersTyped
    <3>3. QED
      BY <3>1, <3>2
  <2>7. QED
    BY <2>4, <2>5, <2>6
<1>3. PricingInv => ValueConsistent
  BY <1>1, <1>2 DEF ValueConsistent
<1>4. QED
  BY <1>3, PricingKeeps, PTL

-----------------------------------------------------------------------------
(* Qualification. *)

\* Quotients fall with their fractions.
LEMMA FloorRises ==
  ASSUME NEW n1 \in Int, NEW d1 \in Int, NEW n2 \in Int, NEW d2 \in Int, d1 > 0, d2 > 0,
         n1 * d2 <= n2 * d1
  PROVE  n1 \div d1 \in Int /\ n2 \div d2 \in Int /\ n1 \div d1 <= n2 \div d2
<1> DEFINE p == n1 \div d1
           q == n2 \div d2
<1>1. p \in Int /\ n1 % d1 \in Int /\ n1 = d1 * p + (n1 % d1) /\ 0 <= n1 % d1
  BY Division
<1>2. q \in Int /\ n2 % d2 \in Int /\ n2 = d2 * q + (n2 % d2) /\ n2 % d2 < d2
  BY Division
<1> HIDE DEF p, q
<1>3. ASSUME p >= q + 1 PROVE FALSE
  <2>1. d1 * p <= n1 /\ d1 * p \in Int
    BY <1>1
  <2>2. n2 < d2 * (q + 1)
    <3>1. d2 * q \in Int /\ d2 * (q + 1) = d2 * q + d2
      BY <1>2
    <3>2. QED
      BY <1>2, <3>1
  <2>3. d2 * (q + 1) <= d2 * p
    BY <1>1, <1>2, <1>3
  <2>4. n2 < d2 * p /\ d2 * p \in Int
    BY <1>1, <1>2, <2>2, <2>3
  <2>5. n2 * d1 < (d2 * p) * d1 /\ (d1 * p) * d2 <= n1 * d2
    BY <2>1, <2>4
  <2>6. (d2 * p) * d1 = (d1 * p) * d2 /\ (d1 * p) * d2 \in Int /\ n1 * d2 \in Int /\ n2 * d1 \in Int
    BY <1>1
  <2>7. QED
    BY <2>5, <2>6
<1>4. p <= q
  BY <1>1, <1>2, <1>3
<1>5. QED
  BY <1>1, <1>2, <1>4 DEF p, q

\* The price and the fraction of a quote.
PriceAt(q) == DecimalOdds(q.odds)
FractionOf(q) == Edge(q, PriceAt(q))
WinningsOf(q) == Value(q, PriceAt(q))

\* The price, the edge and the expected value of a quote as numbers.
LEMMA QuoteIs ==
  ASSUME NEW q \in Quote
  PROVE  /\ PriceAt(q) \in Int /\ PriceAt(q) >= 100
         /\ FractionOf(q)[1] \in Int /\ FractionOf(q)[2] \in Int /\ FractionOf(q)[2] > 0
         /\ WinningsOf(q) \in Int
         /\ WinningsOf(q) = q.win * (PriceAt(q) - 100) - q.loss * 100
         /\ FractionOf(q) = IF q.win + q.loss = 0 THEN <<-100, PriceAt(q)>>
                            ELSE <<q.win * PriceAt(q) - 100 * (q.win + q.loss), (q.win + q.loss) * PriceAt(q)>>
<1> DEFINE w == q.win
           l == q.loss
           d == PriceAt(q)
<1>1. q.odds \in Int /\ Magnitude(q.odds) >= 100 /\ w \in Nat /\ l \in Nat
  BY DEF Quote
<1>2. d \in Int /\ d >= 100
  <2>1. PriceOf(q) \in Int /\ PriceOf(q) >= 100
    BY <1>1, PriceIs
  <2>2. QED
    BY <2>1 DEF PriceOf, PriceAt
<1>3. WinningsOf(q) = w * (d - 100) - l * 100
  BY DEF WinningsOf, Value
<1>4. FractionOf(q) = IF w + l = 0 THEN <<-100, d>> ELSE <<w * d - 100 * (w + l), (w + l) * d>>
  BY DEF FractionOf, Edge
<1> HIDE DEF w, l, d
<1>5. w * (d - 100) \in Int /\ w * d \in Int /\ (w + l) * d \in Int
  BY <1>1, <1>2
<1>6. w + l # 0 => (w + l) * d > 0
  BY <1>1, <1>2
<1>7. /\ FractionOf(q)[1] \in Int /\ FractionOf(q)[2] \in Int /\ FractionOf(q)[2] > 0
      /\ WinningsOf(q) \in Int
  BY <1>1, <1>2, <1>3, <1>4, <1>5, <1>6
<1>8. QED
  BY <1>2, <1>3, <1>4, <1>7 DEF w, l, d

\* The value of a quote in thousandths, its edge, and the edges it has.
LEMMA EdgesRise ==
  ASSUME NEW q \in Quote, NEW r \in Quote,
         FractionOf(q)[1] * FractionOf(r)[2] <= FractionOf(r)[1] * FractionOf(q)[2]
  PROVE  /\ EdgeOf(q) \in Int /\ EdgeOf(r) \in Int /\ EdgeOf(q) <= EdgeOf(r)
         /\ \A threshold \in Nat : EdgeAtLeast(q, threshold) => EdgeAtLeast(r, threshold)
<1> DEFINE n1 == FractionOf(q)[1]
           d1 == FractionOf(q)[2]
           n2 == FractionOf(r)[1]
           d2 == FractionOf(r)[2]
<1>1. n1 \in Int /\ d1 \in Int /\ d1 > 0 /\ n2 \in Int /\ d2 \in Int /\ d2 > 0 /\ n1 * d2 <= n2 * d1
  BY QuoteIs
<1>2. EdgeOf(q) = (1000 * n1) \div d1 /\ EdgeOf(r) = (1000 * n2) \div d2
  BY DEF EdgeOf, FractionOf, PriceAt
<1>3. \A t : (EdgeAtLeast(q, t) <=> n1 * 1000 >= t * d1) /\ (EdgeAtLeast(r, t) <=> n2 * 1000 >= t * d2)
  BY DEF EdgeAtLeast, FractionOf, PriceAt
<1> HIDE DEF n1, d1, n2, d2
<1> DEFINE m1 == 1000 * n1
           m2 == 1000 * n2
<1>4. m1 \in Int /\ m2 \in Int /\ m1 * d2 <= m2 * d1 /\ n1 * 1000 = m1 /\ n2 * 1000 = m2
  <2>1. m1 * d2 = 1000 * (n1 * d2) /\ m2 * d1 = 1000 * (n2 * d1) /\ n1 * d2 \in Int /\ n2 * d1 \in Int
    BY <1>1
  <2>2. QED
    BY <1>1, <2>1
<1> HIDE DEF m1, m2
<1>5. m1 \div d1 \in Int /\ m2 \div d2 \in Int /\ m1 \div d1 <= m2 \div d2
  BY <1>1, <1>4, FloorRises
<1>6. ASSUME NEW t \in Nat, m1 >= t * d1 PROVE m2 >= t * d2
  <2>1. m2 * d1 >= m1 * d2 /\ m1 * 1 >= t * d1 /\ 1 \in Int /\ 1 > 0 /\ t \in Int
    BY <1>1, <1>4, <1>6
  <2>2. m2 * 1 >= t * d2
    BY <1>1, <1>4, <2>1, FractionsOrdered
  <2>3. QED
    BY <1>4, <2>2
<1>7. QED
  BY <1>2, <1>3, <1>4, <1>5, <1>6 DEF m1, m2

\* The shortfall to a threshold falls as the value rises.
LEMMA ShortfallFalls ==
  ASSUME NEW low \in Int, NEW high \in Int, low <= high, NEW threshold \in Nat
  PROVE  /\ Shortfall(low, threshold) \in Nat /\ Shortfall(high, threshold) \in Nat
         /\ Shortfall(high, threshold) <= Shortfall(low, threshold)
<1>1. CASE threshold = 0
  BY <1>1 DEF Shortfall
<1>2. CASE threshold # 0
  <2> DEFINE n1 == 1000 * (threshold - high)
             n2 == 1000 * (threshold - low)
             a == n1 \div threshold
             d == n2 \div threshold
  <2>1. n1 \in Int /\ n2 \in Int /\ n1 <= n2 /\ threshold \in Int /\ threshold > 0
    BY <1>2
  <2>2. Shortfall(high, threshold) = Max({0, a}) /\ Shortfall(low, threshold) = Max({0, d})
    BY <2>1 DEF Shortfall
  <2> HIDE DEF n1, n2
  <2>3. n1 * threshold <= n2 * threshold
    BY <2>1
  <2>4. a \in Int /\ d \in Int /\ a <= d
    BY <2>1, <2>3, FloorRises
  <2> HIDE DEF a, d
  <2>5. Max({0, a}) = (IF 0 >= a THEN 0 ELSE a) /\ Max({0, d}) = (IF 0 >= d THEN 0 ELSE d)
    BY <2>4, OfTwo
  <2>6. QED
    BY <2>2, <2>4, <2>5
<1>3. QED
  BY <1>1, <1>2

\* One quote is at least as good as another, in everything the gates know of.
Better(q, r) ==
    /\ FractionOf(q)[1] * FractionOf(r)[2] <= FractionOf(r)[1] * FractionOf(q)[2]
    /\ WinningsOf(q) <= WinningsOf(r)
    /\ q.books <= r.books
    /\ q.dispersion = Unknown \/ (r.dispersion # Unknown /\ r.dispersion <= q.dispersion)
    /\ r.age = q.age \/ (0 <= r.age /\ r.age <= q.age)
    /\ r.warned => q.warned
    /\ r.uncertainty = "high" => q.uncertainty = "high"
    /\ r.odds > LongestOdds => q.odds > LongestOdds

Reasons == {"books", "dispersion", "age", "warning", "edge", "ev", "longshot"}

\* For what a quote is rejected.
Failures(q) ==
    /\ Rejections(q) \subseteq Reasons
    /\ "books" \in Rejections(q) <=> q.books < GateBooks
    /\ "dispersion" \in Rejections(q) <=> (q.dispersion = Unknown \/ q.dispersion > GateDispersion)
    /\ "age" \in Rejections(q) <=> (q.age < 0 \/ q.age > GateAge)
    /\ "warning" \in Rejections(q) <=> q.warned = TRUE
    /\ "edge" \in Rejections(q) <=> ~EdgeAtLeast(q, GateEdge)
    /\ "ev" \in Rejections(q) <=> EvOf(q) < GateEv
    /\ "longshot" \in Rejections(q) <=> q.odds > LongestOdds

\* Each gate and its reason.
LEMMA RejectedFor == \A q : Failures(q)
BY DEF Rejections, Reasons, Failures

\* What is better is valued and priced higher.
LEMMA BetterValued ==
  ASSUME NEW q \in Quote, NEW r \in Quote, Better(q, r)
  PROVE  /\ EvOf(q) \in Int /\ EvOf(r) \in Int /\ EvOf(q) <= EvOf(r)
         /\ EdgeOf(q) \in Int /\ EdgeOf(r) \in Int /\ EdgeOf(q) <= EdgeOf(r)
         /\ \A threshold \in Nat : EdgeAtLeast(q, threshold) => EdgeAtLeast(r, threshold)
<1>1. WinningsOf(q) \in Int /\ WinningsOf(r) \in Int /\ WinningsOf(q) <= WinningsOf(r)
  BY QuoteIs DEF Better
<1>2. EvOf(q) = WinningsOf(q) \div 10 /\ EvOf(r) = WinningsOf(r) \div 10
  BY DEF EvOf, WinningsOf, PriceAt
<1>3. WinningsOf(q) \div 10 \in Int /\ WinningsOf(r) \div 10 \in Int
      /\ WinningsOf(q) \div 10 <= WinningsOf(r) \div 10
  <2> DEFINE v == WinningsOf(q)
             w == WinningsOf(r)
  <2> HIDE DEF v, w
  <2>1. v \in Int /\ w \in Int /\ v <= w
    BY <1>1 DEF v, w
  <2>2. v \div 10 \in Int /\ w \div 10 \in Int /\ v \div 10 <= w \div 10
    BY <2>1
  <2>3. QED
    BY <2>2 DEF v, w
<1>4. FractionOf(q)[1] * FractionOf(r)[2] <= FractionOf(r)[1] * FractionOf(q)[2]
  BY DEF Better
<1>5. QED
  BY <1>2, <1>3, <1>4, EdgesRise

\* What is better is rejected for less.
LEMMA BetterRejected ==
  ASSUME NEW q \in Quote, NEW r \in Quote, Better(q, r)
  PROVE  Rejections(r) \subseteq Rejections(q)
<1>0. Failures(q) /\ Failures(r)
  BY RejectedFor
<1>1. /\ q.books \in Nat /\ r.books \in Nat /\ q.age \in Int /\ r.age \in Int
      /\ q.dispersion \in Nat \cup {Unknown} /\ r.dispersion \in Nat \cup {Unknown}
  BY DEF Quote
<1>2. GateBooks \in Nat /\ GateAge \in Nat /\ GateDispersion \in Nat /\ GateEdge \in Nat /\ GateEv \in Nat
  BY QualificationAssumption
<1>3. "books" \in Rejections(r) => "books" \in Rejections(q)
  BY <1>1, <1>2, <1>0 DEF Better, Failures
<1>4. "dispersion" \in Rejections(r) => "dispersion" \in Rejections(q)
  BY <1>1, <1>2, <1>0 DEF Better, Failures
<1>5. "age" \in Rejections(r) => "age" \in Rejections(q)
  BY <1>1, <1>2, <1>0 DEF Better, Failures
<1>6. "warning" \in Rejections(r) => "warning" \in Rejections(q)
  <2>1. r.warned \in BOOLEAN /\ q.warned \in BOOLEAN /\ (r.warned => q.warned)
    BY DEF Quote, Better
  <2>2. r.warned = TRUE => q.warned = TRUE
    BY <2>1
  <2>3. QED
    BY <1>0, <2>2 DEF Failures
<1>7. "edge" \in Rejections(r) => "edge" \in Rejections(q)
  BY <1>2, <1>0, BetterValued DEF Failures
<1>8. "ev" \in Rejections(r) => "ev" \in Rejections(q)
  BY <1>2, <1>0, BetterValued DEF Failures
<1>9. "longshot" \in Rejections(r) => "longshot" \in Rejections(q)
  BY <1>0 DEF Better, Failures
<1>10. Rejections(r) \subseteq Reasons
  BY <1>0 DEF Failures
<1>11. QED
  BY <1>3, <1>4, <1>5, <1>6, <1>7, <1>8, <1>9, <1>10 DEF Reasons

\* A gate is failed by no less than nothing, and by no more when the quote is better.
LEMMA DistancesFall ==
  ASSUME NEW q \in Quote, NEW r \in Quote, Better(q, r), "longshot" \notin Rejections(q),
         q.dispersion # Unknown
  PROVE  /\ \A reason \in Rejections(q) : Distance(q, reason) \in Nat
         /\ \A reason \in Rejections(r) :
               Distance(r, reason) \in Nat /\ Distance(r, reason) <= Distance(q, reason)
<1>0. Failures(q) /\ Failures(r)
  BY RejectedFor
<1>1. /\ q.books \in Nat /\ r.books \in Nat /\ q.age \in Int /\ r.age \in Int
      /\ q.dispersion \in Nat /\ r.dispersion \in Nat /\ r.dispersion # Unknown
  BY QualificationAssumption DEF Quote, Better
<1>2. /\ GateBooks \in Nat /\ GateAge \in Nat /\ GateDispersion \in Nat /\ GateEdge \in Nat /\ GateEv \in Nat
      /\ GateBooks > 0 /\ GateAge > 0 /\ GateDispersion > 0
  BY QualificationAssumption
<1>3. ASSUME NEW n \in Int, NEW m \in Int, NEW d \in Int, d > 0, 0 <= n, n <= m
      PROVE  (1000 * n) \div d \in Nat /\ (1000 * m) \div d \in Nat /\ (1000 * n) \div d <= (1000 * m) \div d
  <2> DEFINE a == 1000 * n
             b == 1000 * m
  <2>1. a \in Int /\ b \in Int /\ 0 <= a /\ a <= b
    BY <1>3
  <2> HIDE DEF a, b
  <2>2. a * d <= b * d /\ 0 * d <= a * d
    BY <1>3, <2>1
  <2>3. a \div d \in Int /\ b \div d \in Int /\ a \div d <= b \div d
    BY <1>3, <2>1, <2>2, FloorRises
  <2>4. 0 \div d <= a \div d /\ 0 \div d \in Int
    BY <1>3, <2>1, <2>2, FloorRises
  <2>5. 0 \div d = 0
    <3>1. 0 \div d \in Int /\ 0 % d \in Int /\ 0 = d * (0 \div d) + (0 % d) /\ 0 <= 0 % d /\ 0 % d < d
      BY <1>3, Division
    <3> DEFINE x == 0 \div d
               y == 0 % d
    <3> HIDE DEF x, y
    <3>2. x \in Int /\ y \in Int /\ 0 = d * x + y /\ 0 <= y /\ y < d
      BY <3>1 DEF x, y
    <3>3. ~(x <= -1) /\ ~(x >= 1)
      <4>1. x <= -1 => d * x <= -d
        BY <1>3, <3>2
      <4>2. x >= 1 => d * x >= d
        BY <1>3, <3>2
      <4>3. d * x \in Int
        BY <1>3, <3>2
      <4>4. QED
        BY <1>3, <3>2, <4>1, <4>2, <4>3
    <3>4. QED
      BY <3>2, <3>3 DEF x
  <2>6. QED
    BY <2>3, <2>4, <2>5 DEF a, b
<1>4. "books" \in Rejections(q) =>
        Distance(q, "books") \in Nat
        /\ ("books" \in Rejections(r) => Distance(r, "books") \in Nat /\ Distance(r, "books") <= Distance(q, "books"))
  <2> DEFINE m == GateBooks - q.books
             n == GateBooks - r.books
  <2>1. Distance(q, "books") = (1000 * m) \div GateBooks /\ Distance(r, "books") = (1000 * n) \div GateBooks
    BY DEF Distance
  <2>2. m \in Int /\ n \in Int /\ n <= m /\ ("books" \in Rejections(q) => 0 <= m)
        /\ ("books" \in Rejections(r) => 0 <= n)
    BY <1>1, <1>2, <1>0 DEF Better, Failures
  <2> HIDE DEF m, n
  <2>3. "books" \in Rejections(q) => (1000 * m) \div GateBooks \in Nat
    BY <1>2, <1>3, <2>2
  <2>4. "books" \in Rejections(r) => (1000 * n) \div GateBooks \in Nat
          /\ (1000 * n) \div GateBooks <= (1000 * m) \div GateBooks
    BY <1>2, <1>3, <2>2
  <2>5. QED
    BY <2>1, <2>3, <2>4
<1>5. "dispersion" \in Rejections(q) =>
        Distance(q, "dispersion") \in Nat
        /\ ("dispersion" \in Rejections(r) =>
              Distance(r, "dispersion") \in Nat /\ Distance(r, "dispersion") <= Distance(q, "dispersion"))
  <2> DEFINE m == q.dispersion - GateDispersion
             n == r.dispersion - GateDispersion
  <2>1. Distance(q, "dispersion") = (1000 * m) \div GateDispersion
        /\ Distance(r, "dispersion") = (1000 * n) \div GateDispersion
    BY <1>1 DEF Distance
  <2>2. m \in Int /\ n \in Int /\ n <= m /\ ("dispersion" \in Rejections(q) => 0 <= m)
        /\ ("dispersion" \in Rejections(r) => 0 <= n)
    BY <1>1, <1>2, <1>0 DEF Better, Failures
  <2> HIDE DEF m, n
  <2>3. "dispersion" \in Rejections(q) => (1000 * m) \div GateDispersion \in Nat
    BY <1>2, <1>3, <2>2
  <2>4. "dispersion" \in Rejections(r) => (1000 * n) \div GateDispersion \in Nat
          /\ (1000 * n) \div GateDispersion <= (1000 * m) \div GateDispersion
    BY <1>2, <1>3, <2>2
  <2>5. QED
    BY <2>1, <2>3, <2>4
<1>6. "age" \in Rejections(q) =>
        Distance(q, "age") \in Nat
        /\ ("age" \in Rejections(r) => Distance(r, "age") \in Nat /\ Distance(r, "age") <= Distance(q, "age"))
  <2> DEFINE m == Magnitude(q.age - GateAge)
             n == Magnitude(r.age - GateAge)
  <2>1. Distance(q, "age") = (1000 * m) \div GateAge /\ Distance(r, "age") = (1000 * n) \div GateAge
    BY DEF Distance
  <2>2. m \in Int /\ n \in Int /\ 0 <= m /\ 0 <= n
    BY <1>1, <1>2 DEF Magnitude
  <2>3. "age" \in Rejections(r) => n <= m
    <3>1. r.age = q.age \/ (0 <= r.age /\ r.age <= q.age)
      BY DEF Better
    <3>2. CASE r.age = q.age
      BY <2>2, <3>2
    <3>3. CASE 0 <= r.age /\ r.age <= q.age
      <4>1. "age" \in Rejections(r) => r.age > GateAge
        BY <1>1, <1>2, <1>0, <3>3 DEF Failures
      <4>2. r.age > GateAge => n = r.age - GateAge /\ m = q.age - GateAge
        BY <1>1, <1>2, <3>3 DEF Magnitude
      <4>3. QED
        BY <1>1, <1>2, <3>3, <4>1, <4>2
    <3>4. QED
      BY <3>1, <3>2, <3>3
  <2> HIDE DEF m, n
  <2>4. (1000 * m) \div GateAge \in Nat /\ (1000 * n) \div GateAge \in Nat
    BY <1>2, <1>3, <2>2
  <2>5. "age" \in Rejections(r) => (1000 * n) \div GateAge <= (1000 * m) \div GateAge
    BY <1>2, <1>3, <2>2, <2>3
  <2>6. QED
    BY <2>1, <2>4, <2>5
<1>7. Distance(q, "warning") = 1000 /\ Distance(r, "warning") = 1000
  BY DEF Distance
<1>8. Distance(q, "edge") \in Nat /\ Distance(r, "edge") \in Nat /\ Distance(r, "edge") <= Distance(q, "edge")
  <2>1. Distance(q, "edge") = Shortfall(EdgeOf(q), GateEdge) /\ Distance(r, "edge") = Shortfall(EdgeOf(r), GateEdge)
    BY DEF Distance
  <2>2. EdgeOf(q) \in Int /\ EdgeOf(r) \in Int /\ EdgeOf(q) <= EdgeOf(r)
    BY BetterValued
  <2>3. QED
    BY <1>2, <2>1, <2>2, ShortfallFalls
<1>9. Distance(q, "ev") \in Nat /\ Distance(r, "ev") \in Nat /\ Distance(r, "ev") <= Distance(q, "ev")
  <2>1. Distance(q, "ev") = Shortfall(EvOf(q), GateEv) /\ Distance(r, "ev") = Shortfall(EvOf(r), GateEv)
    BY DEF Distance
  <2>2. EvOf(q) \in Int /\ EvOf(r) \in Int /\ EvOf(q) <= EvOf(r)
    BY BetterValued
  <2>3. QED
    BY <1>2, <2>1, <2>2, ShortfallFalls
<1>10. Rejections(r) \subseteq Rejections(q) /\ Rejections(q) \subseteq Reasons
  BY <1>0, BetterRejected DEF Failures
<1>11. ASSUME NEW reason \in Rejections(q)
       PROVE  /\ Distance(q, reason) \in Nat
              /\ reason \in Rejections(r) =>
                    Distance(r, reason) \in Nat /\ Distance(r, reason) <= Distance(q, reason)
  <2>1. reason \in {"books", "dispersion", "age", "warning", "edge", "ev"}
    BY <1>10 DEF Reasons
  <2>2. CASE reason = "books"
    BY <1>4, <2>2
  <2>3. CASE reason = "dispersion"
    BY <1>5, <2>3
  <2>4. CASE reason = "age"
    BY <1>6, <2>4
  <2>5. CASE reason = "warning"
    BY <1>7, <2>5
  <2>6. CASE reason = "edge"
    BY <1>8, <2>6
  <2>7. CASE reason = "ev"
    BY <1>9, <2>7
  <2>8. QED
    BY <2>1, <2>2, <2>3, <2>4, <2>5, <2>6, <2>7
<1>12. QED
  BY <1>10, <1>11

\* A near miss that becomes better stays one, as long as it is rejected.
LEMMA BetterNearMiss ==
  ASSUME NEW q \in Quote, NEW r \in Quote, Better(q, r), NearMiss(q), Rejections(r) # {}
  PROVE  NearMiss(r)
<1> DEFINE F == Rejections(q)
           G == Rejections(r)
           f == [reason \in F |-> Distance(q, reason)]
           g == [reason \in G |-> Distance(r, reason)]
<1>1. /\ Cardinality(F) \in {1, 2} /\ "longshot" \notin F /\ EdgeOf(q) > 0 /\ EvOf(q) > 0
      /\ \A reason \in F : Distance(q, reason) <= 500
      /\ Total(f, F) <= 750
  BY DEF NearMiss
<1>2. q.dispersion # Unknown
  <2> SUFFICES ASSUME q.dispersion = Unknown PROVE FALSE
    OBVIOUS
  <2>1. "dispersion" \in F
    BY RejectedFor DEF Failures
  <2>2. Distance(q, "dispersion") = 1000
    BY DEF Distance
  <2>3. Distance(q, "dispersion") <= 500
    BY <1>1, <2>1
  <2>4. QED
    BY <2>2, <2>3
<1>3. /\ \A reason \in F : Distance(q, reason) \in Nat
      /\ \A reason \in G : Distance(r, reason) \in Nat /\ Distance(r, reason) <= Distance(q, reason)
  BY <1>1, <1>2, DistancesFall
<1>4. G \subseteq F /\ F \subseteq Reasons
  BY BetterRejected, RejectedFor DEF Failures
<1>5. /\ EvOf(q) \in Int /\ EvOf(r) \in Int /\ EvOf(q) <= EvOf(r)
      /\ EdgeOf(q) \in Int /\ EdgeOf(r) \in Int /\ EdgeOf(q) <= EdgeOf(r)
  BY BetterValued
<1>6. IsFiniteSet(F) /\ IsFiniteSet(G)
  <2>1. IsFiniteSet(Reasons)
    <3>1. IsFiniteSet({}) /\ \A S, x : IsFiniteSet(S) => IsFiniteSet(S \cup {x})
      BY FS_EmptySet, FS_AddElement
    <3>2. IsFiniteSet(((((((({} \cup {"books"}) \cup {"dispersion"}) \cup {"age"}) \cup {"warning"})
                          \cup {"edge"}) \cup {"ev"}) \cup {"longshot"}))
      BY <3>1
    <3>3. Reasons = (((((((({} \cup {"books"}) \cup {"dispersion"}) \cup {"age"}) \cup {"warning"})
                          \cup {"edge"}) \cup {"ev"}) \cup {"longshot"}))
      BY DEF Reasons
    <3>4. QED
      BY <3>2, <3>3
  <2> HIDE DEF F, G
  <2>2. QED
    BY <1>4, <2>1, FS_Subset
<1>7. Cardinality(G) \in {1, 2}
  <2> HIDE DEF F, G
  <2>1. Cardinality(G) <= Cardinality(F) /\ Cardinality(G) \in Nat
    BY <1>4, <1>6, FS_Subset, FS_CardinalityType
  <2>2. G # {}
    BY DEF G
  <2>3. Cardinality(G) # 0
    BY <1>6, <2>2, FS_EmptySet
  <2>4. QED
    BY <1>1, <2>1, <2>3
<1>8. \A reason \in G : Distance(r, reason) <= 500
  BY <1>1, <1>3, <1>4
<1>9. Total(g, G) <= 750
  <2>1. (\A reason \in G : g[reason] = Distance(r, reason)) /\ \A reason \in F : f[reason] = Distance(q, reason)
    OBVIOUS
  <2>2. /\ \A reason \in G : g[reason] \in Int /\ f[reason] \in Int /\ g[reason] <= f[reason]
        /\ \A reason \in F : f[reason] \in Nat
        /\ \A reason \in G : f[reason] \in Nat /\ g[reason] \in Nat
    BY <1>3, <1>4, <2>1
  <2> HIDE DEF f, g, F, G
  <2>3. Total(g, G) <= Total(f, G)
    BY <1>6, <2>2, TotalLeq
  <2>4. Total(f, G) <= Total(f, F)
    BY <1>4, <1>6, <2>2, TotalMonotone
  <2>5. Total(g, G) \in Nat /\ Total(f, G) \in Nat /\ Total(f, F) \in Nat
    BY <1>6, <2>2, TotalNat
  <2>6. QED
    BY <1>1, <2>3, <2>4, <2>5
<1>10. EdgeOf(r) > 0 /\ EvOf(r) > 0 /\ "longshot" \notin G
  BY <1>1, <1>4, <1>5
<1>11. QED
  BY <1>7, <1>8, <1>9, <1>10 DEF NearMiss

\* What is better is of no lower rank.
LEMMA BetterRanks ==
  ASSUME NEW q \in Quote, NEW r \in Quote, Better(q, r)
  PROVE  Rank(r) >= Rank(q)
<1>1. Rejections(r) \subseteq Rejections(q)
  BY BetterRejected
<1>2. /\ EvOf(q) \in Int /\ EvOf(r) \in Int /\ EvOf(q) <= EvOf(r)
      /\ EdgeAtLeast(q, CoreEdge) => EdgeAtLeast(r, CoreEdge)
      /\ CoreEv \in Int
  BY BetterValued, QualificationAssumption
<1>3. r.uncertainty = "high" => q.uncertainty = "high"
  BY DEF Better
<1>4. Rank(r) \in 0 .. 3 /\ Rank(q) \in 0 .. 3
  BY DEF Rank, Class
<1>5. CASE Rejections(q) = {}
  <2>1. Rejections(r) = {}
    BY <1>1, <1>5
  <2>2. Class(q) = "CORE" => Class(r) = "CORE"
    BY <1>2, <1>3, <1>5, <2>1 DEF Class
  <2>3. Class(q) \in {"CORE", "OPPORTUNISTIC"} /\ Class(r) \in {"CORE", "OPPORTUNISTIC"}
    BY <1>5, <2>1 DEF Class
  <2>4. QED
    BY <2>2, <2>3 DEF Rank
<1>6. CASE Rejections(q) # {}
  <2>1. Class(q) = "rejected"
    BY <1>6 DEF Class
  <2>2. Rank(q) = IF NearMiss(q) THEN 1 ELSE 0
    BY <2>1 DEF Rank
  <2>3. CASE Rejections(r) = {}
    <3>1. Class(r) \in {"CORE", "OPPORTUNISTIC"}
      BY <2>3 DEF Class
    <3>2. Rank(r) >= 2
      BY <3>1 DEF Rank
    <3>3. QED
      BY <1>4, <2>2, <3>2
  <2>4. CASE Rejections(r) # {}
    <3>1. Rank(r) = IF NearMiss(r) THEN 1 ELSE 0
      BY <2>4 DEF Rank, Class
    <3>2. NearMiss(q) => NearMiss(r)
      BY <2>4, BetterNearMiss
    <3>3. QED
      BY <2>2, <3>1, <3>2
  <2>5. QED
    BY <2>3, <2>4
<1>7. QED
  BY <1>5, <1>6

\* A quote is as good as one of its price and chances.
LEMMA SameWorth ==
  ASSUME NEW q \in Quote, NEW r \in Quote, r.win = q.win, r.loss = q.loss, r.odds = q.odds
  PROVE  /\ FractionOf(q)[1] * FractionOf(r)[2] <= FractionOf(r)[1] * FractionOf(q)[2]
         /\ WinningsOf(q) <= WinningsOf(r)
         /\ r.odds > LongestOdds => q.odds > LongestOdds
<1>1. PriceAt(r) = PriceAt(q)
  BY DEF PriceAt
<1>2. FractionOf(r) = FractionOf(q) /\ WinningsOf(r) = WinningsOf(q)
  BY <1>1, QuoteIs
<1> DEFINE n == FractionOf(q)[1]
           d == FractionOf(q)[2]
           v == WinningsOf(q)
<1>3. n \in Int /\ d \in Int /\ v \in Int
  BY QuoteIs
<1> HIDE DEF n, d, v
<1>4. n * d <= n * d /\ v <= v
  BY <1>3
<1>5. QED
  BY <1>2, <1>4 DEF n, d, v

\* A quote whose chances or whose price rise is worth more.
LEMMA WorthRises ==
  ASSUME NEW q \in Quote, NEW r \in Quote, r.win + r.loss = q.win + q.loss, r.win >= q.win,
         PriceAt(r) >= PriceAt(q)
  PROVE  /\ FractionOf(q)[1] * FractionOf(r)[2] <= FractionOf(r)[1] * FractionOf(q)[2]
         /\ WinningsOf(q) <= WinningsOf(r)
<1> DEFINE w == q.win
           l == q.loss
           W == r.win
           L == r.loss
           d == PriceAt(q)
           D == PriceAt(r)
           R == w + l
<1>1. w \in Nat /\ l \in Nat /\ W \in Nat /\ L \in Nat /\ W + L = R /\ w <= W /\ R \in Nat
  BY DEF Quote
<1>2. d \in Int /\ D \in Int /\ d >= 100 /\ d <= D
  BY QuoteIs
<1>3. WinningsOf(q) = w * (d - 100) - l * 100 /\ WinningsOf(r) = W * (D - 100) - L * 100
  BY QuoteIs
<1>4. FractionOf(q) = (IF R = 0 THEN <<-100, d>> ELSE <<w * d - 100 * R, R * d>>)
  BY QuoteIs
<1>5. FractionOf(r) = (IF R = 0 THEN <<-100, D>> ELSE <<W * D - 100 * R, R * D>>)
  BY <1>1, QuoteIs
<1> HIDE DEF w, l, W, L, d, D, R
<1>6. L <= l
  <2>1. R = w + l
    BY DEF R
  <2>2. QED
    BY <1>1, <2>1
<1>7. WinningsOf(q) <= WinningsOf(r)
  <2>1. w * (d - 100) <= W * (d - 100) /\ W * (d - 100) <= W * (D - 100)
    BY <1>1, <1>2
  <2>2. w * (d - 100) \in Int /\ W * (d - 100) \in Int /\ W * (D - 100) \in Int
    BY <1>1, <1>2
  <2>3. QED
    BY <1>1, <1>3, <1>6, <2>1, <2>2
<1>8. CASE R = 0
  <2>1. FractionOf(q)[1] = -100 /\ FractionOf(q)[2] = d /\ FractionOf(r)[1] = -100 /\ FractionOf(r)[2] = D
    BY <1>4, <1>5, <1>8
  <2>2. (-100) * D <= (-100) * d
    BY <1>2
  <2>3. QED
    BY <1>7, <2>1, <2>2
<1>9. CASE R # 0
  <2> DEFINE a == w * d - 100 * R
             b == W * D - 100 * R
             x == R * d
             y == R * D
  <2>1. FractionOf(q)[1] = a /\ FractionOf(q)[2] = x /\ FractionOf(r)[1] = b /\ FractionOf(r)[2] = y
    BY <1>4, <1>5, <1>9
  <2>2. a * y <= b * x
    <3> DEFINE k == d * D
    <3>0. k \in Int /\ k >= 0 /\ R * k \in Int
      <4>1. d >= 0 /\ D >= 0
        BY <1>2
      <4>2. QED
        BY <1>1, <1>2, <4>1
    <3>1. a * y = R * (w * k) - 100 * R * (R * D)
      BY <1>1, <1>2
    <3>2. b * x = R * (W * k) - 100 * R * (R * d)
      BY <1>1, <1>2
    <3> HIDE DEF k
    <3>3. w * k <= W * k /\ w * k \in Int /\ W * k \in Int
      BY <1>1, <3>0
    <3>4. R * (w * k) <= R * (W * k) /\ R * (w * k) \in Int /\ R * (W * k) \in Int
      BY <1>1, <3>3
    <3>5. R * d <= R * D /\ R * d \in Int /\ R * D \in Int
      BY <1>1, <1>2
    <3>6. 100 * R * (R * d) <= 100 * R * (R * D) /\ 100 * R * (R * d) \in Int /\ 100 * R * (R * D) \in Int
      BY <1>1, <3>5
    <3> HIDE DEF a, b, x, y
    <3>7. QED
      BY <3>1, <3>2, <3>4, <3>6
  <2> HIDE DEF a, b, x, y
  <2>3. QED
    BY <1>7, <2>1, <2>2
<1>10. QED
  BY <1>8, <1>9

\* Every step of the market improves the opportunity in what the gates know of.
LEMMA StepsAreBetter ==
  ASSUME quote \in Quote, QualificationNext
  PROVE  quote' \in Quote /\ Better(quote, quote')
<1>1. /\ quote.win \in Nat /\ quote.loss \in Nat /\ quote.books \in Nat /\ quote.age \in Int
      /\ quote.dispersion \in Nat \cup {Unknown} /\ quote.warned \in BOOLEAN
  BY DEF Quote
<1>2. /\ Unknown \notin Nat /\ Age \subseteq Nat /\ Spread \subseteq Nat /\ Chance \subseteq Nat
      /\ \A o \in Odds : o \in Int /\ Magnitude(o) >= 100
      /\ LongestOdds \in Int
  BY QualificationAssumption
<1>d. quote.dispersion = Unknown \/ (quote.dispersion # Unknown /\ quote.dispersion <= quote.dispersion)
  BY <1>1
<1>3. CASE AnotherBook
  <2>1. quote' = [quote EXCEPT !.books = quote.books + 1]
    BY <1>3 DEF AnotherBook, Becomes
  <2>2. quote' \in Quote
    BY <1>1, <2>1 DEF Quote
  <2>3. /\ quote'.win = quote.win /\ quote'.loss = quote.loss /\ quote'.odds = quote.odds
        /\ quote'.books = quote.books + 1 /\ quote'.dispersion = quote.dispersion /\ quote'.age = quote.age
        /\ quote'.warned = quote.warned /\ quote'.uncertainty = quote.uncertainty
    BY <2>1 DEF Quote
  <2>4. /\ FractionOf(quote)[1] * FractionOf(quote')[2] <= FractionOf(quote')[1] * FractionOf(quote)[2]
        /\ WinningsOf(quote) <= WinningsOf(quote')
        /\ quote'.odds > LongestOdds => quote.odds > LongestOdds
    BY <2>2, <2>3, SameWorth
  <2>5. quote.books <= quote'.books
    BY <1>1, <2>3
  <2>d. quote.dispersion = Unknown \/ (quote'.dispersion # Unknown /\ quote'.dispersion <= quote.dispersion)
    BY <1>d, <2>3
  <2>a. quote'.age = quote.age \/ (0 <= quote'.age /\ quote'.age <= quote.age)
    BY <2>3
  <2>w. quote'.warned => quote.warned
    BY <2>3
  <2>u. quote'.uncertainty = "high" => quote.uncertainty = "high"
    BY <2>3
  <2>6. QED
    BY <2>2, <2>4, <2>5, <2>a, <2>w, <2>u, <2>d DEF Better
<1>4. CASE BooksAgreeMore
  <2>1. PICK d \in Spread : (IF quote.dispersion = Unknown THEN TRUE ELSE d < quote.dispersion)
                             /\ quote' = [quote EXCEPT !.dispersion = d]
    BY <1>4 DEF BooksAgreeMore, Becomes
  <2>2. d \in Nat /\ quote' \in Quote
    BY <1>2, <2>1 DEF Quote
  <2>3. /\ quote'.win = quote.win /\ quote'.loss = quote.loss /\ quote'.odds = quote.odds
        /\ quote'.books = quote.books /\ quote'.dispersion = d /\ quote'.age = quote.age
        /\ quote'.warned = quote.warned /\ quote'.uncertainty = quote.uncertainty
    BY <2>1 DEF Quote
  <2>4. /\ FractionOf(quote)[1] * FractionOf(quote')[2] <= FractionOf(quote')[1] * FractionOf(quote)[2]
        /\ WinningsOf(quote) <= WinningsOf(quote')
        /\ quote'.odds > LongestOdds => quote.odds > LongestOdds
    BY <2>2, <2>3, SameWorth
  <2>5. /\ quote.dispersion = Unknown \/ (quote'.dispersion # Unknown /\ quote'.dispersion <= quote.dispersion)
        /\ quote.books <= quote'.books
    <3>1. quote.books <= quote'.books
      BY <1>1, <2>3
    <3>2. CASE quote.dispersion = Unknown
      BY <3>1, <3>2
    <3>3. CASE quote.dispersion # Unknown
      <4>1. d < quote.dispersion /\ quote.dispersion \in Nat
        BY <1>1, <2>1, <3>3
      <4>2. d # Unknown /\ d <= quote.dispersion
        BY <1>2, <2>2, <4>1
      <4>3. QED
        BY <2>3, <3>1, <4>2
    <3>4. QED
      BY <3>2, <3>3
  <2>a. quote'.age = quote.age \/ (0 <= quote'.age /\ quote'.age <= quote.age)
    BY <2>3
  <2>w. quote'.warned => quote.warned
    BY <2>3
  <2>u. quote'.uncertainty = "high" => quote.uncertainty = "high"
    BY <2>3
  <2>6. QED
    BY <2>2, <2>4, <2>5, <2>a, <2>w, <2>u DEF Better
<1>5. CASE NewerPrices
  <2>1. PICK a \in Age : a < quote.age /\ quote' = [quote EXCEPT !.age = a]
    BY <1>5 DEF NewerPrices, Becomes
  <2>2. a \in Nat /\ quote' \in Quote
    BY <1>2, <2>1 DEF Quote
  <2>3. /\ quote'.win = quote.win /\ quote'.loss = quote.loss /\ quote'.odds = quote.odds
        /\ quote'.books = quote.books /\ quote'.dispersion = quote.dispersion /\ quote'.age = a
        /\ quote'.warned = quote.warned /\ quote'.uncertainty = quote.uncertainty
    BY <2>1 DEF Quote
  <2>4. /\ FractionOf(quote)[1] * FractionOf(quote')[2] <= FractionOf(quote')[1] * FractionOf(quote)[2]
        /\ WinningsOf(quote) <= WinningsOf(quote')
        /\ quote'.odds > LongestOdds => quote.odds > LongestOdds
    BY <2>2, <2>3, SameWorth
  <2>5. /\ quote.books <= quote'.books /\ 0 <= quote'.age /\ quote'.age <= quote.age
    BY <1>1, <2>1, <2>2, <2>3
  <2>d. quote.dispersion = Unknown \/ (quote'.dispersion # Unknown /\ quote'.dispersion <= quote.dispersion)
    BY <1>d, <2>3
  <2>a. quote'.age = quote.age \/ (0 <= quote'.age /\ quote'.age <= quote.age)
    BY <2>5
  <2>w. quote'.warned => quote.warned
    BY <2>3
  <2>u. quote'.uncertainty = "high" => quote.uncertainty = "high"
    BY <2>3
  <2>6. QED
    BY <2>2, <2>4, <2>5, <2>a, <2>w, <2>u, <2>d DEF Better
<1>6. CASE WarningLifted
  <2>1. quote.warned /\ quote' = [quote EXCEPT !.warned = FALSE]
    BY <1>6 DEF WarningLifted, Becomes
  <2>2. quote' \in Quote
    BY <1>1, <2>1 DEF Quote
  <2>3. /\ quote'.win = quote.win /\ quote'.loss = quote.loss /\ quote'.odds = quote.odds
        /\ quote'.books = quote.books /\ quote'.dispersion = quote.dispersion /\ quote'.age = quote.age
        /\ quote'.uncertainty = quote.uncertainty
    BY <2>1 DEF Quote
  <2>4. /\ FractionOf(quote)[1] * FractionOf(quote')[2] <= FractionOf(quote')[1] * FractionOf(quote)[2]
        /\ WinningsOf(quote) <= WinningsOf(quote')
        /\ quote'.odds > LongestOdds => quote.odds > LongestOdds
    BY <2>2, <2>3, SameWorth
  <2>5. quote.books <= quote'.books
    BY <1>1, <2>3
  <2>d. quote.dispersion = Unknown \/ (quote'.dispersion # Unknown /\ quote'.dispersion <= quote.dispersion)
    BY <1>d, <2>3
  <2>6. quote'.warned = TRUE => quote.warned = TRUE
    BY <2>1
  <2>a. quote'.age = quote.age \/ (0 <= quote'.age /\ quote'.age <= quote.age)
    BY <2>3
  <2>w. quote'.warned => quote.warned
    BY <2>1
  <2>u. quote'.uncertainty = "high" => quote.uncertainty = "high"
    BY <2>3
  <2>7. QED
    BY <2>2, <2>4, <2>5, <2>a, <2>w, <2>u, <2>d DEF Better
<1>7. CASE LessUncertain
  <2>1. quote' = [quote EXCEPT !.uncertainty = "low"]
    BY <1>7 DEF LessUncertain, Becomes
  <2>2. quote' \in Quote
    BY <1>1, <2>1 DEF Quote
  <2>3. /\ quote'.win = quote.win /\ quote'.loss = quote.loss /\ quote'.odds = quote.odds
        /\ quote'.books = quote.books /\ quote'.dispersion = quote.dispersion /\ quote'.age = quote.age
        /\ quote'.warned = quote.warned /\ quote'.uncertainty = "low"
    BY <2>1 DEF Quote
  <2>4. /\ FractionOf(quote)[1] * FractionOf(quote')[2] <= FractionOf(quote')[1] * FractionOf(quote)[2]
        /\ WinningsOf(quote) <= WinningsOf(quote')
        /\ quote'.odds > LongestOdds => quote.odds > LongestOdds
    BY <2>2, <2>3, SameWorth
  <2>5. quote.books <= quote'.books
    BY <1>1, <2>3
  <2>d. quote.dispersion = Unknown \/ (quote'.dispersion # Unknown /\ quote'.dispersion <= quote.dispersion)
    BY <1>d, <2>3
  <2>6. quote.uncertainty = "high"
    BY <1>7 DEF LessUncertain
  <2>a. quote'.age = quote.age \/ (0 <= quote'.age /\ quote'.age <= quote.age)
    BY <2>3
  <2>w. quote'.warned => quote.warned
    BY <2>3
  <2>u. quote'.uncertainty = "high" => quote.uncertainty = "high"
    BY <2>6
  <2>7. QED
    BY <2>2, <2>4, <2>5, <2>a, <2>w, <2>u, <2>d DEF Better
<1>8. CASE LikelierToWin
  <2>1. PICK k \in Chance : k <= quote.loss
                             /\ quote' = [quote EXCEPT !.win = @ + k, !.loss = @ - k]
    BY <1>8 DEF LikelierToWin
  <2>2. k \in Nat /\ quote.win + k \in Nat /\ quote.loss - k \in Nat
    BY <1>1, <1>2, <2>1
  <2>3. quote' \in Quote
    BY <2>1, <2>2 DEF Quote
  <2>4. /\ quote'.win = quote.win + k /\ quote'.loss = quote.loss - k /\ quote'.odds = quote.odds
        /\ quote'.books = quote.books /\ quote'.dispersion = quote.dispersion /\ quote'.age = quote.age
        /\ quote'.warned = quote.warned /\ quote'.uncertainty = quote.uncertainty
    BY <2>1 DEF Quote
  <2>5. quote'.win + quote'.loss = quote.win + quote.loss /\ quote'.win >= quote.win
    BY <1>1, <2>2, <2>4
  <2>6. PriceAt(quote') >= PriceAt(quote)
    <3>1. PriceAt(quote') = PriceAt(quote) /\ PriceAt(quote) \in Int
      BY <2>4, QuoteIs DEF PriceAt
    <3>2. QED
      BY <3>1
  <2>7. /\ FractionOf(quote)[1] * FractionOf(quote')[2] <= FractionOf(quote')[1] * FractionOf(quote)[2]
        /\ WinningsOf(quote) <= WinningsOf(quote')
    BY <2>3, <2>5, <2>6, WorthRises
  <2>8. QED
    BY <1>1, <2>3, <2>4, <2>7 DEF Better
<1>9. CASE BetterPrice
  <2>1. PICK o \in Odds : DecimalOdds(o) > DecimalOdds(quote.odds) /\ o <= LongestOdds
                           /\ quote' = [quote EXCEPT !.odds = o]
    BY <1>9 DEF BetterPrice, Becomes
  <2>2. o \in Int /\ Magnitude(o) >= 100
    BY <1>2
  <2>3. quote' \in Quote
    BY <2>1, <2>2 DEF Quote
  <2>4. /\ quote'.win = quote.win /\ quote'.loss = quote.loss /\ quote'.odds = o
        /\ quote'.books = quote.books /\ quote'.dispersion = quote.dispersion /\ quote'.age = quote.age
        /\ quote'.warned = quote.warned /\ quote'.uncertainty = quote.uncertainty
    BY <2>1 DEF Quote
  <2>5. quote'.win + quote'.loss = quote.win + quote.loss /\ quote'.win >= quote.win
    BY <1>1, <2>4
  <2>6. PriceAt(quote') >= PriceAt(quote)
    <3>1. PriceAt(quote') > PriceAt(quote)
      BY <2>1, <2>4 DEF PriceAt
    <3>2. PriceAt(quote') \in Int /\ PriceAt(quote) \in Int
      BY <2>3, QuoteIs
    <3>3. QED
      BY <3>1, <3>2
  <2>7. /\ FractionOf(quote)[1] * FractionOf(quote')[2] <= FractionOf(quote')[1] * FractionOf(quote)[2]
        /\ WinningsOf(quote) <= WinningsOf(quote')
    BY <2>3, <2>5, <2>6, WorthRises
  <2>8. ~(quote'.odds > LongestOdds)
    BY <1>2, <2>1, <2>2, <2>4
  <2>9. QED
    BY <1>1, <2>3, <2>4, <2>7, <2>8 DEF Better
<1>10. QED
  BY <1>3, <1>4, <1>5, <1>6, <1>7, <1>8, <1>9 DEF QualificationNext

\* An opportunity that improves in what the gates know of never falls in class, nor leaves
\* the watchlist but for the board (evaluate_candidate, build_watchlist): whatever the
\* thresholds of the policy.
THEOREM ImprovingNeverLoses == QualificationSpec => BetterIsNeverWorse
<1>1. QualificationInit => quote \in Quote
  BY QualificationAssumption DEF QualificationInit
<1>2. quote \in Quote /\ [QualificationNext]_quote => (quote \in Quote)'
  <2>1. quote \in Quote /\ QualificationNext => (quote \in Quote)'
    BY StepsAreBetter
  <2>2. QED
    BY <2>1
<1>3. quote \in Quote /\ [QualificationNext]_quote => [Rank(quote') >= Rank(quote)]_quote
  <2>1. ASSUME quote \in Quote, QualificationNext PROVE Rank(quote') >= Rank(quote)
    <3>1. quote' \in Quote /\ Better(quote, quote')
      BY <2>1, StepsAreBetter
    <3>2. QED
      BY <2>1, <3>1, BetterRanks
  <2>2. QED
    BY <2>1
<1>4. QED
  BY <1>1, <1>2, <1>3, PTL DEF QualificationSpec, BetterIsNeverWorse
=============================================================================
