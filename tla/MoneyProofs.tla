---------------------------- MODULE MoneyProofs ----------------------------
(***************************************************************************)
(* Payments, commissions, gifts and deductions, for every number of users, *)
(* payments, tasks and calls at once: a commission is paid out once, a     *)
(* gift is given once, and what failures cost is bounded.                  *)
(***************************************************************************)
EXTENDS Money, SumProofs, SequenceTheorems

-----------------------------------------------------------------------------
(* Types.                                                                   *)

CallType  == [at : CallSteps, about : Payments \cup {NoPayment}, who : Users \cup {NoOne},
              to : Users \cup {NoOne}, sum : Nat]
ClaimType == [by : Users, kind : {"money", "tokens"}, of : SUBSET commissions,
              state : {"pending", "paid", "rejected"}]
RunType   == [at : {"idle", "take", "mark"}, batch : SUBSET Tasks, on : Tasks \cup {NoTask}]

PurseTyped == profile \subseteq Users /\ balance \in [Users -> Nat] /\ earned \in Nat /\ spent \in Nat
TradeTyped ==
    /\ provider \in [Payments -> {"none", "open", "paid", "canceled"}]
    /\ status \in [Payments -> {"none", "pending", "succeeded", "canceled"}]
    /\ credits \in [Payments -> Nat] /\ owed \in [Payments -> Users \cup {NoOne}]
FameTyped ==
    /\ leader \in [Users -> Users \cup {NoOne}] /\ notified \subseteq Users
    /\ commissions \subseteq [of : Payments, to : Users, level : {1, 2}, by : Callers]
    /\ unpaid \subseteq commissions
    /\ claims \in Seq(ClaimType)
PerksTyped ==
    /\ couponLock \in Callers \cup {NoOne} /\ gifts \in [Users -> [Kinds -> Nat]]
    /\ welcomed \subseteq Users /\ merged \subseteq Users
ChoresTyped ==
    /\ task \in [Tasks -> {"none", "pending", "completed", "failed"}]
    /\ taken \in [Tasks -> Nat] /\ runner \in RunType
\* The types, by the tables that have them.
LEMMA TypesApart ==
    TypeOK <=> /\ PurseTyped /\ TradeTyped /\ FameTyped /\ PerksTyped /\ ChoresTyped
               /\ call \in [Callers -> CallType] /\ failures \in 0..MaxFailures
BY DEF TypeOK, PurseTyped, TradeTyped, FameTyped, PerksTyped, ChoresTyped, CallType, ClaimType, RunType
\* And put together again.
LEMMA TypesTogether ==
    ASSUME PurseTyped', TradeTyped', FameTyped', PerksTyped', ChoresTyped',
           call' \in [Callers -> CallType], failures' \in 0..MaxFailures
    PROVE  TypeOK'
BY DEF TypeOK, PurseTyped, TradeTyped, FameTyped, PerksTyped, ChoresTyped, CallType, ClaimType, RunType
\* What is not changed keeps its type.
LEMMA TypesStay ==
    ASSUME TypeOK
    PROVE  /\ UNCHANGED purse => PurseTyped'
           /\ UNCHANGED trade => TradeTyped'
           /\ UNCHANGED fame => FameTyped'
           /\ UNCHANGED perks => PerksTyped'
           /\ UNCHANGED chores => ChoresTyped'
           /\ UNCHANGED call => call' \in [Callers -> CallType]
           /\ UNCHANGED failures => failures' \in 0..MaxFailures
BY TypesApart DEF purse, trade, fame, perks, chores, PurseTyped, TradeTyped, FameTyped, PerksTyped,
                  ChoresTyped, ClaimType

\* The balance never goes below zero.
LEMMA MaxZero == ASSUME NEW n \in Int PROVE Max({0, n}) \in Nat
<1>1. \E x \in {0, n} : \A y \in {0, n} : x >= y
  OBVIOUS
<1>2. Max({0, n}) \in {0, n} /\ \A y \in {0, n} : Max({0, n}) >= y
  BY <1>1 DEF Max
<1> QED
  BY <1>2
\* and what is added to it is all there.
LEMMA MaxOf == ASSUME NEW n \in Int PROVE Max({0, n}) >= n /\ (n \in Nat => Max({0, n}) = n)
<1>1. \E x \in {0, n} : \A y \in {0, n} : x >= y
  OBVIOUS
<1>2. Max({0, n}) \in {0, n} /\ \A y \in {0, n} : Max({0, n}) >= y
  BY <1>1 DEF Max
<1> QED
  BY <1>2
\* What is taken is at most what there is.
LEMMA MinOf == ASSUME NEW m \in Nat, NEW n \in Nat PROVE Min({m, n}) \in Nat /\ Min({m, n}) <= m
<1>1. \E x \in {m, n} : \A y \in {m, n} : x <= y
  OBVIOUS
<1>2. Min({m, n}) \in {m, n} /\ \A y \in {m, n} : Min({m, n}) <= y
  BY <1>1 DEF Min
<1> QED
  BY <1>2
\* Adding to a balance, or taking from it, leaves a balance.
LEMMA AddedType ==
    ASSUME TypeOK, NEW u \in Users, NEW n \in Int
    PROVE  Added(u, n) \in [Users -> Nat]
<1>1. balance \in [Users -> Nat]
  BY DEF TypeOK
<1>2. Max({0, balance[u] + n}) \in Nat
  BY <1>1, MaxZero
<1> QED
  BY <1>1, <1>2 DEF Added
\* What is promised keeps the types,
LEMMA AddTyped ==
    ASSUME TypeOK, NEW u \in Users, NEW n \in Nat, Add(u, n)
    PROVE  PurseTyped'
<1>1. balance' \in [Users -> Nat]
  BY AddedType DEF Add
<1>2. earned + n \in Nat
  BY DEF TypeOK
<1> QED
  BY <1>1, <1>2 DEF Add, PurseTyped, TypeOK
\* and so does what is taken.
LEMMA ConsumeTyped ==
    ASSUME TypeOK, NEW u \in Users, NEW n \in Nat, Consume(u, n)
    PROVE  PurseTyped'
<1>1. balance \in [Users -> Nat] /\ spent \in Nat
  BY DEF TypeOK
<1>2. Takes(u, n) \in Nat /\ Takes(u, n) <= balance[u]
  BY <1>1, MinOf DEF Takes
<1>3. balance[u] - Takes(u, n) \in Nat /\ spent + Takes(u, n) \in Nat
  BY <1>1, <1>2
<1> QED
  BY <1>1, <1>3 DEF Consume, PurseTyped, TypeOK

-----------------------------------------------------------------------------
(* What a call does to its own record.                                      *)

Only(c) == \A d \in Callers \ {c} : call'[d] = call[d]
Moved(c, at) ==
    /\ call'[c].at = at /\ call'[c].about = call[c].about /\ call'[c].who = call[c].who
    /\ call'[c].to = call[c].to
Became(c, k) == call' \in [Callers -> CallType] /\ Only(c) /\ call'[c] = k
\* A call that is idle is about nothing.
LEMMA IdleIs ==
    /\ Idle \in CallType
    /\ Idle.at = "idle" /\ Idle.about = NoPayment /\ Idle.who = NoOne /\ Idle.to = NoOne
BY DEF Idle, CallType, CallSteps
\* A call that goes on keeps what it is about.
LEMMA GoMoves ==
    ASSUME TypeOK, NEW c \in Callers, NEW at \in CallSteps, Go(c, at)
    PROVE  call' \in [Callers -> CallType] /\ Only(c) /\ Moved(c, at)
<1>1. call \in [Callers -> CallType] /\ call[c] \in CallType
  BY DEF TypeOK, CallType
<1>2. [call[c] EXCEPT !.at = at] \in CallType
  BY <1>1 DEF CallType
<1>3. call' = [call EXCEPT ![c] = [call[c] EXCEPT !.at = at]]
  BY DEF Go
<1>4. call'[c] = [call[c] EXCEPT !.at = at]
  BY <1>1, <1>3
<1>5. Moved(c, at)
  BY <1>1, <1>4 DEF Moved, CallType
<1> QED
  BY <1>1, <1>2, <1>3, <1>5 DEF Only
\* A call that is done is idle.
LEMMA DoneMoves ==
    ASSUME TypeOK, NEW c \in Callers, Done(c)
    PROVE  Became(c, Idle)
BY IdleIs DEF TypeOK, CallType, Done, Became, Only
\* A call that takes another record is that record.
LEMMA BecomesMoves ==
    ASSUME TypeOK, NEW c \in Callers, NEW k \in CallType, call' = [call EXCEPT ![c] = k]
    PROVE  Became(c, k)
BY DEF TypeOK, CallType, Became, Only
\* A call that begins is about the payment and its buyer.
LEMMA BeginMoves ==
    ASSUME TypeOK, NEW c \in Callers, NEW p \in Payments, NEW at \in CallSteps, Begin(c, p, at)
    PROVE  /\ call' \in [Callers -> CallType] /\ Only(c) /\ call[c] = Idle
           /\ call'[c].at = at /\ call'[c].about = p /\ call'[c].who = BuyerOf[p]
<1>1. BuyerOf[p] \in Users
  BY OwnersAssumption
<1>2. PICK k : k = [Idle EXCEPT !.at = at, !.about = p, !.who = BuyerOf[p]]
  OBVIOUS
<1>3. k \in CallType /\ k.at = at /\ k.about = p /\ k.who = BuyerOf[p]
  BY <1>1, <1>2, IdleIs DEF CallType
<1>4. call[c] = Idle /\ call' = [call EXCEPT ![c] = k]
  BY <1>2 DEF Begin
<1> QED
  BY <1>3, <1>4, BecomesMoves DEF Became


-----------------------------------------------------------------------------
(* The invariant.                                                           *)

\* The steps of a call about a payment, those that come after it was marked, and
\* those that have found a leader.
Noticing == {"notice", "noticed", "noticeUpper", "noticedUpper"}
Found    == {"upper"} \cup Noticing
Marked   == {"credit", "commission"} \cup Found
Paying   == {"asked", "look", "mark", "cancel"} \cup Marked
\* What a call is about follows from where it is.
WellPlaced(k) ==
    /\ k.at \in Paying => k.about \in Payments /\ k.who = BuyerOf[k.about]
    /\ k.at \notin Paying => k.about = NoPayment
    /\ k.at # "idle" => k.who \in Users
    /\ k.at \in Found => k.to \in Users /\ leader[k.who] = k.to
    /\ k.at \in {"upper", "noticeUpper", "noticedUpper"} => Upper[k.to] \in Users
    /\ k.at \in {"enrol", "toSurvivor", "fromLoser"} => k.to \in Users
Placed == \A c \in Callers : WellPlaced(call[c])
\* A payment is recorded by the call that made it, before it can be paid.
Recorded ==
    /\ \A p \in Payments : provider[p] = "none" => status[p] = "none"
    /\ \A p \in Payments : provider[p] = "paid" => status[p] # "none"
    /\ \A c \in Callers : call[c].at = "asked" =>
          /\ provider[call[c].about] \in {"open", "canceled"} /\ status[call[c].about] = "none"
          /\ \A d \in Callers : call[d].at = "asked" /\ call[d].about = call[c].about => d = c
\* Only what was paid is marked, and what is marked stays so.
MarkedIsPaid ==
    \A c \in Callers :
        /\ call[c].at \in {"look", "mark"} => provider[call[c].about] = "paid"
        /\ call[c].at \in Marked => Settled(call[c].about)

\* A call has not yet inserted what it is about to insert.
Inserts ==
    /\ \A k \in commissions : Settled(k.of)
    /\ \A c \in Callers, k \in commissions :
          k.by = c /\ k.of = call[c].about =>
              /\ call[c].at \notin {"look", "mark", "credit", "commission"}
              /\ call[c].at = "upper" => k.level = 1
\* A commission is in one place: unpaid, or in one claim that was not refused.
OnePlace ==
    /\ IsFiniteSet(commissions)
    /\ \A i \in DOMAIN claims : claims[i].of \subseteq commissions
    /\ \A k \in commissions :
          k \in unpaid <=> ~\E i \in DOMAIN claims : Live(i) /\ k \in claims[i].of
    /\ \A i, j \in DOMAIN claims : Live(i) /\ Live(j) /\ claims[i].of \cap claims[j].of # {} => i = j

\* The lock of the coupon is held by the call that is at it, and under it what
\* was read is true.
CouponLocked ==
    /\ \A c \in Callers : call[c].at \in {"locked", "redeem"} <=> couponLock = c
    /\ \A c \in Callers : call[c].at = "redeem" => gifts[call[c].who]["coupon"] = 0
    /\ \A u \in Users : gifts[u]["coupon"] <= 1
\* The welcome bonus is given by the call that has claimed it.
WelcomeClaimed ==
    /\ \A u \in Users : gifts[u]["welcome"] <= 1 /\ (u \notin welcomed => gifts[u]["welcome"] = 0)
    /\ \A c \in Callers : call[c].at = "welcome" =>
          /\ call[c].who \in welcomed /\ gifts[call[c].who]["welcome"] = 0
          /\ \A d \in Callers : call[d].at = "welcome" /\ call[d].who = call[c].who => d = c
\* The bonus of the referral comes with the row.
EnrolledOnce ==
    \A u \in Users : gifts[u]["referral"] <= 1 /\ (leader[u] = NoOne => gifts[u]["referral"] = 0)

\* The runner works on what waits, each task once.
Runs ==
    /\ \A t \in runner.batch : task[t] = "pending"
    /\ runner.at = "mark" => runner.on \in Tasks \ runner.batch
    /\ \A t \in Tasks : task[t] = "none" => taken[t] = 0
\* Deductions after the first, those that are to come included: a task that was
\* deducted, still waits, and is not about to be marked.
Waits(t) == task[t] = "pending" /\ taken[t] >= 1 /\ ~(runner.at = "mark" /\ runner.on = t)
Repeated(t, n) == n >= 2 /\ (n <= taken[t] \/ (n = taken[t] + 1 /\ Waits(t)))
Again == {x \in Tasks \X Nat : Repeated(x[1], x[2])}
\* What a payment owes was owed to the leader its buyer still has, and a call
\* that pays commissions has credited.
OwedToLeader ==
    /\ \A p \in Payments : owed[p] # NoOne => leader[BuyerOf[p]] = owed[p]
    /\ \A c \in Callers : call[c].at \in {"commission"} \cup Found => credits[call[c].about] >= 1
\* A payment that lacks something no call is going to bring.
Crediting(p) == \E c \in Callers : call[c].about = p /\ call[c].at = "credit"
Bringing(p, l) ==
    \E c \in Callers : call[c].about = p /\
        (call[c].at \in {"credit", "commission"} \/ (call[c].at = "upper" /\ Upper[call[c].to] = l))
Lost ==
    {p \in Payments : Settled(p) /\
        ((credits[p] = 0 /\ ~Crediting(p)) \/ \E l \in Owing(p) : Missing(p, l) /\ ~Bringing(p, l))}
Bounded ==
    /\ IsFiniteSet(Lost) /\ IsFiniteSet(Unwelcomed) /\ IsFiniteSet(Again)
    /\ Cardinality(Lost) + Cardinality(Unwelcomed) + Cardinality(Again) <= failures

IInv ==
    /\ TypeOK /\ Placed /\ Recorded /\ MarkedIsPaid /\ Inserts /\ OnePlace
    /\ CouponLocked /\ WelcomeClaimed /\ EnrolledOnce
    /\ Runs /\ OwedToLeader /\ Bounded


-----------------------------------------------------------------------------
(* What a step leaves alone.                                                *)

\* The steps of a call about a gift.
Gifting == {"locked", "redeem", "enrol", "welcome"}
\* No call comes to, leaves or moves within the steps S.
Same(S) == \A c \in Callers : call[c].at \in S \/ call'[c].at \in S => call'[c] = call[c]

\* The steps about payments, about gifts and about merges are different ones.
LEMMA StepsApart ==
    /\ Paying \cap Gifting = {} /\ "idle" \notin Paying \cup Gifting
    /\ {"toSurvivor", "fromLoser", "identities"} \cap (Paying \cup Gifting) = {}
    /\ Paying \subseteq CallSteps /\ Gifting \subseteq CallSteps
    /\ {"idle", "toSurvivor", "fromLoser", "identities"} \subseteq CallSteps
BY DEF Paying, Marked, Found, Noticing, Gifting, CallSteps
\* A call that stays outside some steps leaves the calls within them.
LEMMA SameBy ==
    ASSUME NEW c \in Callers, NEW S, Only(c), call[c].at \notin S, call'[c].at \notin S
    PROVE  Same(S)
BY DEF Only, Same
\* So does a step of no call.
LEMMA SameStill == ASSUME NEW S, UNCHANGED call PROVE Same(S)
BY DEF Same

\* What is known of the records of payments depends on these alone,
LEMMA RecordedFrame ==
    ASSUME Recorded, MarkedIsPaid, UNCHANGED <<provider, status>>, Same(Paying)
    PROVE  Recorded' /\ MarkedIsPaid'
<1>1. {"asked", "look", "mark"} \subseteq Paying /\ Marked \subseteq Paying
  BY DEF Paying
<1>2. Recorded'
  BY <1>1 DEF Recorded, Same
<1>3. MarkedIsPaid'
  BY <1>1 DEF MarkedIsPaid, Settled, Same
<1> QED
  BY <1>2, <1>3
\* and so does what is known of the commissions,
LEMMA InsertsFrame ==
    ASSUME Inserts, UNCHANGED <<status, commissions>>, Same(Paying)
    PROVE  Inserts'
<1>1. {"look", "mark", "credit", "commission", "upper"} \subseteq Paying
  BY DEF Paying, Marked, Found
<1> QED
  BY <1>1 DEF Inserts, Settled, Same
\* of the claims,
LEMMA OnePlaceFrame ==
    ASSUME OnePlace, UNCHANGED <<commissions, unpaid, claims>>
    PROVE  OnePlace'
BY DEF OnePlace, Live
\* of the gifts,
LEMMA GiftsFrame ==
    ASSUME CouponLocked, WelcomeClaimed, EnrolledOnce,
           UNCHANGED <<couponLock, gifts, welcomed, leader>>, Same(Gifting)
    PROVE  CouponLocked' /\ WelcomeClaimed' /\ EnrolledOnce'
<1>1. {"locked", "redeem", "welcome"} \subseteq Gifting
  BY DEF Gifting
<1>2. CouponLocked'
  BY <1>1 DEF CouponLocked, Same
<1>3. WelcomeClaimed'
  BY <1>1 DEF WelcomeClaimed, Same
<1>4. EnrolledOnce'
  BY DEF EnrolledOnce
<1> QED
  BY <1>2, <1>3, <1>4
\* of what is owed,
LEMMA OwedFrame ==
    ASSUME OwedToLeader, UNCHANGED <<owed, leader, credits>>, Same(Paying)
    PROVE  OwedToLeader'
<1>1. {"commission"} \cup Found \subseteq Paying
  BY DEF Paying, Marked
<1> QED
  BY <1>1 DEF OwedToLeader, Same

\* of the payments that lack something,
LEMMA LostFrame ==
    ASSUME UNCHANGED <<status, credits, owed, commissions>>, Same(Paying)
    PROVE  Lost' = Lost
<1>1. {"credit", "commission", "upper"} \subseteq Paying
  BY DEF Paying, Marked, Found
<1>2. \A p \in Payments : Crediting(p)' <=> Crediting(p)
  BY <1>1 DEF Crediting, Same
<1>3. \A p \in Payments : \A l \in Owing(p) : Bringing(p, l)' <=> Bringing(p, l)
  BY <1>1 DEF Bringing, Same
<1> QED
  BY <1>2, <1>3 DEF Lost, Settled, Owing, Missing
\* of the bonuses not given,
LEMMA UnwelcomedFrame ==
    ASSUME UNCHANGED <<welcomed, gifts>>, Same(Gifting)
    PROVE  Unwelcomed' = Unwelcomed
<1>1. "welcome" \in Gifting
  BY DEF Gifting
<1> QED
  BY <1>1 DEF Unwelcomed, Same
\* and of the tasks.
LEMMA AgainFrame ==
    ASSUME UNCHANGED chores
    PROVE  Again' = Again /\ (Runs => Runs')
BY DEF chores, Again, Repeated, Waits, Runs
\* Where nothing more is lost the bound stays.
LEMMA BoundedStays ==
    ASSUME TypeOK, Bounded, Lost' \subseteq Lost, Unwelcomed' \subseteq Unwelcomed, Again' \subseteq Again,
           failures' = failures
    PROVE  Bounded'
<1>1. IsFiniteSet(Lost') /\ Cardinality(Lost') <= Cardinality(Lost)
  BY FS_Subset DEF Bounded
<1>2. IsFiniteSet(Unwelcomed') /\ Cardinality(Unwelcomed') <= Cardinality(Unwelcomed)
  BY FS_Subset DEF Bounded
<1>3. IsFiniteSet(Again') /\ Cardinality(Again') <= Cardinality(Again)
  BY FS_Subset DEF Bounded
<1>4. /\ Cardinality(Lost) \in Nat /\ Cardinality(Unwelcomed) \in Nat /\ Cardinality(Again) \in Nat
      /\ Cardinality(Lost') \in Nat /\ Cardinality(Unwelcomed') \in Nat /\ Cardinality(Again') \in Nat
  BY <1>1, <1>2, <1>3, FS_CardinalityType DEF Bounded
<1>5. /\ Cardinality(Lost) + Cardinality(Unwelcomed) + Cardinality(Again) <= failures
      /\ failures \in Nat
  BY AmountsAssumption DEF Bounded, TypeOK
<1>6. Cardinality(Lost') + Cardinality(Unwelcomed') + Cardinality(Again') <= failures'
  BY <1>1, <1>2, <1>3, <1>4, <1>5
<1> QED
  BY <1>1, <1>2, <1>3, <1>6 DEF Bounded
\* And a failure pays for one more.
LEMMA BoundedByFailure ==
    ASSUME TypeOK, Bounded, failures' = failures + 1, NEW p, NEW u, NEW a,
           \/ Lost' \subseteq Lost \cup {p} /\ Unwelcomed' \subseteq Unwelcomed /\ Again' \subseteq Again
           \/ Lost' \subseteq Lost /\ Unwelcomed' \subseteq Unwelcomed \cup {u} /\ Again' \subseteq Again
           \/ Lost' \subseteq Lost /\ Unwelcomed' \subseteq Unwelcomed /\ Again' \subseteq Again \cup {a}
    PROVE  Bounded'
<1>1. ASSUME NEW S, NEW T, NEW x, IsFiniteSet(S), T \subseteq S \cup {x}
      PROVE  IsFiniteSet(T) /\ Cardinality(T) \in Nat /\ Cardinality(S) \in Nat
             /\ Cardinality(T) <= Cardinality(S) + 1
  <2>1. IsFiniteSet(S \cup {x}) /\ Cardinality(S \cup {x}) <= Cardinality(S) + 1 /\ Cardinality(S) \in Nat
    BY <1>1, FS_AddElement, FS_CardinalityType
  <2>2. IsFiniteSet(T) /\ Cardinality(T) <= Cardinality(S \cup {x})
    BY <1>1, <2>1, FS_Subset
  <2>3. Cardinality(T) \in Nat /\ Cardinality(S \cup {x}) \in Nat
    BY <2>1, <2>2, FS_CardinalityType
  <2> QED
    BY <2>1, <2>2, <2>3
<1>2. ASSUME NEW S, NEW T, IsFiniteSet(S), T \subseteq S
      PROVE  IsFiniteSet(T) /\ Cardinality(T) \in Nat /\ Cardinality(S) \in Nat
             /\ Cardinality(T) <= Cardinality(S)
  BY <1>2, FS_Subset, FS_CardinalityType
<1>3. IsFiniteSet(Lost) /\ IsFiniteSet(Unwelcomed) /\ IsFiniteSet(Again)
  BY DEF Bounded
<1>4. /\ IsFiniteSet(Lost') /\ IsFiniteSet(Unwelcomed') /\ IsFiniteSet(Again')
      /\ Cardinality(Lost) \in Nat /\ Cardinality(Unwelcomed) \in Nat /\ Cardinality(Again) \in Nat
      /\ Cardinality(Lost') \in Nat /\ Cardinality(Unwelcomed') \in Nat /\ Cardinality(Again') \in Nat
      /\ Cardinality(Lost') + Cardinality(Unwelcomed') + Cardinality(Again')
            <= Cardinality(Lost) + Cardinality(Unwelcomed) + Cardinality(Again) + 1
  <2>1. CASE Lost' \subseteq Lost \cup {p} /\ Unwelcomed' \subseteq Unwelcomed /\ Again' \subseteq Again
    <3>1. /\ IsFiniteSet(Lost') /\ Cardinality(Lost') \in Nat /\ Cardinality(Lost) \in Nat
          /\ Cardinality(Lost') <= Cardinality(Lost) + 1
      BY <1>1, <1>3, <2>1
    <3>2. /\ IsFiniteSet(Unwelcomed') /\ Cardinality(Unwelcomed') \in Nat /\ Cardinality(Unwelcomed) \in Nat
          /\ Cardinality(Unwelcomed') <= Cardinality(Unwelcomed)
      BY <1>2, <1>3, <2>1
    <3>3. /\ IsFiniteSet(Again') /\ Cardinality(Again') \in Nat /\ Cardinality(Again) \in Nat
          /\ Cardinality(Again') <= Cardinality(Again)
      BY <1>2, <1>3, <2>1
    <3> QED
      BY <3>1, <3>2, <3>3
  <2>2. CASE Lost' \subseteq Lost /\ Unwelcomed' \subseteq Unwelcomed \cup {u} /\ Again' \subseteq Again
    <3>1. /\ IsFiniteSet(Lost') /\ Cardinality(Lost') \in Nat /\ Cardinality(Lost) \in Nat
          /\ Cardinality(Lost') <= Cardinality(Lost)
      BY <1>2, <1>3, <2>2
    <3>2. /\ IsFiniteSet(Unwelcomed') /\ Cardinality(Unwelcomed') \in Nat /\ Cardinality(Unwelcomed) \in Nat
          /\ Cardinality(Unwelcomed') <= Cardinality(Unwelcomed) + 1
      BY <1>1, <1>3, <2>2
    <3>3. /\ IsFiniteSet(Again') /\ Cardinality(Again') \in Nat /\ Cardinality(Again) \in Nat
          /\ Cardinality(Again') <= Cardinality(Again)
      BY <1>2, <1>3, <2>2
    <3> QED
      BY <3>1, <3>2, <3>3
  <2>3. CASE Lost' \subseteq Lost /\ Unwelcomed' \subseteq Unwelcomed /\ Again' \subseteq Again \cup {a}
    <3>1. /\ IsFiniteSet(Lost') /\ Cardinality(Lost') \in Nat /\ Cardinality(Lost) \in Nat
          /\ Cardinality(Lost') <= Cardinality(Lost)
      BY <1>2, <1>3, <2>3
    <3>2. /\ IsFiniteSet(Unwelcomed') /\ Cardinality(Unwelcomed') \in Nat /\ Cardinality(Unwelcomed) \in Nat
          /\ Cardinality(Unwelcomed') <= Cardinality(Unwelcomed)
      BY <1>2, <1>3, <2>3
    <3>3. /\ IsFiniteSet(Again') /\ Cardinality(Again') \in Nat /\ Cardinality(Again) \in Nat
          /\ Cardinality(Again') <= Cardinality(Again) + 1
      BY <1>1, <1>3, <2>3
    <3> QED
      BY <3>1, <3>2, <3>3
  <2> QED
    BY <2>1, <2>2, <2>3
<1>5. /\ Cardinality(Lost) + Cardinality(Unwelcomed) + Cardinality(Again) <= failures
      /\ failures \in Nat
  BY AmountsAssumption DEF Bounded, TypeOK
<1>6. Cardinality(Lost') + Cardinality(Unwelcomed') + Cardinality(Again') <= failures'
  BY <1>4, <1>5
<1> QED
  BY <1>4, <1>6 DEF Bounded


-----------------------------------------------------------------------------
(* A call about a payment, up to the mark and after the commissions.        *)

\* A call that moves is all there is to place.
LEMMA PlacedBy ==
    ASSUME Placed, NEW c \in Callers, Only(c), UNCHANGED leader, WellPlaced(call'[c])
    PROVE  Placed'
BY DEF Placed, Only, WellPlaced
\* A call that is idle is well placed.
LEMMA IdleWell == WellPlaced(Idle)
BY IdleIs, StepsApart DEF WellPlaced, Paying, Marked, Found, Noticing
\* A call that is to insert nothing keeps what is known of the commissions.
LEMMA InsertsBy ==
    ASSUME Inserts, NEW c \in Callers, Only(c), UNCHANGED commissions,
           \A p \in Payments : Settled(p) => Settled(p)', TypeOK,
           call'[c].at \notin {"look", "mark", "credit", "commission", "upper"}
    PROVE  Inserts'
<1>1. \A k \in commissions : k.of \in Payments
  BY DEF TypeOK
<1>2. \A k \in commissions' : Settled(k.of)'
  BY <1>1 DEF Inserts
<1>3. ASSUME NEW d \in Callers, NEW k \in commissions, k.by = d, k.of = call'[d].about
      PROVE  /\ call'[d].at \notin {"look", "mark", "credit", "commission"}
             /\ call'[d].at = "upper" => k.level = 1
  <2>1. CASE d = c
    BY <2>1
  <2>2. CASE d # c
    <3>1. call'[d] = call[d]
      BY <2>2 DEF Only
    <3> QED
      BY <1>3, <3>1 DEF Inserts
  <2> QED
    BY <2>1, <2>2
<1> QED
  BY <1>2, <1>3 DEF Inserts
\* A step of a call that neither credits nor pays commissions, and is about no gift.
Busy == {"credit", "commission", "upper"}
\* And it keeps all that is not about the payments themselves.
LEMMA PlainKeeps ==
    ASSUME IInv, NEW c \in Callers, Only(c), WellPlaced(call'[c]),
           call[c].at \notin Busy, call'[c].at \notin Busy,
           call[c].at \notin Gifting, call'[c].at \notin Gifting,
           call'[c].at \in Noticing => call[c].at \in Noticing /\ call'[c].about = call[c].about,
           UNCHANGED <<leader, commissions, unpaid, claims, credits, owed, perks, chores, failures>>,
           \A p \in Payments : Settled(p)' <=> Settled(p)
    PROVE  /\ Placed' /\ OnePlace' /\ CouponLocked' /\ WelcomeClaimed' /\ EnrolledOnce'
           /\ Runs' /\ OwedToLeader' /\ Bounded'
<1> USE DEF IInv
<1>1. Placed' /\ OnePlace'
  BY PlacedBy, OnePlaceFrame
<1>2. CouponLocked' /\ WelcomeClaimed' /\ EnrolledOnce'
  BY SameBy, GiftsFrame DEF perks
<1>3. Runs' /\ Again' = Again /\ Unwelcomed' = Unwelcomed
  BY SameBy, AgainFrame, UnwelcomedFrame DEF perks
<1>4. OwedToLeader'
  <2>1. \A p \in Payments : owed'[p] # NoOne => leader'[BuyerOf[p]] = owed'[p]
    BY DEF OwedToLeader
  <2>2. ASSUME NEW d \in Callers, call'[d].at \in {"commission"} \cup Found
        PROVE  credits'[call'[d].about] >= 1
    <3>1. call[d].at \in {"commission"} \cup Found /\ call'[d].about = call[d].about
      BY <2>2 DEF Only, Busy, Found
    <3> QED
      BY <3>1 DEF OwedToLeader
  <2> QED
    BY <2>1, <2>2 DEF OwedToLeader
<1>5. Lost' \subseteq Lost
  <2>1. \A p \in Payments : Crediting(p) => Crediting(p)'
    BY DEF Crediting, Only, Busy
  <2>2. \A p \in Payments : \A l \in Owing(p) : Bringing(p, l) => Bringing(p, l)'
    BY DEF Bringing, Only, Busy
  <2> QED
    BY <2>1, <2>2 DEF Lost, Owing, Missing
<1>6. Bounded'
  BY <1>3, <1>5, BoundedStays
<1> QED
  BY <1>1, <1>2, <1>3, <1>4, <1>6

\* A payment that is made is recorded by nobody yet.
LEMMA CreateKeeps ==
    ASSUME IInv, NEW c \in Callers, NEW p \in Payments, CreatePayment(c, p)
    PROVE  IInv'
<1> USE DEF IInv
<1>0. "asked" \in CallSteps /\ "asked" \in Paying /\ "asked" \notin Found \cup Busy \cup Gifting \cup Noticing
      /\ "idle" \notin Paying \cup Busy \cup Gifting
  BY DEF CallSteps, Paying, Found, Noticing, Busy, Gifting, Marked
<1>1. /\ call' \in [Callers -> CallType] /\ Only(c) /\ call[c].at = "idle"
      /\ call'[c].at = "asked" /\ call'[c].about = p /\ call'[c].who = BuyerOf[p]
  BY <1>0, BeginMoves, IdleIs DEF CreatePayment
<1>2. /\ provider[p] = "none" /\ provider' = [provider EXCEPT ![p] = "open"]
      /\ UNCHANGED <<purse, status, credits, owed, fame, perks, chores, failures>>
  BY DEF CreatePayment
<1>3. TypeOK'
  <2>1. TradeTyped'
    BY <1>2, TypesApart DEF TradeTyped
  <2> QED
    BY <1>1, <1>2, <2>1, TypesStay, TypesTogether
<1>4. WellPlaced(call'[c])
  BY <1>0, <1>1, OwnersAssumption DEF WellPlaced, Found, Noticing
<1>5. /\ Placed' /\ OnePlace' /\ CouponLocked' /\ WelcomeClaimed' /\ EnrolledOnce'
      /\ Runs' /\ OwedToLeader' /\ Bounded'
  BY <1>0, <1>1, <1>2, <1>4, PlainKeeps DEF fame, Settled
<1>6. Inserts'
  BY <1>1, <1>2, InsertsBy DEF fame, Settled
<1>7. provider'[p] = "open" /\ \A q \in Payments \ {p} : provider'[q] = provider[q]
  BY <1>2 DEF TypeOK
<1>8. Recorded' /\ MarkedIsPaid'
  <2>1. status[p] = "none" /\ \A d \in Callers : call[d].at = "asked" => call[d].about # p
    BY <1>2 DEF Recorded
  <2>2. \A d \in Callers : call[d].at \in Paying => call[d].about \in Payments
    BY DEF Placed, WellPlaced
  <2>3. Recorded'
    <3>1. \A d \in Callers \ {c} : call'[d] = call[d]
      BY <1>1 DEF Only
    <3>2. ASSUME NEW d \in Callers, call'[d].at = "asked"
          PROVE  /\ provider'[call'[d].about] \in {"open", "canceled"} /\ status'[call'[d].about] = "none"
                 /\ \A e \in Callers : call'[e].at = "asked" /\ call'[e].about = call'[d].about => e = d
      <4>1. CASE d = c
        BY <1>1, <1>2, <1>7, <2>1, <3>1, <4>1
      <4>2. CASE d # c
        BY <1>0, <1>1, <1>2, <1>7, <2>1, <2>2, <3>1, <3>2, <4>2 DEF Recorded
      <4> QED
        BY <4>1, <4>2
    <3> QED
      BY <1>2, <1>7, <2>1, <3>2 DEF Recorded
  <2>4. MarkedIsPaid'
    <3>1. {"look", "mark"} \subseteq Paying /\ "asked" \notin {"look", "mark"} \cup Marked
      BY DEF Paying, Marked, Found, Noticing
    <3>2. \A d \in Callers : call[d].at \in {"look", "mark"} => call[d].about # p /\ call[d].about \in Payments
      BY <1>2, <2>2, <3>1 DEF MarkedIsPaid
    <3> QED
      BY <1>1, <1>2, <1>7, <3>1, <3>2 DEF MarkedIsPaid, Only, Settled
  <2> QED
    BY <2>3, <2>4
<1> QED
  BY <1>3, <1>5, <1>6, <1>8

\* The row is written for the one call that has made the payment.
LEMMA RecordKeeps ==
    ASSUME IInv, NEW c \in Callers, RecordPayment(c)
    PROVE  IInv'
<1> USE DEF IInv
<1> DEFINE p == call[c].about
<1>0. "asked" \in Paying /\ "asked" \notin Busy \cup Gifting /\ "idle" \notin Paying \cup Busy \cup Gifting
      /\ {"look", "mark"} \subseteq Paying /\ Marked \subseteq Paying /\ "idle" \notin Noticing
  BY DEF Paying, Found, Noticing, Busy, Gifting, Marked
<1>1. /\ call' \in [Callers -> CallType] /\ Only(c) /\ call[c].at = "asked"
      /\ call'[c] = Idle /\ call'[c].at = "idle"
  BY DoneMoves, IdleIs DEF RecordPayment, Became
<1>2. /\ status' = [status EXCEPT ![p] = "pending"]
      /\ UNCHANGED <<purse, provider, credits, owed, fame, perks, chores, failures>>
  BY DEF RecordPayment
<1>p. p \in Payments /\ provider[p] \in {"open", "canceled"} /\ status[p] = "none"
      /\ \A d \in Callers \ {c} : call[d].at = "asked" => call[d].about # p
  BY <1>0, <1>1 DEF Placed, WellPlaced, Recorded
<1>3. TypeOK'
  <2>1. TradeTyped'
    BY <1>2, TypesApart DEF TradeTyped
  <2> QED
    BY <1>1, <1>2, <2>1, TypesStay, TypesTogether
<1>7. status'[p] = "pending" /\ \A q \in Payments \ {p} : status'[q] = status[q]
  BY <1>2, <1>p DEF TypeOK
<1>s. \A q \in Payments : Settled(q)' <=> Settled(q)
  BY <1>p, <1>7 DEF Settled
<1>5. /\ Placed' /\ OnePlace' /\ CouponLocked' /\ WelcomeClaimed' /\ EnrolledOnce'
      /\ Runs' /\ OwedToLeader' /\ Bounded'
  BY <1>0, <1>1, <1>2, <1>s, IdleWell, PlainKeeps DEF fame
<1>6. Inserts'
  BY <1>1, <1>2, <1>s, InsertsBy DEF fame
<1>8. Recorded'
  <2>1. \A d \in Callers : call'[d].at = "asked" =>
           d # c /\ call'[d] = call[d] /\ call[d].about # p /\ call[d].about \in Payments
    BY <1>0, <1>1, <1>p DEF Only, Placed, WellPlaced
  <2> QED
    BY <1>2, <1>p, <1>7, <2>1 DEF Recorded
<1>9. MarkedIsPaid'
  <2>1. \A d \in Callers : call'[d].at \in {"look", "mark"} \cup Marked => call'[d] = call[d] /\ call[d].about \in Payments
    BY <1>0, <1>1 DEF Only, Placed, WellPlaced
  <2> QED
    BY <1>2, <1>s, <2>1 DEF MarkedIsPaid
<1> QED
  BY <1>3, <1>5, <1>6, <1>8, <1>9
\* The customer pays what is recorded, and no call is still about to record it.
LEMMA PaysKeeps ==
    ASSUME IInv, NEW p \in Payments, CustomerPays(p) \/ ProviderCancels(p)
    PROVE  IInv'
<1> USE DEF IInv
<1>1. /\ provider[p] = "open" /\ provider' \in {[provider EXCEPT ![p] = "paid"], [provider EXCEPT ![p] = "canceled"]}
      /\ provider' = [provider EXCEPT ![p] = "paid"] => status[p] # "none"
      /\ UNCHANGED <<purse, status, credits, owed, fame, perks, chores, call, failures>>
  <2>1. CASE CustomerPays(p)
    BY <2>1 DEF CustomerPays
  <2>2. CASE ProviderCancels(p)
    <3>1. provider' = [provider EXCEPT ![p] = "canceled"] /\ provider'[p] = "canceled"
      BY <2>2 DEF ProviderCancels, TypeOK
    <3>2. provider' # [provider EXCEPT ![p] = "paid"]
      BY <3>1 DEF TypeOK
    <3> QED
      BY <2>2, <3>1, <3>2 DEF ProviderCancels
  <2> QED
    BY <2>1, <2>2
<1>2. /\ provider'[p] \in {"paid", "canceled"} /\ (provider'[p] = "paid" => status[p] # "none")
      /\ \A q \in Payments \ {p} : provider'[q] = provider[q]
  BY <1>1 DEF TypeOK
<1>3. TypeOK'
  <2>1. TradeTyped'
    BY <1>1, TypesApart DEF TradeTyped
  <2> QED
    BY <1>1, <2>1, TypesStay, TypesTogether
<1>4. Placed' /\ Inserts' /\ OnePlace' /\ OwedToLeader'
  <2>1. Placed'
    BY <1>1 DEF Placed, WellPlaced, fame
  <2> QED
    BY <1>1, <2>1, SameStill, InsertsFrame, OnePlaceFrame, OwedFrame DEF fame
<1>5. CouponLocked' /\ WelcomeClaimed' /\ EnrolledOnce'
  BY <1>1, SameStill, GiftsFrame DEF fame, perks
<1>6. Runs' /\ Bounded'
  BY <1>1, SameStill, AgainFrame, UnwelcomedFrame, LostFrame, BoundedStays DEF fame, perks
<1>7. \A c \in Callers : call[c].at \in {"asked", "look", "mark"} => call[c].about \in Payments
  BY DEF Placed, WellPlaced, Paying
<1>8. Recorded'
  <2>1. \A c \in Callers : call[c].at = "asked" => provider'[call[c].about] \in {"open", "canceled"}
    BY <1>2, <1>7 DEF Recorded
  <2> QED
    BY <1>1, <1>2, <2>1 DEF Recorded
<1>9. MarkedIsPaid'
  <2>1. \A c \in Callers : call[c].at \in {"look", "mark"} => call[c].about # p
    BY <1>1 DEF MarkedIsPaid
  <2> QED
    BY <1>1, <1>2, <1>7, <2>1 DEF MarkedIsPaid, Settled
<1> QED
  BY <1>3, <1>4, <1>5, <1>6, <1>8, <1>9
\* A call looks at a payment that was paid and is not settled: no commission of
\* it is there yet.
LEMMA LookKeeps ==
    ASSUME IInv, NEW c \in Callers, NEW p \in Payments, Notification(c, p) \/ Reconcile(c, p)
    PROVE  IInv'
<1> USE DEF IInv
<1>1. PICK at \in {"look", "cancel"} : Begin(c, p, at) /\ (at = "look" => provider[p] = "paid")
  BY DEF Notification, Reconcile, Reconcilable
<1>2. ~Settled(p) /\ UNCHANGED <<purse, trade, fame, perks, chores, failures>>
  BY DEF Notification, Reconcile, Reconcilable, Creditable, Settled
<1>0. /\ at \in CallSteps /\ at \in Paying /\ at \notin Busy \cup Gifting \cup Found \cup Noticing
      /\ at \notin Marked /\ at # "asked" /\ at # "idle" /\ "idle" \notin Paying \cup Busy \cup Gifting
      /\ at \notin {"upper", "noticeUpper", "noticedUpper", "enrol", "toSurvivor", "fromLoser"}
  BY DEF CallSteps, Paying, Found, Noticing, Busy, Gifting, Marked
<1>3. /\ call' \in [Callers -> CallType] /\ Only(c) /\ call[c].at = "idle"
      /\ call'[c].at = at /\ call'[c].about = p /\ call'[c].who = BuyerOf[p]
  BY <1>0, <1>1, BeginMoves, IdleIs
<1>4. TypeOK'
  BY <1>2, <1>3, TypesStay, TypesTogether
<1>5. WellPlaced(call'[c])
  BY <1>0, <1>3, OwnersAssumption DEF WellPlaced
<1>6. /\ Placed' /\ OnePlace' /\ CouponLocked' /\ WelcomeClaimed' /\ EnrolledOnce'
      /\ Runs' /\ OwedToLeader' /\ Bounded'
  BY <1>0, <1>2, <1>3, <1>5, PlainKeeps DEF fame, trade, Settled
<1>7. Inserts'
  <2>1. \A k \in commissions : k.of # p
    BY <1>2 DEF Inserts
  <2>2. \A d \in Callers \ {c} : call'[d] = call[d]
    BY <1>3 DEF Only
  <2> QED
    BY <1>2, <1>3, <2>1, <2>2 DEF Inserts, Settled, trade, fame
<1>8. Recorded'
  <2>1. \A d \in Callers : call'[d].at = "asked" => call'[d] = call[d]
    BY <1>0, <1>3 DEF Only
  <2> QED
    BY <1>2, <2>1 DEF Recorded, trade
<1>9. MarkedIsPaid'
  <2>1. \A d \in Callers \ {c} : call'[d] = call[d]
    BY <1>3 DEF Only
  <2> QED
    BY <1>0, <1>1, <1>2, <1>3, <2>1 DEF MarkedIsPaid, Settled, trade
<1> QED
  BY <1>4, <1>6, <1>7, <1>8, <1>9
\* A payment that was settled in between stays settled.
LEMMA CancelKeeps ==
    ASSUME IInv, NEW c \in Callers, CancelPending(c)
    PROVE  IInv'
<1> USE DEF IInv
<1> DEFINE p == call[c].about
<1>0. "cancel" \in Paying /\ "cancel" \notin Busy \cup Gifting /\ "idle" \notin Paying \cup Busy \cup Gifting
      /\ {"asked", "look", "mark"} \subseteq Paying /\ Marked \subseteq Paying /\ "idle" \notin Noticing
  BY DEF Paying, Found, Noticing, Busy, Gifting, Marked
<1>1. /\ call' \in [Callers -> CallType] /\ Only(c) /\ call[c].at = "cancel"
      /\ call'[c] = Idle /\ call'[c].at = "idle"
  BY DoneMoves, IdleIs DEF CancelPending, Became
<1>2. /\ status' = [status EXCEPT ![p] = IF @ = "pending" THEN "canceled" ELSE @]
      /\ UNCHANGED <<purse, provider, credits, owed, fame, perks, chores, failures>>
  BY DEF CancelPending
<1>p. p \in Payments
  BY <1>0, <1>1 DEF Placed, WellPlaced
<1>3. TypeOK'
  <2>1. TradeTyped'
    BY <1>2, TypesApart DEF TradeTyped
  <2> QED
    BY <1>1, <1>2, <2>1, TypesStay, TypesTogether
<1>7. \A q \in Payments : status'[q] = status[q] \/ (status[q] = "pending" /\ status'[q] = "canceled")
  BY <1>2, <1>p DEF TypeOK
<1>s. \A q \in Payments : Settled(q)' <=> Settled(q)
  BY <1>7 DEF Settled
<1>5. /\ Placed' /\ OnePlace' /\ CouponLocked' /\ WelcomeClaimed' /\ EnrolledOnce'
      /\ Runs' /\ OwedToLeader' /\ Bounded'
  BY <1>0, <1>1, <1>2, <1>s, IdleWell, PlainKeeps DEF fame
<1>6. Inserts'
  BY <1>1, <1>2, <1>s, InsertsBy DEF fame
<1>8. \A d \in Callers : call'[d].at \in {"asked", "look", "mark"} \cup Marked =>
         call'[d] = call[d] /\ call[d].about \in Payments
  BY <1>0, <1>1 DEF Only, Placed, WellPlaced
<1>9. Recorded'
  BY <1>2, <1>7, <1>8 DEF Recorded
<1>10. MarkedIsPaid'
  BY <1>2, <1>s, <1>8 DEF MarkedIsPaid
<1> QED
  BY <1>3, <1>5, <1>6, <1>9, <1>10

\* The offer is counted before the payment is marked.
LEMMA CountKeeps ==
    ASSUME IInv, NEW c \in Callers, CountPrior(c)
    PROVE  IInv'
<1> USE DEF IInv
<1>0. "mark" \in CallSteps /\ {"look", "mark"} \subseteq Paying /\ {"look", "mark"} \cap (Busy \cup Gifting \cup Marked) = {}
      /\ "asked" \in Paying /\ Marked \subseteq Paying /\ {"look", "mark"} \cap (Found \cup Noticing) = {}
  BY DEF CallSteps, Paying, Found, Noticing, Busy, Gifting, Marked
<1>1. call \in [Callers -> CallType] /\ call[c] \in CallType /\ call[c].at = "look"
  BY DEF TypeOK, CallType, CountPrior
<1>2. PICK n \in Nat : n = Credit(call[c].who)
  BY AmountsAssumption DEF Credit
<1>3. PICK k : k = [call[c] EXCEPT !.at = "mark", !.sum = n]
  OBVIOUS
<1>4. k \in CallType /\ k.at = "mark" /\ k.about = call[c].about /\ k.who = call[c].who /\ k.to = call[c].to
  BY <1>0, <1>1, <1>3 DEF CallType
<1>5. call' = [call EXCEPT ![c] = k] /\ UNCHANGED <<purse, trade, fame, perks, chores, failures>>
  BY <1>1, <1>2, <1>3 DEF CountPrior
<1>6. call' \in [Callers -> CallType] /\ Only(c) /\ Moved(c, "mark")
  BY <1>4, <1>5, BecomesMoves DEF Became, Moved
<1>7. TypeOK'
  BY <1>5, <1>6, TypesStay, TypesTogether
<1>8. WellPlaced(call'[c])
  BY <1>0, <1>1, <1>6 DEF WellPlaced, Placed, Moved
<1>9. /\ Placed' /\ OnePlace' /\ CouponLocked' /\ WelcomeClaimed' /\ EnrolledOnce'
      /\ Runs' /\ OwedToLeader' /\ Bounded'
  BY <1>0, <1>1, <1>5, <1>6, <1>8, PlainKeeps DEF fame, trade, Settled, Moved
<1>10. \A d \in Callers \ {c} : call'[d] = call[d]
  BY <1>6 DEF Only
<1>11. Inserts'
  BY <1>1, <1>5, <1>6, <1>10 DEF Inserts, Settled, trade, fame, Moved
<1>12. Recorded'
  BY <1>1, <1>5, <1>6, <1>10 DEF Recorded, trade, Moved
<1>13. MarkedIsPaid'
  BY <1>0, <1>1, <1>5, <1>6, <1>10 DEF MarkedIsPaid, Settled, trade, Moved
<1> QED
  BY <1>7, <1>9, <1>11, <1>12, <1>13

\* The notices come after the commissions, and move none of them.
LEMMA NoticeKeeps ==
    ASSUME IInv, NEW c \in Callers, ReadNotice(c) \/ MarkNotified(c)
    PROVE  IInv'
<1> USE DEF IInv
<1>0. /\ Noticing \subseteq Paying /\ Noticing \subseteq Found /\ Noticing \subseteq Marked /\ Noticing \subseteq CallSteps
      /\ Noticing \cap (Busy \cup Gifting) = {} /\ "idle" \notin Paying \cup Busy \cup Gifting \cup Noticing
      /\ {"look", "mark", "asked"} \cap (Noticing \cup Marked) = {} /\ {"look", "mark", "asked"} \subseteq Paying
      /\ Marked \subseteq Paying
      /\ {"notice", "noticed", "noticeUpper", "noticedUpper"} \subseteq Noticing
  BY DEF CallSteps, Paying, Found, Noticing, Busy, Gifting, Marked
<1>1. /\ call[c].at \in Noticing
      /\ \/ Go(c, "noticed")
         \/ Go(c, "noticedUpper") /\ call[c].at = "noticeUpper"
         \/ Go(c, "noticeUpper") /\ Upper[call[c].to] # NoOne
         \/ Done(c)
      /\ UNCHANGED <<purse, trade, leader, commissions, unpaid, claims, perks, chores, failures>>
      /\ notified' \in {notified, notified \cup {Told(c)}}
  <2>1. CASE ReadNotice(c)
    BY <1>0, <2>1 DEF ReadNotice, AfterNotice, fame
  <2>2. CASE MarkNotified(c)
    BY <1>0, <2>2 DEF MarkNotified, AfterNotice
  <2> QED
    BY <2>1, <2>2
<1>2. /\ call[c].about \in Payments /\ call[c].who = BuyerOf[call[c].about] /\ call[c].who \in Users
      /\ call[c].to \in Users /\ leader[call[c].who] = call[c].to
      /\ call[c].at = "noticeUpper" => Upper[call[c].to] \in Users
      /\ Upper[call[c].to] # NoOne => Upper[call[c].to] \in Users
      /\ Settled(call[c].about)
  BY <1>0, <1>1, OwnersAssumption DEF Placed, WellPlaced, MarkedIsPaid
<1>3. /\ call' \in [Callers -> CallType] /\ Only(c)
      /\ \/ Moved(c, "noticed")
         \/ Moved(c, "noticedUpper") /\ call[c].at = "noticeUpper"
         \/ Moved(c, "noticeUpper") /\ Upper[call[c].to] # NoOne
         \/ call'[c] = Idle
  BY <1>0, <1>1, GoMoves, DoneMoves DEF Became
<1>4. call'[c].at \in Noticing \cup {"idle"} /\ (call'[c].at \in Noticing => call'[c].about = call[c].about)
  BY <1>0, <1>3, IdleIs DEF Moved
<1>5. WellPlaced(call'[c])
  <2>1. CASE call'[c] = Idle
    BY <2>1, IdleWell
  <2>2. CASE call'[c] # Idle
    BY <1>0, <1>2, <1>3, <2>2 DEF WellPlaced, Moved
  <2> QED
    BY <2>1, <2>2
<1>6. TypeOK'
  <2>1. Told(c) \in Users
    <3>1. call[c].at \in {"notice", "noticed"} \/ Upper[call[c].to] \in Users
      BY <1>1 DEF Placed, WellPlaced, Noticing
    <3> QED
      BY <1>2, <3>1 DEF Told
  <2>2. FameTyped'
    BY <1>1, <2>1, TypesApart DEF FameTyped, ClaimType
  <2> QED
    BY <1>1, <1>3, <2>2, TypesStay, TypesTogether
<1>7. /\ Placed' /\ OnePlace' /\ CouponLocked' /\ WelcomeClaimed' /\ EnrolledOnce'
      /\ Runs' /\ OwedToLeader' /\ Bounded'
  BY <1>0, <1>1, <1>3, <1>4, <1>5, PlainKeeps DEF trade, Settled
<1>8. call'[c].at \notin {"look", "mark", "credit", "commission", "upper", "asked"}
  BY <1>0, <1>4 DEF Noticing
<1>9. Inserts'
  BY <1>1, <1>3, <1>6, <1>8, InsertsBy DEF trade, Settled
<1>10. \A d \in Callers \ {c} : call'[d] = call[d]
  BY <1>3 DEF Only
<1>11. Recorded'
  BY <1>1, <1>8, <1>10 DEF Recorded, trade
<1>12. MarkedIsPaid'
  <2>1. call'[c].at \in Marked => Settled(call'[c].about)
    BY <1>0, <1>2, <1>4
  <2> QED
    BY <1>1, <1>8, <1>10, <2>1 DEF MarkedIsPaid, Settled, trade
<1> QED
  BY <1>6, <1>7, <1>9, <1>11, <1>12

-----------------------------------------------------------------------------
(* The mark, the credit and the commissions.                                *)

\* A payment that is marked is about to be credited by this call.
LEMMA MarkKeeps ==
    ASSUME IInv, NEW c \in Callers, MarkSucceeded(c)
    PROVE  IInv'
<1> USE DEF IInv
<1> DEFINE p == call[c].about
<1>0. /\ {"mark", "credit", "asked", "look"} \subseteq Paying /\ "credit" \in CallSteps /\ Marked \subseteq Paying
      /\ {"mark", "credit"} \cap Gifting = {} /\ {"mark", "credit"} \cap Found = {} /\ "credit" \in Marked
      /\ {"asked", "look", "mark"} \cap Marked = {} /\ "commission" \notin Found
  BY DEF CallSteps, Paying, Found, Noticing, Gifting, Marked
<1>1. /\ call' \in [Callers -> CallType] /\ Only(c) /\ Moved(c, "credit") /\ call[c].at = "mark"
  BY <1>0, GoMoves DEF MarkSucceeded
<1>2. /\ status' = [status EXCEPT ![p] = "succeeded"]
      /\ UNCHANGED <<purse, provider, credits, owed, fame, perks, chores, failures>>
  BY DEF MarkSucceeded
<1>3. p \in Payments /\ provider[p] = "paid" /\ status[p] # "none"
      /\ call[c].who = BuyerOf[p] /\ call[c].who \in Users
  BY <1>0, <1>1 DEF Placed, WellPlaced, MarkedIsPaid, Recorded
<1>4. status'[p] = "succeeded" /\ \A q \in Payments \ {p} : status'[q] = status[q]
  BY <1>2, <1>3 DEF TypeOK
<1>5. \A q \in Payments : Settled(q)' <=> Settled(q) \/ q = p
  BY <1>4 DEF Settled
<1>6. TypeOK'
  <2>1. TradeTyped'
    BY <1>2, TypesApart DEF TradeTyped
  <2> QED
    BY <1>1, <1>2, <2>1, TypesStay, TypesTogether
<1>7. Placed'
  <2>1. WellPlaced(call'[c])
    BY <1>0, <1>1, <1>3 DEF WellPlaced, Moved
  <2> QED
    BY <1>1, <1>2, <2>1, PlacedBy DEF fame
<1>8. \A d \in Callers \ {c} : call'[d] = call[d]
  BY <1>1 DEF Only
<1>9. Recorded'
  <2>1. \A d \in Callers : call'[d].at = "asked" =>
           d # c /\ call'[d] = call[d] /\ call[d].about # p /\ call[d].about \in Payments
    BY <1>0, <1>1, <1>3, <1>8 DEF Moved, Placed, WellPlaced, Recorded
  <2>2. \A q \in Payments : provider'[q] = "none" => status'[q] = "none"
    BY <1>2, <1>3, <1>4 DEF Recorded
  <2>3. \A q \in Payments : provider'[q] = "paid" => status'[q] # "none"
    BY <1>2, <1>3, <1>4 DEF Recorded
  <2> QED
    BY <1>2, <1>4, <2>1, <2>2, <2>3 DEF Recorded
<1>10. MarkedIsPaid'
  <2>1. \A d \in Callers : call[d].at \in Marked => call[d].about \in Payments
    BY <1>0 DEF Placed, WellPlaced
  <2> QED
    BY <1>0, <1>1, <1>2, <1>3, <1>5, <1>8, <2>1 DEF MarkedIsPaid, Moved
<1>11. Inserts' /\ OnePlace'
  <2>1. \A k \in commissions : k.of \in Payments
    BY DEF TypeOK
  <2>2. Inserts'
    BY <1>1, <1>2, <1>5, <1>8, <2>1 DEF Inserts, Moved, fame
  <2> QED
    BY <1>2, <2>2, OnePlaceFrame DEF fame
<1>12. Same(Gifting)
  BY <1>0, <1>1, SameBy DEF Moved
<1>13. CouponLocked' /\ WelcomeClaimed' /\ EnrolledOnce' /\ Unwelcomed' = Unwelcomed
  BY <1>2, <1>12, GiftsFrame, UnwelcomedFrame DEF perks, fame
<1>14. Runs' /\ Again' = Again
  BY <1>2, AgainFrame
<1>15. OwedToLeader'
  <2>1. \A d \in Callers : call'[d].at \in {"commission"} \cup Found => call'[d] = call[d]
    BY <1>0, <1>1, <1>8 DEF Moved
  <2> QED
    BY <1>2, <2>1 DEF OwedToLeader, fame
<1>16. Lost' \subseteq Lost
  <2>1. \A q \in Payments : q = p => Crediting(q)' /\ \A l : Bringing(q, l)'
    BY <1>1 DEF Crediting, Bringing, Moved
  <2>2. \A q \in Payments \ {p} : (Crediting(q) => Crediting(q)') /\ \A l : Bringing(q, l) => Bringing(q, l)'
    BY <1>8 DEF Crediting, Bringing
  <2>3. \A q \in Payments : Owing(q)' = Owing(q) /\ \A l : Missing(q, l)' <=> Missing(q, l)
    BY <1>2 DEF Owing, Missing, fame
  <2>4. ASSUME NEW q \in Lost'
        PROVE  q \in Lost
    <3>1. /\ q \in Payments /\ Settled(q)'
          /\ (credits'[q] = 0 /\ ~Crediting(q)') \/ \E l \in Owing(q)' : Missing(q, l)' /\ ~Bringing(q, l)'
      BY <2>4 DEF Lost
    <3>2. q # p
      BY <2>1, <2>3, <3>1
    <3>3. Settled(q) /\ ((credits[q] = 0 /\ ~Crediting(q)) \/ \E l \in Owing(q) : Missing(q, l) /\ ~Bringing(q, l))
      BY <1>2, <1>5, <2>2, <2>3, <3>1, <3>2
    <3> QED
      BY <3>1, <3>3 DEF Lost
  <2> QED
    BY <2>4
<1>17. Bounded'
  BY <1>2, <1>13, <1>14, <1>16, BoundedStays
<1> QED
  BY <1>6, <1>7, <1>9, <1>10, <1>11, <1>13, <1>14, <1>15, <1>17

\* The credit: the leader its buyer has by now is owed, and this call is about to pay.
LEMMA CreditKeeps ==
    ASSUME IInv, NEW c \in Callers, CreditPayment(c)
    PROVE  IInv'
<1> USE DEF IInv
<1> DEFINE p == call[c].about
<1>0. /\ {"commission", "credit", "asked", "look", "mark"} \subseteq Paying /\ "commission" \in CallSteps
      /\ {"commission", "credit"} \cap (Gifting \cup Found) = {} /\ {"commission", "credit"} \subseteq Marked
      /\ {"asked", "look", "mark"} \cap Marked = {} /\ Marked \subseteq Paying
  BY DEF CallSteps, Paying, Found, Noticing, Gifting, Marked
<1>1. /\ call' \in [Callers -> CallType] /\ Only(c) /\ Moved(c, "commission") /\ call[c].at = "credit"
  BY <1>0, GoMoves DEF CreditPayment
<1>2. /\ credits' = [credits EXCEPT ![p] = @ + 1]
      /\ owed' = [owed EXCEPT ![p] = leader[call[c].who]]
      /\ UNCHANGED <<provider, status, fame, perks, chores, failures>>
  BY DEF CreditPayment
<1>3. p \in Payments /\ call[c].who = BuyerOf[p] /\ call[c].who \in Users /\ Settled(p)
  BY <1>0, <1>1 DEF Placed, WellPlaced, MarkedIsPaid
<1>4. /\ credits'[p] = credits[p] + 1 /\ owed'[p] = leader[BuyerOf[p]]
      /\ \A q \in Payments \ {p} : credits'[q] = credits[q] /\ owed'[q] = owed[q]
      /\ \A q \in Payments : credits[q] \in Nat
  BY <1>2, <1>3 DEF TypeOK
<1>5. TypeOK'
  <2>1. call[c].sum \in Nat
    BY DEF TypeOK
  <2>2. PurseTyped'
    BY <1>3, <2>1, AddTyped DEF CreditPayment
  <2>3. leader[call[c].who] \in Users \cup {NoOne} /\ credits[p] + 1 \in Nat
    BY <1>3, <1>4 DEF TypeOK
  <2>4. TradeTyped'
    BY <1>2, <2>3, TypesApart DEF TradeTyped
  <2> QED
    BY <1>1, <1>2, <2>2, <2>4, TypesStay, TypesTogether
<1>6. Placed'
  <2>1. WellPlaced(call'[c])
    BY <1>0, <1>1, <1>3 DEF WellPlaced, Moved
  <2> QED
    BY <1>1, <1>2, <2>1, PlacedBy DEF fame
<1>7. \A d \in Callers \ {c} : call'[d] = call[d]
  BY <1>1 DEF Only
<1>8. Recorded'
  BY <1>1, <1>2, <1>7 DEF Recorded, Moved
<1>9. MarkedIsPaid'
  BY <1>0, <1>1, <1>2, <1>3, <1>7 DEF MarkedIsPaid, Settled, Moved
<1>10. Inserts' /\ OnePlace'
  <2>1. Inserts'
    BY <1>1, <1>2, <1>7 DEF Inserts, Settled, Moved, fame
  <2> QED
    BY <1>2, <2>1, OnePlaceFrame DEF fame
<1>11. Same(Gifting)
  BY <1>0, <1>1, SameBy DEF Moved
<1>12. CouponLocked' /\ WelcomeClaimed' /\ EnrolledOnce' /\ Unwelcomed' = Unwelcomed
  BY <1>2, <1>11, GiftsFrame, UnwelcomedFrame DEF perks, fame
<1>13. Runs' /\ Again' = Again
  BY <1>2, AgainFrame
<1>14. OwedToLeader'
  <2>1. \A q \in Payments : owed'[q] # NoOne => leader'[BuyerOf[q]] = owed'[q]
    BY <1>2, <1>4 DEF OwedToLeader, fame
  <2>2. \A d \in Callers : call[d].at \in {"commission"} \cup Found => call[d].about \in Payments
    BY <1>0 DEF Placed, WellPlaced, Marked
  <2>3. ASSUME NEW d \in Callers, call'[d].at \in {"commission"} \cup Found
        PROVE  credits'[call'[d].about] >= 1
    <3>1. CASE d = c
      BY <1>1, <1>3, <1>4, <3>1 DEF Moved
    <3>2. CASE d # c
      <4>1. call'[d] = call[d] /\ call[d].about \in Payments /\ credits[call[d].about] >= 1
        BY <1>7, <2>2, <2>3, <3>2 DEF OwedToLeader
      <4> QED
        BY <1>4, <4>1
    <3> QED
      BY <3>1, <3>2
  <2> QED
    BY <2>1, <2>3 DEF OwedToLeader
<1>15. Lost' \subseteq Lost
  <2>1. \A q \in Payments : q = p => \A l : Bringing(q, l)'
    BY <1>1 DEF Bringing, Moved
  <2>2. \A q \in Payments \ {p} : (Crediting(q) => Crediting(q)') /\ \A l : Bringing(q, l) => Bringing(q, l)'
    BY <1>1, <1>7 DEF Crediting, Bringing
  <2>3. \A q \in Payments \ {p} : Owing(q)' = Owing(q) /\ \A l : Missing(q, l)' <=> Missing(q, l)
    BY <1>2, <1>4 DEF Owing, Missing, fame
  <2>4. ASSUME NEW q \in Lost'
        PROVE  q \in Lost
    <3>1. /\ q \in Payments /\ Settled(q)'
          /\ (credits'[q] = 0 /\ ~Crediting(q)') \/ \E l \in Owing(q)' : Missing(q, l)' /\ ~Bringing(q, l)'
      BY <2>4 DEF Lost
    <3>2. q # p
      BY <1>3, <1>4, <2>1, <3>1
    <3>3. Settled(q) /\ ((credits[q] = 0 /\ ~Crediting(q)) \/ \E l \in Owing(q) : Missing(q, l) /\ ~Bringing(q, l))
      BY <1>2, <1>4, <2>2, <2>3, <3>1, <3>2 DEF Settled
    <3> QED
      BY <3>1, <3>3 DEF Lost
  <2> QED
    BY <2>4
<1>16. Bounded'
  BY <1>2, <1>12, <1>13, <1>15, BoundedStays
<1> QED
  BY <1>5, <1>6, <1>8, <1>9, <1>10, <1>12, <1>13, <1>14, <1>16

\* A row that is new is in no claim, and so it is unpaid and nowhere else.
LEMMA InsertPlaces ==
    ASSUME TypeOK, OnePlace, NEW k, k \notin commissions, Insert(k), UNCHANGED claims
    PROVE  OnePlace'
<1>1. commissions' = commissions \cup {k} /\ unpaid' = unpaid \cup {k}
  BY DEF Insert
<1>2. \A i \in DOMAIN claims : k \notin claims[i].of /\ claims[i].of \subseteq commissions
  BY DEF OnePlace
<1>3. \A i \in DOMAIN claims : Live(i)' <=> Live(i)
  BY DEF Live
<1>4. ASSUME NEW j \in commissions'
      PROVE  j \in unpaid' <=> ~\E i \in DOMAIN claims : Live(i) /\ j \in claims[i].of
  <2>1. CASE j = k
    BY <1>1, <1>2, <2>1
  <2>2. CASE j # k
    BY <1>1, <1>4, <2>2 DEF OnePlace
  <2> QED
    BY <2>1, <2>2
<1>5. \A i, j \in DOMAIN claims : Live(i) /\ Live(j) /\ claims[i].of \cap claims[j].of # {} => i = j
  BY DEF OnePlace
<1>6. IsFiniteSet(commissions')
  BY <1>1, FS_AddElement DEF OnePlace
<1> QED
  BY <1>1, <1>2, <1>3, <1>4, <1>5, <1>6 DEF OnePlace
\* The row of a leader, by the call that has found him.
LEMMA InsertTyped ==
    ASSUME TypeOK, NEW p \in Payments, NEW l \in Users, NEW level \in {1, 2}, NEW c \in Callers,
           Insert(Commission(p, l, level, c)), UNCHANGED <<leader, notified, claims>>
    PROVE  FameTyped'
<1>1. Commission(p, l, level, c) \in [of : Payments, to : Users, level : {1, 2}, by : Callers]
  BY DEF Commission
<1>2. claims \in Seq(ClaimType')
  <2>1. ClaimType \subseteq ClaimType'
    BY DEF ClaimType, Insert
  <2>2. claims \in Seq(ClaimType)
    BY TypesApart DEF FameTyped
  <2> QED
    BY <2>1, <2>2, SeqMonotonic
<1> QED
  BY <1>1, <1>2, TypesApart DEF FameTyped, Insert

\* A call can cost no other payment than its own.
LEMMA LostBy ==
    ASSUME NEW c \in Callers, Only(c), NEW p, call[c].about = p,
           UNCHANGED <<status, credits, owed>>, commissions \subseteq commissions'
    PROVE  Lost' \subseteq Lost \cup {p}
<1>1. ASSUME NEW q \in Lost', q # p
      PROVE  q \in Lost
  <2>1. /\ q \in Payments /\ Settled(q)'
        /\ (credits'[q] = 0 /\ ~Crediting(q)') \/ \E l \in Owing(q)' : Missing(q, l)' /\ ~Bringing(q, l)'
    BY DEF Lost
  <2>2. (Crediting(q) => Crediting(q)') /\ \A l : Bringing(q, l) => Bringing(q, l)'
    BY <1>1 DEF Crediting, Bringing, Only
  <2>3. Owing(q)' = Owing(q) /\ \A l : Missing(q, l)' => Missing(q, l)
    BY DEF Owing, Missing
  <2>4. Settled(q) /\ ((credits[q] = 0 /\ ~Crediting(q)) \/ \E l \in Owing(q) : Missing(q, l) /\ ~Bringing(q, l))
    BY <2>1, <2>2, <2>3 DEF Settled
  <2> QED
    BY <2>1, <2>4 DEF Lost
<1> QED
  BY <1>1
\* A call that pays commissions: nothing else is touched.
LEMMA PayingKeeps ==
    ASSUME IInv, NEW c \in Callers, call' \in [Callers -> CallType], Only(c),
           call[c].at \in {"commission", "upper"}, call'[c].at \in {"idle", "upper", "notice"},
           call'[c].at # "idle" => call'[c].about = call[c].about,
           UNCHANGED <<purse, trade, leader, notified, claims, perks, chores, failures>>,
           WellPlaced(call'[c])
    PROVE  /\ Placed' /\ Recorded' /\ MarkedIsPaid' /\ Runs' /\ OwedToLeader'
           /\ CouponLocked' /\ WelcomeClaimed' /\ EnrolledOnce'
           /\ Unwelcomed' = Unwelcomed /\ Again' = Again
<1> USE DEF IInv
<1>0. /\ {"commission", "upper"} \subseteq Marked /\ {"idle", "commission", "upper", "notice"} \cap Gifting = {}
      /\ "idle" \notin Marked \cup Found /\ {"upper", "notice"} \subseteq Found
      /\ {"upper"} \subseteq Found
      /\ {"asked", "look", "mark"} \cap (Marked \cup {"idle"}) = {}
  BY DEF Marked, Found, Noticing, Gifting
<1>1. Settled(call[c].about) /\ credits[call[c].about] >= 1
  BY <1>0 DEF MarkedIsPaid, OwedToLeader
<1>2. \A d \in Callers \ {c} : call'[d] = call[d]
  BY DEF Only
<1>3. Placed'
  BY PlacedBy
<1>4. Recorded'
  BY <1>2 DEF Recorded, trade
<1>5. MarkedIsPaid'
  BY <1>0, <1>1, <1>2 DEF MarkedIsPaid, Settled, trade
<1>6. Same(Gifting)
  BY <1>0, SameBy
<1>7. CouponLocked' /\ WelcomeClaimed' /\ EnrolledOnce' /\ Unwelcomed' = Unwelcomed
  BY <1>6, GiftsFrame, UnwelcomedFrame DEF perks
<1>8. Runs' /\ Again' = Again
  BY AgainFrame
<1>9. OwedToLeader'
  <2>1. \A p \in Payments : owed'[p] # NoOne => leader'[BuyerOf[p]] = owed'[p]
    BY DEF OwedToLeader, trade
  <2>2. ASSUME NEW d \in Callers, call'[d].at \in {"commission"} \cup Found
        PROVE  credits'[call'[d].about] >= 1
    <3>1. CASE d = c
      <4>1. call'[c].about = call[c].about
        BY <1>0, <2>2, <3>1
      <4> QED
        BY <1>1, <3>1, <4>1 DEF trade
    <3>2. CASE d # c
      BY <1>2, <2>2, <3>2 DEF OwedToLeader, trade
    <3> QED
      BY <3>1, <3>2
  <2> QED
    BY <2>1, <2>2 DEF OwedToLeader
<1> QED
  BY <1>3, <1>4, <1>5, <1>7, <1>8, <1>9

\* The leader of the buyer gets his row, unless the buyer has none.
LEMMA LeaderKeeps ==
    ASSUME IInv, NEW c \in Callers, PayLeader(c)
    PROVE  IInv'
<1> USE DEF IInv
<1>0. /\ "commission" \in Marked /\ "commission" \in Paying /\ {"upper", "notice"} \subseteq Found \cap Paying
      /\ {"upper", "notice"} \subseteq CallSteps
  BY DEF Marked, Paying, Found, Noticing, CallSteps
<1>1. PICK p \in Payments : p = call[c].about
  BY <1>0 DEF PayLeader, Placed, WellPlaced
<1>2. PICK l : l = leader[call[c].who]
  OBVIOUS
<1>3. /\ call[c].at = "commission" /\ call[c].who = BuyerOf[p] /\ call[c].who \in Users
      /\ Settled(p) /\ credits[p] >= 1 /\ l \in Users \cup {NoOne}
      /\ owed[p] # NoOne => owed[p] = l
      /\ \A k \in commissions : ~(k.by = c /\ k.of = p)
  <2>1. call[c].at = "commission"
    BY DEF PayLeader
  <2>2. call[c].who = BuyerOf[p] /\ call[c].who \in Users
    BY <1>0, <1>1, <2>1 DEF Placed, WellPlaced
  <2>3. Settled(p) /\ credits[p] >= 1 /\ (owed[p] # NoOne => owed[p] = l)
    BY <1>0, <1>1, <1>2, <2>1, <2>2 DEF MarkedIsPaid, OwedToLeader
  <2>4. \A k \in commissions : ~(k.by = c /\ k.of = p)
    BY <1>1, <2>1 DEF Inserts
  <2> QED
    BY <1>2, <2>1, <2>2, <2>3, <2>4 DEF TypeOK
<1>4. UNCHANGED <<purse, trade, leader, notified, claims, perks, chores, failures>>
  BY DEF PayLeader
<1>5. CASE l = NoOne
  <2>1. Done(c) /\ UNCHANGED <<commissions, unpaid>>
    BY <1>2, <1>5 DEF PayLeader
  <2>2. call' \in [Callers -> CallType] /\ Only(c) /\ call'[c] = Idle /\ call'[c].at = "idle"
    BY <2>1, DoneMoves, IdleIs DEF Became
  <2>3. TypeOK'
    BY <1>4, <2>1, <2>2, TypesStay, TypesTogether DEF fame
  <2>4. /\ Placed' /\ Recorded' /\ MarkedIsPaid' /\ Runs' /\ OwedToLeader'
        /\ CouponLocked' /\ WelcomeClaimed' /\ EnrolledOnce'
        /\ Unwelcomed' = Unwelcomed /\ Again' = Again
    BY <1>3, <1>4, <2>2, IdleWell, PayingKeeps
  <2>5. Inserts' /\ OnePlace'
    BY <1>4, <2>1, <2>2, InsertsBy, OnePlaceFrame DEF trade, Settled
  <2>6. Lost' \subseteq Lost
    <3>1. Lost' \subseteq Lost \cup {p}
      BY <1>1, <1>4, <2>1, <2>2, LostBy DEF trade
    <3>2. p \notin Lost'
      BY <1>3, <1>4, <1>5 DEF Lost, Owing, trade
    <3> QED
      BY <3>1, <3>2
  <2>7. Bounded'
    BY <1>4, <2>4, <2>6, BoundedStays
  <2> QED
    BY <2>3, <2>4, <2>5, <2>7
<1>6. CASE l # NoOne
  <2>0. l \in Users /\ Upper[l] \in Users \cup {NoOne}
    BY <1>3, <1>6, OwnersAssumption
  <2>1. PICK at \in {"upper", "notice"} : at = IF Upper[l] = NoOne THEN "notice" ELSE "upper"
    OBVIOUS
  <2>2. PICK k : k = [call[c] EXCEPT !.at = at, !.to = l]
    OBVIOUS
  <2>3. call \in [Callers -> CallType] /\ call[c] \in CallType
    BY DEF TypeOK, CallType
  <2>4. k \in CallType /\ k.at = at /\ k.about = p /\ k.who = call[c].who /\ k.to = l
    BY <1>0, <1>1, <2>0, <2>1, <2>2, <2>3 DEF CallType
  <2>5. Insert(Commission(p, l, 1, c)) /\ call' = [call EXCEPT ![c] = k]
    BY <1>1, <1>2, <1>6, <2>1, <2>2, <2>3 DEF PayLeader
  <2>6. call' \in [Callers -> CallType] /\ Only(c) /\ call'[c] = k
    BY <2>4, <2>5, BecomesMoves DEF Became
  <2>7. PICK new : new = Commission(p, l, 1, c)
    OBVIOUS
  <2>8. new.of = p /\ new.to = l /\ new.level = 1 /\ new.by = c /\ new \notin commissions
    BY <1>3, <2>7 DEF Commission
  <2>9. commissions' = commissions \cup {new} /\ unpaid' = unpaid \cup {new} /\ Insert(new)
    BY <2>5, <2>7 DEF Insert
  <2>10. TypeOK'
    <3>1. FameTyped'
      BY <1>4, <2>0, <2>5, InsertTyped
    <3> QED
      BY <1>4, <2>6, <3>1, TypesStay, TypesTogether
  <2>11. WellPlaced(call'[c])
    BY <1>0, <1>2, <1>3, <2>0, <2>1, <2>4, <2>6 DEF WellPlaced
  <2>12. /\ Placed' /\ Recorded' /\ MarkedIsPaid' /\ Runs' /\ OwedToLeader'
         /\ CouponLocked' /\ WelcomeClaimed' /\ EnrolledOnce'
         /\ Unwelcomed' = Unwelcomed /\ Again' = Again
    BY <1>1, <1>3, <1>4, <2>4, <2>6, <2>11, PayingKeeps
  <2>13. Inserts'
    <3>1. \A j \in commissions' : Settled(j.of)'
      BY <1>3, <1>4, <2>8, <2>9 DEF Inserts, Settled, trade
    <3>2. ASSUME NEW d \in Callers, NEW j \in commissions', j.by = d, j.of = call'[d].about
          PROVE  /\ call'[d].at \notin {"look", "mark", "credit", "commission"}
                 /\ call'[d].at = "upper" => j.level = 1
      <4>1. CASE d = c
        BY <1>3, <2>4, <2>6, <2>8, <2>9, <3>2, <4>1
      <4>2. CASE d # c
        BY <2>6, <2>8, <2>9, <3>2, <4>2 DEF Only, Inserts
      <4> QED
        BY <4>1, <4>2
    <3> QED
      BY <3>1, <3>2 DEF Inserts
  <2>14. OnePlace'
    BY <1>4, <2>8, <2>9, InsertPlaces
  <2>15. Lost' \subseteq Lost
    <3>1. Lost' \subseteq Lost \cup {p}
      BY <1>1, <1>4, <2>6, <2>9, LostBy DEF trade
    <3>2. credits'[p] # 0
      BY <1>3, <1>4 DEF trade, TypeOK
    <3>3. ASSUME NEW m \in Owing(p)', Missing(p, m)'
          PROVE  Bringing(p, m)'
      <4>1. owed[p] # NoOne /\ owed[p] = l /\ m \in {l, Upper[l]} /\ m # NoOne
        BY <1>3, <1>4, <3>3 DEF Owing, trade
      <4>2. m # l
        BY <2>8, <2>9, <3>3 DEF Missing
      <4> QED
        BY <2>1, <2>4, <2>6, <4>1, <4>2 DEF Bringing
    <3>4. p \notin Lost'
      BY <3>2, <3>3 DEF Lost
    <3> QED
      BY <3>1, <3>4
  <2>16. Bounded'
    BY <1>4, <2>12, <2>15, BoundedStays
  <2> QED
    BY <2>10, <2>12, <2>13, <2>14, <2>16
<1> QED
  BY <1>5, <1>6
\* And then the leader of the leader.
LEMMA UpperKeeps ==
    ASSUME IInv, NEW c \in Callers, PayUpper(c)
    PROVE  IInv'
<1> USE DEF IInv
<1>0. /\ "upper" \in Marked \cap Paying \cap Found /\ "notice" \in Found \cap Paying /\ "notice" \in CallSteps
  BY DEF Marked, Paying, Found, Noticing, CallSteps
<1>1. PICK p \in Payments : p = call[c].about
  BY <1>0 DEF PayUpper, Placed, WellPlaced
<1>2. PICK l : l = Upper[call[c].to]
  OBVIOUS
<1>3. /\ call[c].at = "upper" /\ call[c].who = BuyerOf[p] /\ call[c].who \in Users /\ call[c].to \in Users
      /\ leader[call[c].who] = call[c].to
      /\ Settled(p) /\ credits[p] >= 1 /\ l \in Users
      /\ \A k \in commissions : k.by = c /\ k.of = p => k.level = 1
  <2>1. call[c].at = "upper"
    BY DEF PayUpper
  <2>2. /\ call[c].who = BuyerOf[p] /\ call[c].who \in Users /\ call[c].to \in Users /\ l \in Users
        /\ leader[call[c].who] = call[c].to
    BY <1>0, <1>1, <1>2, <2>1 DEF Placed, WellPlaced
  <2>3. Settled(p) /\ credits[p] >= 1
    BY <1>0, <1>1, <2>1 DEF MarkedIsPaid, OwedToLeader
  <2>4. \A k \in commissions : k.by = c /\ k.of = p => k.level = 1
    BY <1>1, <2>1 DEF Inserts
  <2> QED
    BY <2>1, <2>2, <2>3, <2>4
<1>4. UNCHANGED <<purse, trade, leader, notified, claims, perks, chores, failures>>
  BY DEF PayUpper
<1>5. call' \in [Callers -> CallType] /\ Only(c) /\ Moved(c, "notice")
  BY <1>0, GoMoves DEF PayUpper
<1>6. PICK new : new = Commission(p, l, 2, c)
  OBVIOUS
<1>7. new.of = p /\ new.to = l /\ new.level = 2 /\ new.by = c /\ new \notin commissions
  BY <1>3, <1>6 DEF Commission
<1>8. Insert(Commission(p, l, 2, c)) /\ Insert(new)
  BY <1>1, <1>2, <1>6 DEF PayUpper
<1>9. commissions' = commissions \cup {new} /\ unpaid' = unpaid \cup {new}
  BY <1>8 DEF Insert
<1>10. TypeOK'
  <2>1. FameTyped'
    BY <1>3, <1>4, <1>8, InsertTyped
  <2> QED
    BY <1>4, <1>5, <2>1, TypesStay, TypesTogether
<1>11. WellPlaced(call'[c])
  BY <1>0, <1>1, <1>3, <1>5 DEF WellPlaced, Moved
<1>12. /\ Placed' /\ Recorded' /\ MarkedIsPaid' /\ Runs' /\ OwedToLeader'
       /\ CouponLocked' /\ WelcomeClaimed' /\ EnrolledOnce'
       /\ Unwelcomed' = Unwelcomed /\ Again' = Again
  BY <1>3, <1>4, <1>5, <1>11, PayingKeeps DEF Moved
<1>13. Inserts'
  <2>1. \A j \in commissions' : Settled(j.of)'
    BY <1>3, <1>4, <1>7, <1>9 DEF Inserts, Settled, trade
  <2>2. ASSUME NEW d \in Callers, NEW j \in commissions', j.by = d, j.of = call'[d].about
        PROVE  /\ call'[d].at \notin {"look", "mark", "credit", "commission"}
               /\ call'[d].at = "upper" => j.level = 1
    <3>1. CASE d = c
      BY <1>5, <3>1 DEF Moved
    <3>2. CASE d # c
      BY <1>5, <1>7, <1>9, <2>2, <3>2 DEF Only, Inserts
    <3> QED
      BY <3>1, <3>2
  <2> QED
    BY <2>1, <2>2 DEF Inserts
<1>14. OnePlace'
  BY <1>4, <1>7, <1>8, InsertPlaces
<1>15. Lost' \subseteq Lost
  <2>1. Lost' \subseteq Lost \cup {p}
    BY <1>1, <1>4, <1>5, <1>9, LostBy DEF trade
  <2>2. ASSUME p \in Lost'
        PROVE  p \in Lost
    <3>1. credits'[p] # 0 /\ credits[p] # 0
      BY <1>3, <1>4 DEF trade, TypeOK
    <3>2. PICK m \in Owing(p)' : Missing(p, m)' /\ ~Bringing(p, m)'
      BY <2>2, <3>1 DEF Lost
    <3>3. m \in Owing(p) /\ Missing(p, m) /\ m # l
      BY <1>4, <1>7, <1>9, <3>2 DEF Owing, Missing, trade
    <3>4. ~Bringing(p, m)
      <4>1. SUFFICES ASSUME NEW d \in Callers, call[d].about = p,
                            call[d].at \in {"credit", "commission"} \/ (call[d].at = "upper" /\ Upper[call[d].to] = m)
                     PROVE  FALSE
        BY DEF Bringing
      <4>2. d # c
        BY <1>2, <1>3, <3>3, <4>1
      <4> QED
        BY <1>5, <3>2, <4>1, <4>2 DEF Bringing, Only
    <3> QED
      BY <1>3, <3>3, <3>4 DEF Lost
  <2> QED
    BY <2>1, <2>2
<1>16. Bounded'
  BY <1>4, <1>12, <1>15, BoundedStays
<1> QED
  BY <1>10, <1>12, <1>13, <1>14, <1>16


-----------------------------------------------------------------------------
(* The claims.                                                              *)

\* Commissions that are reserved leave the unpaid ones for one new claim.
LEMMA ReserveMoves ==
    ASSUME TypeOK, OnePlace, NEW l \in Users, NEW kind \in {"money", "tokens"}, NEW state \in {"pending", "paid"},
           Reserve(Claim(l, kind, state)), UNCHANGED <<leader, commissions>>
    PROVE  FameTyped' /\ OnePlace'
<1>1. PICK claim : claim = Claim(l, kind, state)
  OBVIOUS
<1>2. claim.by = l /\ claim.of = Due(l) /\ claim.state = state
  BY <1>1 DEF Claim
<1>3. Due(l) \subseteq unpaid /\ unpaid \subseteq commissions
  BY DEF Due, TypeOK
<1>4. claim \in ClaimType
  BY <1>1, <1>3 DEF Claim, ClaimType
<1>5. claims \in Seq(ClaimType)
  BY TypesApart DEF FameTyped
<1>6. claims' = Append(claims, claim) /\ unpaid' = unpaid \ Due(l) /\ notified' = notified \ {l}
  BY <1>1, <1>2 DEF Reserve
<1>7. PICK n \in Nat : n = Len(claims)
  BY <1>5, LenProperties
<1>8. /\ claims' \in Seq(ClaimType) /\ DOMAIN claims = 1..n /\ DOMAIN claims' = 1..(n + 1)
      /\ \A i \in 1..n : claims'[i] = claims[i]
      /\ claims'[n + 1] = claim
  <2>1. claims' \in Seq(ClaimType) /\ Len(claims') = n + 1
        /\ (\A i \in 1..n : claims'[i] = claims[i]) /\ claims'[n + 1] = claim
    BY <1>4, <1>5, <1>6, <1>7, AppendProperties
  <2> QED
    BY <1>5, <1>7, <2>1, LenProperties
<1>9. FameTyped'
  BY <1>3, <1>6, <1>8, TypesApart DEF FameTyped, ClaimType
<1>10. (\A i \in 1..n : Live(i)' <=> Live(i)) /\ Live(n + 1)'
  BY <1>2, <1>8 DEF Live
<1>11. \A i \in 1..n : Live(i) => claims[i].of \cap Due(l) = {}
  BY <1>3, <1>8 DEF OnePlace
<1>12. \A i \in DOMAIN claims' : claims'[i].of \subseteq commissions'
  BY <1>2, <1>3, <1>8 DEF OnePlace
<1>13. ASSUME NEW k \in commissions
       PROVE  k \in unpaid' <=> ~\E i \in DOMAIN claims' : Live(i)' /\ k \in claims'[i].of
  <2>1. k \in unpaid <=> ~\E i \in 1..n : Live(i) /\ k \in claims[i].of
    BY <1>8 DEF OnePlace
  <2>2. CASE k \in Due(l)
    BY <1>2, <1>6, <1>8, <1>10, <2>2
  <2>3. CASE k \notin Due(l)
    BY <1>2, <1>6, <1>8, <1>10, <2>1, <2>3
  <2> QED
    BY <2>2, <2>3
<1>14. ASSUME NEW i \in DOMAIN claims', NEW j \in DOMAIN claims', Live(i)', Live(j)',
              claims'[i].of \cap claims'[j].of # {}
       PROVE  i = j
  <2>1. CASE i \in 1..n /\ j \in 1..n
    BY <1>8, <1>10, <1>14, <2>1 DEF OnePlace
  <2>2. CASE i = n + 1 \/ j = n + 1
    BY <1>2, <1>8, <1>10, <1>11, <1>14, <2>2
  <2> QED
    BY <1>8, <2>1, <2>2
<1>15. OnePlace'
  BY <1>12, <1>13, <1>14 DEF OnePlace
<1> QED
  BY <1>9, <1>15

\* A claim that is refused gives back what is in no other; one that is confirmed
\* keeps it.
LEMMA ProcessMoves ==
    ASSUME TypeOK, OnePlace, NEW i \in DOMAIN claims, NEW decision \in {"paid", "rejected"},
           ProcessWithdrawal(i, decision)
    PROVE  FameTyped' /\ OnePlace'
<1>1. claims \in Seq(ClaimType) /\ claims[i] \in ClaimType
  <2>1. claims \in Seq(ClaimType)
    BY TypesApart DEF FameTyped
  <2> QED
    BY <2>1, ElementOfSeq, LenProperties
<1>2. PICK claim : claim = [claims[i] EXCEPT !.state = decision]
  OBVIOUS
<1>3. claim \in ClaimType /\ claim.of = claims[i].of /\ claim.state = decision
  BY <1>1, <1>2 DEF ClaimType
<1>4. /\ claims' = [claims EXCEPT ![i] = claim] /\ claims[i].state = "pending"
      /\ unpaid' = IF decision = "rejected" THEN unpaid \cup claims[i].of ELSE unpaid
      /\ UNCHANGED <<leader, commissions, notified>>
  BY <1>2 DEF ProcessWithdrawal, Open
<1>5. /\ claims' \in Seq(ClaimType) /\ DOMAIN claims' = DOMAIN claims /\ claims'[i] = claim
      /\ \A j \in DOMAIN claims \ {i} : claims'[j] = claims[j]
  <2>1. claims' \in Seq(ClaimType)
    BY <1>1, <1>3, <1>4, ExceptSeq, LenProperties
  <2> QED
    BY <1>1, <1>4, <2>1
<1>6. claims[i].of \subseteq commissions
  BY DEF OnePlace
<1>7. FameTyped'
  BY <1>4, <1>5, <1>6, TypesApart DEF FameTyped, ClaimType
<1>8. Live(i) /\ (Live(i)' <=> decision = "paid") /\ \A j \in DOMAIN claims \ {i} : Live(j)' <=> Live(j)
  BY <1>3, <1>4, <1>5 DEF Live
<1>9. \A j \in DOMAIN claims : claims'[j].of = claims[j].of /\ (Live(j)' => Live(j))
  BY <1>3, <1>5, <1>8
<1>10. ASSUME NEW k \in commissions
       PROVE  k \in unpaid' <=> ~\E j \in DOMAIN claims : Live(j)' /\ k \in claims'[j].of
  <2>1. k \in unpaid <=> ~\E j \in DOMAIN claims : Live(j) /\ k \in claims[j].of
    BY DEF OnePlace
  <2>2. CASE decision = "paid"
    BY <1>4, <1>8, <1>9, <2>1, <2>2
  <2>3. CASE decision = "rejected" /\ k \notin claims[i].of
    BY <1>4, <1>8, <1>9, <2>1, <2>3
  <2>4. CASE decision = "rejected" /\ k \in claims[i].of
    <3>1. \A j \in DOMAIN claims : Live(j) /\ k \in claims[j].of => j = i
      BY <1>8, <2>4 DEF OnePlace
    <3> QED
      BY <1>4, <1>8, <1>9, <2>4, <3>1
  <2> QED
    BY <2>2, <2>3, <2>4
<1>11. OnePlace'
  BY <1>4, <1>5, <1>9, <1>10 DEF OnePlace
<1> QED
  BY <1>7, <1>11

\* The payments, the gifts, the tasks and the calls do not see the claims.
LEMMA ClaimsKeep ==
    ASSUME IInv, PurseTyped', FameTyped', OnePlace',
           UNCHANGED <<trade, leader, commissions, perks, chores, call, failures>>
    PROVE  IInv'
<1> USE DEF IInv
<1>1. TypeOK'
  BY TypesStay, TypesTogether
<1>2. Placed'
  BY DEF Placed, WellPlaced
<1>3. Recorded' /\ MarkedIsPaid' /\ Inserts' /\ OwedToLeader' /\ Lost' = Lost
  BY SameStill, RecordedFrame, InsertsFrame, OwedFrame, LostFrame DEF trade
<1>4. CouponLocked' /\ WelcomeClaimed' /\ EnrolledOnce' /\ Unwelcomed' = Unwelcomed
  BY SameStill, GiftsFrame, UnwelcomedFrame DEF perks
<1>5. Runs' /\ Again' = Again
  BY AgainFrame
<1>6. Bounded'
  BY <1>3, <1>4, <1>5, BoundedStays
<1> QED
  BY <1>1, <1>2, <1>3, <1>4, <1>5, <1>6
\* What is asked for in money waits for an administrator.
LEMMA RequestKeeps ==
    ASSUME IInv, NEW l \in Users, RequestWithdrawal(l)
    PROVE  IInv'
<1>1. FameTyped' /\ OnePlace'
  BY ReserveMoves DEF IInv, RequestWithdrawal
<1>2. PurseTyped'
  BY TypesStay DEF IInv, RequestWithdrawal
<1> QED
  BY <1>1, <1>2, ClaimsKeep DEF RequestWithdrawal
\* What is asked for in tokens is paid in the same transaction.
LEMMA PayoutKeeps ==
    ASSUME IInv, NEW l \in Users, PayoutTokens(l)
    PROVE  IInv'
<1>1. FameTyped' /\ OnePlace'
  BY ReserveMoves DEF IInv, PayoutTokens
<1>2. Worth(Due(l)) \in Nat
  <2>1. IsFiniteSet(commissions) /\ Due(l) \subseteq commissions
    BY DEF IInv, OnePlace, Due, TypeOK
  <2> QED
    BY <2>1, FS_Subset, FS_CardinalityType DEF Worth
<1>3. PurseTyped'
  BY <1>2, AddTyped DEF IInv, PayoutTokens
<1> QED
  BY <1>1, <1>3, ClaimsKeep DEF PayoutTokens
\* The decision of the administrator.
LEMMA ProcessKeeps ==
    ASSUME IInv, NEW i \in DOMAIN claims, NEW decision \in {"paid", "rejected"}, ProcessWithdrawal(i, decision)
    PROVE  IInv'
<1>1. FameTyped' /\ OnePlace'
  BY ProcessMoves DEF IInv
<1>2. PurseTyped'
  BY TypesStay DEF IInv, ProcessWithdrawal
<1> QED
  BY <1>1, <1>2, ClaimsKeep DEF ProcessWithdrawal


-----------------------------------------------------------------------------
(* The gifts and the merge.                                                 *)

Given(u, kind) == gifts' = [gifts EXCEPT ![u][kind] = @ + 1]
\* A gift that is given, and what it leaves.
LEMMA GiftAdded ==
    ASSUME TypeOK, NEW u \in Users, NEW kind \in Kinds, Given(u, kind)
    PROVE  /\ gifts' \in [Users -> [Kinds -> Nat]] /\ gifts'[u][kind] = gifts[u][kind] + 1
           /\ \A v \in Users, k \in Kinds : v # u \/ k # kind => gifts'[v][k] = gifts[v][k]
<1>1. gifts \in [Users -> [Kinds -> Nat]]
  BY DEF TypeOK
<1>2. PICK row : row = [gifts[u] EXCEPT ![kind] = @ + 1]
  OBVIOUS
<1>3. row \in [Kinds -> Nat] /\ row[kind] = gifts[u][kind] + 1 /\ \A k \in Kinds : k # kind => row[k] = gifts[u][k]
  BY <1>1, <1>2
<1>4. gifts' = [gifts EXCEPT ![u] = row]
  BY <1>2 DEF Given
<1>5. gifts'[u] = row /\ \A v \in Users : v # u => gifts'[v] = gifts[v]
  BY <1>1, <1>4
<1> QED
  BY <1>1, <1>3, <1>4, <1>5
\* What a step leaves of one kind of gift.
Kept(kind) == \A u \in Users : gifts'[u][kind] = gifts[u][kind]
\* Where no gift is given, all are kept.
LEMMA KeptStill == ASSUME NEW kind, UNCHANGED gifts PROVE Kept(kind)
BY DEF Kept
\* What is known of the coupon depends on these alone,
LEMMA CouponFrame ==
    ASSUME Placed, CouponLocked, UNCHANGED couponLock, Kept("coupon"), Same({"locked", "redeem"})
    PROVE  CouponLocked'
BY DEF Placed, WellPlaced, CouponLocked, Kept, Same
\* and so does what is known of the welcome bonus,
LEMMA WelcomeFrame ==
    ASSUME TypeOK, Placed, WelcomeClaimed, UNCHANGED welcomed, Kept("welcome"), Same({"welcome"})
    PROVE  WelcomeClaimed' /\ Unwelcomed' = Unwelcomed
<1>1. WelcomeClaimed'
  BY DEF Placed, WellPlaced, WelcomeClaimed, Kept, Same
<1>2. Unwelcomed' = Unwelcomed
  BY DEF TypeOK, Unwelcomed, Kept, Same
<1> QED
  BY <1>1, <1>2
\* and of the bonus of the referral.
LEMMA EnrolFrame ==
    ASSUME EnrolledOnce, UNCHANGED leader, Kept("referral")
    PROVE  EnrolledOnce'
BY DEF EnrolledOnce, Kept

\* A call about no payment: a leader is set only where there was none, and what
\* payments owe stays what it was.
LEMMA GiftKeeps ==
    ASSUME IInv, NEW c \in Callers, call' \in [Callers -> CallType], Only(c), WellPlaced(call'[c]),
           call[c].at \notin Paying, call'[c].at \notin Paying,
           PurseTyped', PerksTyped', leader' \in [Users -> Users \cup {NoOne}],
           \A u \in Users : leader[u] # NoOne => leader'[u] = leader[u],
           CouponLocked', WelcomeClaimed', EnrolledOnce', Unwelcomed' \subseteq Unwelcomed,
           UNCHANGED <<trade, commissions, unpaid, notified, claims, chores, failures>>
    PROVE  IInv'
<1> USE DEF IInv
<1>1. Same(Paying)
  BY SameBy
<1>2. TypeOK'
  <2>1. FameTyped'
    BY TypesApart DEF FameTyped, ClaimType
  <2> QED
    BY <2>1, TypesStay, TypesTogether
<1>3. Found \subseteq Paying
  BY DEF Paying, Marked
<1>4. Placed'
  <2>1. ASSUME NEW d \in Callers
        PROVE  WellPlaced(call[d])'
    <3>1. CASE d = c
      BY <1>3, <3>1 DEF WellPlaced
    <3>2. CASE d # c
      <4>1. call'[d] = call[d] /\ WellPlaced(call[d])
        BY <3>2 DEF Only, Placed
      <4>2. call[d].at \in Found => leader'[call[d].who] = leader[call[d].who]
        BY <4>1, NobodyAssumption, StepsApart, <1>3 DEF WellPlaced
      <4> QED
        BY <4>1, <4>2 DEF WellPlaced
    <3> QED
      BY <3>1, <3>2
  <2> QED
    BY <2>1 DEF Placed
<1>5. Recorded' /\ MarkedIsPaid' /\ Inserts' /\ OnePlace' /\ Lost' = Lost
  BY <1>1, RecordedFrame, InsertsFrame, OnePlaceFrame, LostFrame DEF trade
<1>6. OwedToLeader'
  <2>1. \A p \in Payments : owed'[p] # NoOne => leader'[BuyerOf[p]] = owed'[p]
    BY OwnersAssumption DEF OwedToLeader, trade
  <2>2. {"commission"} \cup Found \subseteq Paying
    BY DEF Paying, Marked
  <2> QED
    BY <1>1, <2>1, <2>2 DEF OwedToLeader, trade, Same
<1>7. Runs' /\ Again' = Again
  BY AgainFrame
<1>8. Bounded'
  BY <1>5, <1>7, BoundedStays
<1> QED
  BY <1>2, <1>4, <1>5, <1>6, <1>7, <1>8

\* The coupon is locked by the call that comes to it when nobody is.
LEMMA RedeemKeeps ==
    ASSUME IInv, NEW c \in Callers, NEW u \in Users, RedeemCoupon(c, u)
    PROVE  IInv'
<1> USE DEF IInv
<1>0. /\ {"locked", "idle"} \cap (Paying \cup {"welcome"}) = {} /\ "locked" \in CallSteps
      /\ "locked" \notin Found \cup {"idle", "upper", "noticeUpper", "noticedUpper", "enrol", "toSurvivor", "fromLoser"}
  BY DEF Paying, Marked, Found, Noticing, CallSteps
<1>1. PICK k : k = [Idle EXCEPT !.at = "locked", !.who = u]
  OBVIOUS
<1>2. k \in CallType /\ k.at = "locked" /\ k.who = u /\ k.about = NoPayment
  BY <1>0, <1>1, IdleIs DEF CallType
<1>3. /\ call[c] = Idle /\ couponLock = NoOne /\ couponLock' = c /\ call' = [call EXCEPT ![c] = k]
      /\ UNCHANGED <<purse, trade, fame, gifts, welcomed, merged, chores, failures>>
  BY <1>1 DEF RedeemCoupon, LockFree
<1>4. call' \in [Callers -> CallType] /\ Only(c) /\ call'[c] = k /\ call[c].at = "idle"
  BY <1>2, <1>3, BecomesMoves, IdleIs DEF Became
<1>5. WellPlaced(call'[c])
  BY <1>0, <1>2, <1>4 DEF WellPlaced
<1>6. Same({"welcome"})
  BY <1>0, <1>2, <1>4, SameBy
<1>7. CouponLocked'
  <2>1. \A d \in Callers : call[d].at \notin {"locked", "redeem"}
    BY <1>3, NobodyAssumption DEF CouponLocked
  <2> QED
    BY <1>2, <1>3, <1>4, <2>1 DEF CouponLocked, Only
<1>8. WelcomeClaimed' /\ EnrolledOnce' /\ Unwelcomed' = Unwelcomed
  BY <1>3, <1>6, KeptStill, WelcomeFrame, EnrolFrame DEF fame
<1>9. PurseTyped' /\ PerksTyped' /\ leader' \in [Users -> Users \cup {NoOne}]
  BY <1>3, TypesStay, TypesApart DEF PerksTyped, FameTyped, fame
<1> QED
  BY <1>0, <1>2, <1>3, <1>4, <1>5, <1>7, <1>8, <1>9, GiftKeeps DEF fame
\* Under the lock it is read whether there was a redemption.
LEMMA CheckKeeps ==
    ASSUME IInv, NEW c \in Callers, CheckRedemption(c)
    PROVE  IInv'
<1> USE DEF IInv
<1>0. /\ {"locked", "redeem", "idle"} \cap (Paying \cup {"welcome"}) = {} /\ "redeem" \in CallSteps
      /\ "redeem" \notin Found \cup {"idle", "upper", "noticeUpper", "noticedUpper", "enrol", "toSurvivor", "fromLoser"}
      /\ "locked" # "idle"
  BY DEF Paying, Marked, Found, Noticing, CallSteps
<1>1. /\ call[c].at = "locked" /\ couponLock = c
      /\ UNCHANGED <<purse, trade, fame, gifts, welcomed, merged, chores, failures>>
  BY DEF CheckRedemption, CouponLocked
<1>2. call[c].who \in Users /\ call[c].about = NoPayment
  BY <1>0, <1>1 DEF Placed, WellPlaced
<1>3. \/ /\ Go(c, "redeem") /\ couponLock' = c /\ gifts[call[c].who]["coupon"] = 0
      \/ Done(c) /\ couponLock' = NoOne
  BY <1>1 DEF CheckRedemption
<1>4. /\ call' \in [Callers -> CallType] /\ Only(c)
      /\ \/ Moved(c, "redeem") /\ couponLock' = c /\ gifts[call[c].who]["coupon"] = 0
         \/ call'[c] = Idle /\ couponLock' = NoOne
  BY <1>0, <1>3, GoMoves, DoneMoves DEF Became
<1>5. call'[c].at \in {"redeem", "idle"} /\ WellPlaced(call'[c])
  <2>1. CASE call'[c] = Idle
    BY <2>1, IdleWell, IdleIs
  <2>2. CASE Moved(c, "redeem")
    BY <1>0, <1>2, <2>2 DEF Moved, WellPlaced
  <2> QED
    BY <1>4, <2>1, <2>2
<1>6. Same({"welcome"})
  BY <1>0, <1>1, <1>4, <1>5, SameBy
<1>7. CouponLocked'
  <2>1. \A d \in Callers \ {c} : call[d].at \notin {"locked", "redeem"} /\ call'[d] = call[d]
    BY <1>1, <1>4 DEF CouponLocked, Only
  <2>2. CASE call'[c] = Idle /\ couponLock' = NoOne
    BY <1>1, <2>1, <2>2, NobodyAssumption, IdleIs DEF CouponLocked
  <2>3. CASE Moved(c, "redeem") /\ couponLock' = c /\ gifts[call[c].who]["coupon"] = 0
    BY <1>1, <2>1, <2>3 DEF CouponLocked, Moved
  <2> QED
    BY <1>4, <2>2, <2>3
<1>8. WelcomeClaimed' /\ EnrolledOnce' /\ Unwelcomed' = Unwelcomed
  BY <1>1, <1>6, KeptStill, WelcomeFrame, EnrolFrame DEF fame
<1>9. PurseTyped' /\ PerksTyped' /\ leader' \in [Users -> Users \cup {NoOne}]
  BY <1>1, <1>4, TypesStay, TypesApart DEF PerksTyped, FameTyped, fame
<1> QED
  BY <1>0, <1>1, <1>4, <1>5, <1>7, <1>8, <1>9, GiftKeeps DEF fame
\* And the gift is given where there was none.
LEMMA CommitKeeps ==
    ASSUME IInv, NEW c \in Callers, CommitRedemption(c)
    PROVE  IInv'
<1> USE DEF IInv
<1>0. {"redeem", "idle"} \cap (Paying \cup {"welcome"}) = {} /\ "redeem" # "idle"
      /\ "coupon" \in Kinds /\ "welcome" \in Kinds /\ "referral" \in Kinds
  BY DEF Paying, Marked, Found, Noticing, Kinds
<1>1. PICK u : u = call[c].who
  OBVIOUS
<1>2. /\ call[c].at = "redeem" /\ u \in Users /\ couponLock = c /\ gifts[u]["coupon"] = 0
  <2>1. call[c].at = "redeem"
    BY DEF CommitRedemption
  <2> QED
    BY <1>0, <1>1, <2>1 DEF Placed, WellPlaced, CouponLocked
<1>3. /\ Done(c) /\ couponLock' = NoOne /\ gifts' = [gifts EXCEPT ![u]["coupon"] = @ + 1] /\ Add(u, Gift)
      /\ UNCHANGED <<trade, fame, welcomed, merged, chores, failures>>
  BY <1>1 DEF CommitRedemption
<1>4. call' \in [Callers -> CallType] /\ Only(c) /\ call'[c] = Idle /\ call'[c].at = "idle" /\ WellPlaced(call'[c])
  BY <1>3, DoneMoves, IdleIs, IdleWell DEF Became
<1>5. /\ gifts' \in [Users -> [Kinds -> Nat]] /\ gifts'[u]["coupon"] = 1
      /\ \A v \in Users : v # u => gifts'[v]["coupon"] = gifts[v]["coupon"]
      /\ Kept("welcome") /\ Kept("referral")
  <2>1. /\ gifts' \in [Users -> [Kinds -> Nat]] /\ gifts'[u]["coupon"] = gifts[u]["coupon"] + 1
        /\ \A v \in Users, k \in Kinds : v # u \/ k # "coupon" => gifts'[v][k] = gifts[v][k]
    <3>1. Given(u, "coupon")
      BY <1>3 DEF Given
    <3> QED
      BY <1>0, <1>2, <3>1, GiftAdded
  <2> QED
    BY <1>0, <1>2, <2>1 DEF Kept
<1>6. Same({"welcome"})
  BY <1>0, <1>2, <1>4, SameBy
<1>7. CouponLocked'
  <2>1. \A d \in Callers \ {c} : call[d].at \notin {"locked", "redeem"} /\ call'[d] = call[d]
    BY <1>2, <1>4 DEF CouponLocked, Only
  <2>2. \A d \in Callers : call'[d].at \notin {"locked", "redeem"}
    BY <1>0, <1>4, <2>1
  <2> QED
    BY <1>3, <1>5, <2>2, NobodyAssumption DEF CouponLocked
<1>8. WelcomeClaimed' /\ EnrolledOnce' /\ Unwelcomed' = Unwelcomed
  BY <1>3, <1>5, <1>6, WelcomeFrame, EnrolFrame DEF fame
<1>9. PurseTyped' /\ PerksTyped' /\ leader' \in [Users -> Users \cup {NoOne}]
  <2>1. PurseTyped'
    BY <1>2, <1>3, AmountsAssumption, AddTyped
  <2> QED
    BY <1>3, <1>5, <2>1, TypesApart DEF PerksTyped, FameTyped, fame
<1> QED
  BY <1>0, <1>2, <1>3, <1>4, <1>7, <1>8, <1>9, GiftKeeps DEF fame


\* The request to be enrolled has looked for a row, and changed nothing.
LEMMA RegisterKeeps ==
    ASSUME IInv, NEW c \in Callers, NEW u \in Users, NEW l \in Users, Register(c, u, l)
    PROVE  IInv'
<1> USE DEF IInv
<1>0. /\ {"enrol", "idle"} \cap (Paying \cup {"welcome", "locked", "redeem"}) = {} /\ "enrol" \in CallSteps
      /\ "enrol" \notin Found \cup {"idle", "upper", "noticeUpper", "noticedUpper"}
  BY DEF Paying, Marked, Found, Noticing, CallSteps
<1>1. PICK k : k = [Idle EXCEPT !.at = "enrol", !.who = u, !.to = l]
  OBVIOUS
<1>2. k \in CallType /\ k.at = "enrol" /\ k.who = u /\ k.about = NoPayment /\ k.to = l
  BY <1>0, <1>1, IdleIs DEF CallType
<1>3. /\ call[c] = Idle /\ call' = [call EXCEPT ![c] = k]
      /\ UNCHANGED <<purse, trade, fame, perks, chores, failures>>
  BY <1>1 DEF Register
<1>4. call' \in [Callers -> CallType] /\ Only(c) /\ call'[c] = k /\ call[c].at = "idle"
  BY <1>2, <1>3, BecomesMoves, IdleIs DEF Became
<1>5. WellPlaced(call'[c])
  BY <1>0, <1>2, <1>4 DEF WellPlaced
<1>6. Same({"welcome"}) /\ Same({"locked", "redeem"})
  BY <1>0, <1>2, <1>4, SameBy
<1>7. CouponLocked' /\ WelcomeClaimed' /\ EnrolledOnce' /\ Unwelcomed' = Unwelcomed
  BY <1>3, <1>6, KeptStill, CouponFrame, WelcomeFrame, EnrolFrame DEF fame, perks
<1>8. PurseTyped' /\ PerksTyped' /\ leader' \in [Users -> Users \cup {NoOne}]
  BY <1>3, TypesStay, TypesApart DEF FameTyped, fame
<1> QED
  BY <1>0, <1>2, <1>3, <1>4, <1>5, <1>7, <1>8, GiftKeeps DEF fame
\* The row and its bonus are written where there was no row.
LEMMA EnrolKeeps ==
    ASSUME IInv, NEW c \in Callers, Enrol(c)
    PROVE  IInv'
<1> USE DEF IInv
<1>0. /\ {"enrol", "idle"} \cap (Paying \cup {"welcome", "locked", "redeem"}) = {} /\ "enrol" # "idle"
      /\ "coupon" \in Kinds /\ "welcome" \in Kinds /\ "referral" \in Kinds
  BY DEF Paying, Marked, Found, Noticing, Kinds
<1>1. PICK u : u = call[c].who
  OBVIOUS
<1>2. PICK l : l = call[c].to
  OBVIOUS
<1>3. /\ call[c].at = "enrol" /\ u \in Users /\ l \in Users /\ l # NoOne /\ Done(c)
      /\ UNCHANGED <<trade, commissions, unpaid, notified, claims, couponLock, welcomed, merged, chores, failures>>
  <2>1. /\ call[c].at = "enrol" /\ Done(c)
        /\ UNCHANGED <<trade, commissions, unpaid, notified, claims, couponLock, welcomed, merged, chores, failures>>
    BY DEF Enrol
  <2>2. u \in Users /\ l \in Users
    BY <1>0, <1>1, <1>2, <2>1 DEF Placed, WellPlaced
  <2> QED
    BY <2>1, <2>2, NobodyAssumption
<1>4. call' \in [Callers -> CallType] /\ Only(c) /\ call'[c] = Idle /\ call'[c].at = "idle" /\ WellPlaced(call'[c])
  BY <1>3, DoneMoves, IdleIs, IdleWell DEF Became
<1>5. /\ leader' \in [Users -> Users \cup {NoOne}]
      /\ \A v \in Users : leader[v] # NoOne => leader'[v] = leader[v]
      /\ PurseTyped' /\ gifts' \in [Users -> [Kinds -> Nat]]
      /\ Kept("welcome") /\ Kept("coupon") /\ EnrolledOnce'
  <2>1. CASE leader[u] = NoOne /\ u \in profile
    <3>1. leader' = [leader EXCEPT ![u] = l] /\ Add(u, Gift) /\ gifts' = [gifts EXCEPT ![u]["referral"] = @ + 1]
      BY <1>1, <1>2, <2>1 DEF Enrol, Inserted
    <3>2. /\ gifts' \in [Users -> [Kinds -> Nat]] /\ gifts'[u]["referral"] = gifts[u]["referral"] + 1
          /\ \A v \in Users, k \in Kinds : v # u \/ k # "referral" => gifts'[v][k] = gifts[v][k]
      <4>1. Given(u, "referral")
        BY <3>1 DEF Given
      <4> QED
        BY <1>0, <1>3, <4>1, GiftAdded
    <3>3. Kept("welcome") /\ Kept("coupon")
      BY <1>0, <1>3, <3>2 DEF Kept
    <3>4. leader' \in [Users -> Users \cup {NoOne}] /\ leader'[u] = l /\ \A v \in Users : v # u => leader'[v] = leader[v]
      BY <1>3, <3>1 DEF TypeOK
    <3>5. gifts[u]["referral"] = 0 /\ gifts'[u]["referral"] = 1
      BY <1>3, <2>1, <3>2 DEF EnrolledOnce
    <3>6. EnrolledOnce'
      BY <1>0, <1>3, <3>2, <3>4, <3>5 DEF EnrolledOnce
    <3>7. PurseTyped'
      BY <1>3, <3>1, AmountsAssumption, AddTyped
    <3> QED
      BY <2>1, <3>2, <3>3, <3>4, <3>6, <3>7
  <2>2. CASE leader[u] = NoOne /\ u \notin profile
    <3>1. leader' = [leader EXCEPT ![u] = l] /\ UNCHANGED <<purse, gifts>>
      BY <1>1, <1>2, <2>2 DEF Enrol, Inserted
    <3>2. leader' \in [Users -> Users \cup {NoOne}] /\ leader'[u] = l /\ \A v \in Users : v # u => leader'[v] = leader[v]
      BY <1>3, <3>1 DEF TypeOK
    <3>3. EnrolledOnce'
      BY <1>3, <3>1, <3>2 DEF EnrolledOnce
    <3>4. PurseTyped' /\ gifts' \in [Users -> [Kinds -> Nat]]
      BY <3>1, TypesStay DEF TypeOK
    <3> QED
      BY <2>2, <3>1, <3>2, <3>3, <3>4, KeptStill
  <2>3. CASE leader[u] # NoOne
    <3>1. UNCHANGED <<leader, purse, gifts>>
      BY <1>1, <2>3 DEF Enrol, Inserted
    <3>2. leader' \in [Users -> Users \cup {NoOne}] /\ PurseTyped' /\ gifts' \in [Users -> [Kinds -> Nat]]
      BY <3>1, TypesStay DEF TypeOK
    <3> QED
      BY <3>1, <3>2, KeptStill, EnrolFrame
  <2> QED
    BY <2>1, <2>2, <2>3
<1>6. Same({"welcome"}) /\ Same({"locked", "redeem"})
  BY <1>0, <1>3, <1>4, SameBy
<1>7. CouponLocked' /\ WelcomeClaimed' /\ Unwelcomed' = Unwelcomed
  BY <1>3, <1>5, <1>6, CouponFrame, WelcomeFrame
<1>8. PerksTyped'
  BY <1>3, <1>5, TypesApart DEF PerksTyped
<1> QED
  BY <1>0, <1>3, <1>4, <1>5, <1>7, <1>8, GiftKeeps

\* The welcome bonus is claimed before it is given.
LEMMA ClaimKeeps ==
    ASSUME IInv, NEW c \in Callers, NEW u \in Users, ClaimWelcome(c, u)
    PROVE  IInv'
<1> USE DEF IInv
<1>0. /\ {"welcome", "idle"} \cap (Paying \cup {"locked", "redeem"}) = {} /\ "welcome" \in CallSteps
      /\ "welcome" \notin Found \cup {"idle", "upper", "noticeUpper", "noticedUpper", "enrol", "toSurvivor", "fromLoser"}
  BY DEF Paying, Marked, Found, Noticing, CallSteps
<1>1. PICK k : k = [Idle EXCEPT !.at = "welcome", !.who = u]
  OBVIOUS
<1>2. k \in CallType /\ k.at = "welcome" /\ k.who = u /\ k.about = NoPayment
  BY <1>0, <1>1, IdleIs DEF CallType
<1>3. /\ call[c] = Idle /\ u \notin welcomed /\ welcomed' = welcomed \cup {u} /\ call' = [call EXCEPT ![c] = k]
      /\ UNCHANGED <<purse, trade, fame, couponLock, gifts, merged, chores, failures>>
  BY <1>1 DEF ClaimWelcome, Unclaimed
<1>4. call' \in [Callers -> CallType] /\ Only(c) /\ call'[c] = k /\ call[c].at = "idle"
  BY <1>2, <1>3, BecomesMoves, IdleIs DEF Became
<1>5. WellPlaced(call'[c])
  BY <1>0, <1>2, <1>4 DEF WellPlaced
<1>6. Same({"locked", "redeem"})
  BY <1>0, <1>2, <1>4, SameBy
<1>7. CouponLocked' /\ EnrolledOnce'
  BY <1>3, <1>6, KeptStill, CouponFrame, EnrolFrame DEF fame
<1>8. \A d \in Callers \ {c} : call'[d] = call[d] /\ ~(call[d].at = "welcome" /\ call[d].who = u)
  BY <1>3, <1>4 DEF Only, WelcomeClaimed
<1>9. WelcomeClaimed'
  <2>1. gifts[u]["welcome"] = 0
    BY <1>3 DEF WelcomeClaimed
  <2>2. ASSUME NEW d \in Callers, call'[d].at = "welcome"
        PROVE  /\ call'[d].who \in welcomed' /\ gifts'[call'[d].who]["welcome"] = 0
               /\ \A e \in Callers : call'[e].at = "welcome" /\ call'[e].who = call'[d].who => e = d
    <3>1. CASE d = c
      BY <1>2, <1>3, <1>4, <1>8, <2>1, <3>1
    <3>2. CASE d # c
      BY <1>2, <1>3, <1>4, <1>8, <2>2, <3>2 DEF WelcomeClaimed
    <3> QED
      BY <3>1, <3>2
  <2> QED
    BY <1>3, <2>2 DEF WelcomeClaimed
<1>10. Unwelcomed' \subseteq Unwelcomed
  <2>1. u \notin Unwelcomed'
    BY <1>2, <1>4 DEF Unwelcomed
  <2> QED
    BY <1>0, <1>3, <1>4, <1>8, <2>1 DEF Unwelcomed
<1>11. PurseTyped' /\ PerksTyped' /\ leader' \in [Users -> Users \cup {NoOne}]
  BY <1>3, TypesStay, TypesApart DEF PerksTyped, FameTyped, fame
<1> QED
  BY <1>0, <1>2, <1>3, <1>4, <1>5, <1>7, <1>9, <1>10, <1>11, GiftKeeps DEF fame
\* And given by the call that has claimed it.
LEMMA WelcomeKeeps ==
    ASSUME IInv, NEW c \in Callers, CreditWelcome(c)
    PROVE  IInv'
<1> USE DEF IInv
<1>0. {"welcome", "idle"} \cap (Paying \cup {"locked", "redeem"}) = {} /\ "welcome" # "idle"
      /\ "coupon" \in Kinds /\ "welcome" \in Kinds /\ "referral" \in Kinds
  BY DEF Paying, Marked, Found, Noticing, Kinds
<1>1. PICK u : u = call[c].who
  OBVIOUS
<1>2. /\ call[c].at = "welcome" /\ u \in Users /\ u \in welcomed /\ gifts[u]["welcome"] = 0
      /\ \A d \in Callers \ {c} : ~(call[d].at = "welcome" /\ call[d].who = u)
  <2>1. call[c].at = "welcome"
    BY DEF CreditWelcome
  <2> QED
    BY <1>0, <1>1, <2>1 DEF Placed, WellPlaced, WelcomeClaimed
<1>3. /\ Done(c) /\ gifts' = [gifts EXCEPT ![u]["welcome"] = @ + 1] /\ Add(u, Gift)
      /\ UNCHANGED <<trade, fame, couponLock, welcomed, merged, chores, failures>>
  BY <1>1 DEF CreditWelcome
<1>4. call' \in [Callers -> CallType] /\ Only(c) /\ call'[c] = Idle /\ call'[c].at = "idle" /\ WellPlaced(call'[c])
  BY <1>3, DoneMoves, IdleIs, IdleWell DEF Became
<1>5. /\ gifts' \in [Users -> [Kinds -> Nat]] /\ gifts'[u]["welcome"] = 1
      /\ \A v \in Users : v # u => gifts'[v]["welcome"] = gifts[v]["welcome"]
      /\ Kept("coupon") /\ Kept("referral")
  <2>1. /\ gifts' \in [Users -> [Kinds -> Nat]] /\ gifts'[u]["welcome"] = gifts[u]["welcome"] + 1
        /\ \A v \in Users, k \in Kinds : v # u \/ k # "welcome" => gifts'[v][k] = gifts[v][k]
    <3>1. Given(u, "welcome")
      BY <1>3 DEF Given
    <3> QED
      BY <1>0, <1>2, <3>1, GiftAdded
  <2> QED
    BY <1>0, <1>2, <2>1 DEF Kept
<1>6. Same({"locked", "redeem"})
  BY <1>0, <1>2, <1>4, SameBy
<1>7. CouponLocked' /\ EnrolledOnce'
  BY <1>3, <1>5, <1>6, CouponFrame, EnrolFrame DEF fame
<1>8. \A d \in Callers : call'[d].at = "welcome" => d # c /\ call'[d] = call[d] /\ call[d].who # u /\ call[d].who \in Users
  BY <1>0, <1>2, <1>4 DEF Only, Placed, WellPlaced
<1>9. WelcomeClaimed'
  BY <1>2, <1>3, <1>5, <1>8 DEF WelcomeClaimed
<1>10. Unwelcomed' \subseteq Unwelcomed
  <2>1. ASSUME NEW v \in Unwelcomed'
        PROVE  v \in Unwelcomed
    <3>1. /\ v \in welcomed /\ v \in Users /\ gifts'[v]["welcome"] = 0
          /\ \A d \in Callers : ~(call'[d].at = "welcome" /\ call'[d].who = v)
      BY <1>3 DEF Unwelcomed, TypeOK
    <3>2. v # u /\ gifts[v]["welcome"] = 0
      BY <1>5, <3>1
    <3>3. \A d \in Callers : ~(call[d].at = "welcome" /\ call[d].who = v)
      BY <1>1, <1>4, <3>1, <3>2 DEF Only
    <3> QED
      BY <3>1, <3>2, <3>3 DEF Unwelcomed
  <2> QED
    BY <2>1
<1>11. PurseTyped' /\ PerksTyped' /\ leader' \in [Users -> Users \cup {NoOne}]
  <2>1. PurseTyped'
    BY <1>2, <1>3, AmountsAssumption, AddTyped
  <2> QED
    BY <1>3, <1>5, <2>1, TypesApart DEF PerksTyped, FameTyped, fame
<1> QED
  BY <1>0, <1>2, <1>3, <1>4, <1>7, <1>9, <1>10, <1>11, GiftKeeps DEF fame

\* A merge moves balances and identities, and is about no gift.
LEMMA MergeKeeps ==
    ASSUME IInv, NEW c \in Callers, call' \in [Callers -> CallType], Only(c), WellPlaced(call'[c]),
           call[c].at \in {"idle", "toSurvivor", "fromLoser", "identities"},
           call'[c].at \in {"idle", "toSurvivor", "fromLoser", "identities"},
           PurseTyped', merged' \subseteq Users,
           UNCHANGED <<trade, fame, couponLock, gifts, welcomed, chores, failures>>
    PROVE  IInv'
<1> USE DEF IInv
<1>0. {"idle", "toSurvivor", "fromLoser", "identities"} \cap (Paying \cup {"welcome", "locked", "redeem"}) = {}
  BY DEF Paying, Marked, Found, Noticing
<1>1. Same({"welcome"}) /\ Same({"locked", "redeem"})
  BY <1>0, SameBy
<1>2. CouponLocked' /\ WelcomeClaimed' /\ EnrolledOnce' /\ Unwelcomed' = Unwelcomed
  BY <1>1, KeptStill, CouponFrame, WelcomeFrame, EnrolFrame DEF fame
<1>3. PerksTyped' /\ leader' \in [Users -> Users \cup {NoOne}]
  BY TypesApart DEF PerksTyped, FameTyped, fame
<1> QED
  BY <1>0, <1>2, <1>3, GiftKeeps DEF fame
\* A merge begins with what is on the account that goes.
LEMMA MergeBegins ==
    ASSUME IInv, NEW c \in Callers, NEW loser \in Users, NEW survivor \in Users, MergeAccounts(c, loser, survivor)
    PROVE  IInv'
<1> USE DEF IInv
<1>1. PICK at \in {"toSurvivor", "identities"} : at = IF balance[loser] > 0 THEN "toSurvivor" ELSE "identities"
  OBVIOUS
<1>0. /\ at \in CallSteps /\ at \notin Paying
      /\ at \notin Found \cup {"idle", "upper", "noticeUpper", "noticedUpper"}
  BY DEF Paying, Marked, Found, Noticing, CallSteps
<1>2. PICK k : k = [Idle EXCEPT !.at = at, !.who = loser, !.to = survivor, !.sum = balance[loser]]
  OBVIOUS
<1>3. balance[loser] \in Nat
  BY DEF TypeOK
<1>4. k \in CallType /\ k.at = at /\ k.who = loser /\ k.about = NoPayment /\ k.to = survivor
  BY <1>0, <1>2, <1>3, IdleIs DEF CallType
<1>5. /\ call[c] = Idle /\ call' = [call EXCEPT ![c] = k]
      /\ UNCHANGED <<purse, trade, fame, perks, chores, failures>>
  BY <1>1, <1>2 DEF MergeAccounts
<1>6. call' \in [Callers -> CallType] /\ Only(c) /\ call'[c] = k /\ call[c].at = "idle"
  BY <1>4, <1>5, BecomesMoves, IdleIs DEF Became
<1>7. WellPlaced(call'[c])
  BY <1>0, <1>4, <1>6 DEF WellPlaced
<1>8. PurseTyped' /\ merged' \subseteq Users
  BY <1>5, TypesStay DEF perks, TypeOK
<1> QED
  BY <1>4, <1>5, <1>6, <1>7, <1>8, MergeKeeps DEF perks
\* The two legs, and the identities.
LEMMA LegKeeps ==
    ASSUME IInv, NEW c \in Callers, CreditSurvivor(c) \/ DebitLoser(c)
    PROVE  IInv'
<1> USE DEF IInv
<1>0. /\ {"toSurvivor", "fromLoser", "identities"} \cap (Paying \cup Found \cup {"idle"}) = {}
      /\ {"fromLoser", "identities"} \subseteq CallSteps
      /\ {"toSurvivor", "fromLoser", "identities"} \cap {"upper", "noticeUpper", "noticedUpper", "enrol"} = {}
  BY DEF Paying, Marked, Found, Noticing, CallSteps
<1>1. PICK at \in {"fromLoser", "identities"} :
         /\ Go(c, at) /\ call[c].at \in {"toSurvivor", "fromLoser"}
         /\ at = "fromLoser" => call[c].at = "toSurvivor"
  BY DEF CreditSurvivor, DebitLoser, FirstLeg, SecondLeg
<1>2. call[c].who \in Users /\ call[c].to \in Users /\ call[c].sum \in Int /\ call[c].about = NoPayment
  <2>1. call[c].sum \in Nat
    BY DEF TypeOK
  <2> QED
    BY <1>0, <1>1, <2>1 DEF Placed, WellPlaced
<1>3. call' \in [Callers -> CallType] /\ Only(c) /\ Moved(c, at)
  BY <1>0, <1>1, GoMoves
<1>4. WellPlaced(call'[c])
  BY <1>0, <1>2, <1>3 DEF WellPlaced, Moved
<1>5. PurseTyped'
  <2>1. balance' = Added(call[c].to, call[c].sum) \/ balance' = Added(call[c].who, -call[c].sum)
    BY DEF CreditSurvivor, DebitLoser
  <2>2. -call[c].sum \in Int
    BY <1>2
  <2>3. balance' \in [Users -> Nat]
    BY <1>2, <2>1, <2>2, AddedType
  <2> QED
    BY <2>3 DEF PurseTyped, TypeOK, CreditSurvivor, DebitLoser
<1>6. UNCHANGED <<trade, fame, perks, chores, failures>>
  BY DEF CreditSurvivor, DebitLoser
<1>7. merged' \subseteq Users
  BY <1>6 DEF perks, TypeOK
<1> QED
  BY <1>1, <1>3, <1>4, <1>5, <1>6, <1>7, MergeKeeps DEF Moved, perks
\* And last the identities.
LEMMA IdentitiesKeep ==
    ASSUME IInv, NEW c \in Callers, MoveIdentities(c)
    PROVE  IInv'
<1> USE DEF IInv
<1>1. call[c].at = "identities" /\ call[c].who \in Users
  BY DEF MoveIdentities, Placed, WellPlaced
<1>2. call' \in [Callers -> CallType] /\ Only(c) /\ call'[c].at = "idle" /\ WellPlaced(call'[c])
  BY DoneMoves, IdleIs, IdleWell DEF MoveIdentities, Became
<1>3. PurseTyped' /\ merged' \subseteq Users
  BY <1>1, TypesStay DEF MoveIdentities, TypeOK
<1> QED
  BY <1>1, <1>2, <1>3, MergeKeeps DEF MoveIdentities


-----------------------------------------------------------------------------
(* The tasks.                                                               *)

\* The payments, the gifts and the calls do not see the tasks.
LEMMA TasksKeep ==
    ASSUME IInv, NEW a, PurseTyped', ChoresTyped', Runs', UNCHANGED <<trade, fame, perks, call>>,
           \/ Again' \subseteq Again /\ failures' = failures
           \/ Again' \subseteq Again \cup {a} /\ failures' = failures + 1 /\ failures < MaxFailures
    PROVE  IInv'
<1> USE DEF IInv
<1>1. failures' \in 0..MaxFailures
  BY AmountsAssumption DEF TypeOK
<1>2. TypeOK'
  BY <1>1, TypesStay, TypesTogether
<1>3. Placed'
  BY DEF Placed, WellPlaced, fame
<1>4. Recorded' /\ MarkedIsPaid' /\ Inserts' /\ OnePlace' /\ OwedToLeader' /\ Lost' = Lost
  BY SameStill, RecordedFrame, InsertsFrame, OnePlaceFrame, OwedFrame, LostFrame DEF trade, fame
<1>5. CouponLocked' /\ WelcomeClaimed' /\ EnrolledOnce' /\ Unwelcomed' = Unwelcomed
  BY SameStill, GiftsFrame, UnwelcomedFrame DEF perks, fame
<1>6. Bounded'
  <2>1. CASE Again' \subseteq Again /\ failures' = failures
    BY <1>4, <1>5, <2>1, BoundedStays
  <2>2. CASE Again' \subseteq Again \cup {a} /\ failures' = failures + 1
    BY <1>4, <1>5, <2>2, BoundedByFailure
  <2> QED
    BY <2>1, <2>2
<1> QED
  BY <1>2, <1>3, <1>4, <1>5, <1>6
\* What the runner goes on with.
LEMMA RunEndsAs ==
    ASSUME NEW left \in SUBSET Tasks
    PROVE  RunEnds(left) \in RunType /\ RunEnds(left).at # "mark" /\ RunEnds(left).batch = left
<1>1. IdleRun \in RunType /\ IdleRun.at = "idle" /\ IdleRun.batch = {}
  BY DEF IdleRun, RunType
<1>2. PICK k : k = [IdleRun EXCEPT !.at = "take", !.batch = left]
  OBVIOUS
<1>3. k \in RunType /\ k.at = "take" /\ k.batch = left
  BY <1>1, <1>2 DEF RunType
<1>4. RunEnds(left) = IF left = {} THEN IdleRun ELSE k
  BY <1>2 DEF RunEnds
<1> QED
  BY <1>1, <1>3, <1>4

\* A task comes with no deduction.
LEMMA AddTaskKeeps ==
    ASSUME IInv, NEW t \in Tasks, AddTask(t)
    PROVE  IInv'
<1> USE DEF IInv
<1>1. /\ task[t] = "none" /\ task' = [task EXCEPT ![t] = "pending"]
      /\ UNCHANGED <<purse, trade, fame, perks, taken, runner, call, failures>>
  BY DEF AddTask
<1>2. ChoresTyped' /\ PurseTyped'
  BY <1>1, TypesApart, TypesStay DEF ChoresTyped
<1>3. task'[t] = "pending" /\ \A s \in Tasks \ {t} : task'[s] = task[s]
  BY <1>1 DEF TypeOK
<1>4. runner.batch \subseteq Tasks
  BY DEF TypeOK
<1>5. Runs'
  BY <1>1, <1>3, <1>4 DEF Runs
<1>6. Again' \subseteq Again
  <2>1. taken[t] = 0 /\ \A s \in Tasks : Waits(s)' => Waits(s)
    BY <1>1, <1>3 DEF Runs, Waits
  <2> QED
    BY <1>1, <2>1 DEF Again, Repeated
<1> QED
  BY <1>1, <1>2, <1>5, <1>6, TasksKeep
\* A run begins with what waits.
LEMMA ReadKeeps ==
    ASSUME IInv, ReadTasks
    PROVE  IInv'
<1> USE DEF IInv
<1>1. PICK k : k = [runner EXCEPT !.at = "take", !.batch = Waiting]
  OBVIOUS
<1>2. /\ runner = IdleRun /\ runner' = k
      /\ UNCHANGED <<purse, trade, fame, perks, task, taken, call, failures>>
  BY <1>1 DEF ReadTasks
<1>3. runner \in RunType /\ runner.at = "idle"
  BY <1>2 DEF TypeOK, RunType, IdleRun
<1>4. k \in RunType /\ k.at = "take" /\ k.batch = Waiting
  BY <1>1, <1>3 DEF RunType, Waiting
<1>5. ChoresTyped' /\ PurseTyped'
  BY <1>2, <1>4, TypesApart, TypesStay DEF ChoresTyped
<1>6. Runs'
  BY <1>2, <1>4 DEF Runs, Waiting
<1>7. Again' \subseteq Again
  BY <1>2, <1>3, <1>4 DEF Again, Repeated, Waits
<1> QED
  BY <1>2, <1>5, <1>6, <1>7, TasksKeep
\* A deduction: a first one, or one that was to be feared.
LEMMA DeductKeeps ==
    ASSUME IInv, NEW t \in Tasks, DeductTask(t)
    PROVE  IInv'
<1> USE DEF IInv
<1>1. PICK k : k = Deducted(t)
  OBVIOUS
<1>2. /\ runner.at = "take" /\ t \in runner.batch /\ Consume(OwnerOf[t], Cost)
      /\ taken' = [taken EXCEPT ![t] = @ + 1] /\ runner' = k
      /\ UNCHANGED <<trade, fame, perks, task, call, failures>>
  BY <1>1 DEF DeductTask
<1>3. runner \in RunType
  BY DEF TypeOK, RunType
<1>4. k \in RunType /\ k.at = "mark" /\ k.on = t /\ k.batch = runner.batch \ {t}
  BY <1>1, <1>3 DEF RunType, Deducted
<1>5. taken \in [Tasks -> Nat] /\ taken'[t] = taken[t] + 1 /\ \A s \in Tasks \ {t} : taken'[s] = taken[s]
  BY <1>2 DEF TypeOK
<1>6. ChoresTyped' /\ PurseTyped'
  <2>1. PurseTyped'
    BY <1>2, OwnersAssumption, AmountsAssumption, ConsumeTyped
  <2>2. taken' \in [Tasks -> Nat]
    BY <1>2, <1>5
  <2> QED
    BY <1>2, <1>4, <2>1, <2>2, TypesApart DEF ChoresTyped
<1>7. task[t] = "pending"
  BY <1>2 DEF Runs
<1>8. Runs'
  BY <1>2, <1>4, <1>5, <1>7 DEF Runs
<1>9. Again' \subseteq Again
  <2>1. \A s \in Tasks \ {t} : Waits(s)' => Waits(s)
    BY <1>2, <1>4, <1>5 DEF Waits
  <2>2. ~Waits(t)' /\ (taken[t] >= 1 => Waits(t))
    BY <1>2, <1>4, <1>7 DEF Waits
  <2>3. ASSUME NEW n \in Nat, Repeated(t, n)'
        PROVE  Repeated(t, n)
    BY <1>5, <2>2, <2>3 DEF Repeated
  <2>4. ASSUME NEW s \in Tasks \ {t}, NEW n \in Nat, Repeated(s, n)'
        PROVE  Repeated(s, n)
    BY <1>5, <2>1, <2>4 DEF Repeated
  <2> QED
    BY <2>3, <2>4 DEF Again
<1> QED
  BY <1>2, <1>6, <1>8, <1>9, TasksKeep
\* The mark: what was marked waits no more, and the rest of the batch goes on.
LEMMA CompleteKeeps ==
    ASSUME IInv, MarkCompleted
    PROVE  IInv'
<1> USE DEF IInv
<1>1. PICK t : t = runner.on
  OBVIOUS
<1>2. /\ runner.at = "mark" /\ task' = [task EXCEPT ![t] = "completed"] /\ runner' = RunEnds(runner.batch)
      /\ UNCHANGED <<purse, trade, fame, perks, taken, call, failures>>
  BY <1>1 DEF MarkCompleted
<1>3. t \in Tasks \ runner.batch /\ runner.batch \subseteq Tasks
  BY <1>1, <1>2 DEF Runs, TypeOK
<1>4. runner' \in RunType /\ runner'.at # "mark" /\ runner'.batch = runner.batch
  BY <1>2, <1>3, RunEndsAs
<1>5. task'[t] = "completed" /\ \A s \in Tasks \ {t} : task'[s] = task[s]
  BY <1>2, <1>3 DEF TypeOK
<1>6. ChoresTyped' /\ PurseTyped'
  BY <1>2, <1>4, TypesApart, TypesStay DEF ChoresTyped
<1>7. Runs'
  BY <1>2, <1>3, <1>4, <1>5 DEF Runs
<1>8. Again' \subseteq Again
  <2>1. \A s \in Tasks : Waits(s)' => Waits(s)
    BY <1>1, <1>2, <1>5 DEF Waits
  <2> QED
    BY <1>2, <2>1 DEF Again, Repeated
<1> QED
  BY <1>2, <1>6, <1>7, <1>8, TasksKeep
\* A task that fails waits no more.
LEMMA FailsKeeps ==
    ASSUME IInv, NEW t \in Tasks, TaskFails(t)
    PROVE  IInv'
<1> USE DEF IInv
<1>1. /\ failures < MaxFailures /\ failures' = failures + 1
      /\ runner.at = "mark" => t = runner.on
      /\ task' = [task EXCEPT ![t] = "failed"] /\ runner' = RunEnds(runner.batch \ {t})
      /\ UNCHANGED <<purse, trade, fame, perks, taken, call>>
  BY DEF TaskFails
<1>2. runner.batch \ {t} \in SUBSET Tasks
  BY DEF TypeOK
<1>3. runner' \in RunType /\ runner'.at # "mark" /\ runner'.batch = runner.batch \ {t}
  BY <1>1, <1>2, RunEndsAs
<1>4. task'[t] = "failed" /\ \A s \in Tasks \ {t} : task'[s] = task[s]
  BY <1>1 DEF TypeOK
<1>5. ChoresTyped' /\ PurseTyped'
  BY <1>1, <1>3, TypesApart, TypesStay DEF ChoresTyped
<1>6. Runs'
  BY <1>1, <1>2, <1>3, <1>4 DEF Runs
<1>7. Again' \subseteq Again
  <2>1. \A s \in Tasks : Waits(s)' => Waits(s)
    BY <1>1, <1>4 DEF Waits
  <2> QED
    BY <1>1, <2>1 DEF Again, Repeated
<1> QED
  BY <1>1, <1>5, <1>6, <1>7, TasksKeep
\* A run that dies may leave one task deducted and not marked.
LEMMA DiesKeeps ==
    ASSUME IInv, RunDies
    PROVE  IInv'
<1> USE DEF IInv
<1>1. /\ failures < MaxFailures /\ failures' = failures + 1 /\ runner' = IdleRun
      /\ UNCHANGED <<purse, trade, fame, perks, task, taken, call>>
  BY DEF RunDies
<1>2. IdleRun \in RunType /\ IdleRun.at = "idle" /\ IdleRun.batch = {}
  BY DEF IdleRun, RunType
<1>3. ChoresTyped' /\ PurseTyped'
  BY <1>1, <1>2, TypesApart, TypesStay DEF ChoresTyped
<1>4. Runs'
  BY <1>1, <1>2 DEF Runs
<1>5. PICK t : t = runner.on
  OBVIOUS
<1>6. Again' \subseteq Again \cup {<<t, taken[t] + 1>>}
  <2>1. ASSUME NEW x \in Again', x \notin Again
        PROVE  x = <<t, taken[t] + 1>>
    <3>1. x \in Tasks \X Nat /\ Repeated(x[1], x[2])' /\ ~Repeated(x[1], x[2])
      BY <2>1 DEF Again
    <3>2. x[2] = taken[x[1]] + 1 /\ Waits(x[1])' /\ ~Waits(x[1])
      BY <1>1, <3>1 DEF Repeated
    <3>3. x[1] = t
      BY <1>1, <1>5, <3>2 DEF Waits
    <3> QED
      BY <3>1, <3>2, <3>3
  <2> QED
    BY <2>1
<1> QED
  BY <1>1, <1>3, <1>4, <1>6, TasksKeep

-----------------------------------------------------------------------------
(* A call that is cut short.                                                *)

\* It leaves one payment short of what it was to bring, or one bonus not given,
\* or nothing.
LEMMA CutKeeps ==
    ASSUME IInv, NEW c \in Callers, CallFails(c)
    PROVE  IInv'
<1> USE DEF IInv
<1>0. "idle" \notin Paying \cup Gifting \cup Marked \cup Found /\ Paying \cap Gifting = {} /\ Marked \subseteq Paying
      /\ {"asked", "look", "mark"} \subseteq Paying /\ "welcome" \notin Paying
      /\ {"locked", "redeem", "welcome"} \subseteq Gifting /\ "welcome" \in Gifting
  BY DEF Paying, Marked, Found, Noticing, Gifting
<1>1. /\ failures < MaxFailures /\ failures' = failures + 1 /\ Done(c)
      /\ couponLock' = IF couponLock = c THEN NoOne ELSE couponLock
      /\ UNCHANGED <<purse, trade, fame, gifts, welcomed, merged, chores>>
  BY DEF CallFails
<1>2. call' \in [Callers -> CallType] /\ Only(c) /\ call'[c] = Idle /\ call'[c].at = "idle" /\ WellPlaced(call'[c])
  BY <1>1, DoneMoves, IdleIs, IdleWell DEF Became
<1>3. \A d \in Callers \ {c} : call'[d] = call[d]
  BY <1>2 DEF Only
<1>4. TypeOK'
  <2>1. failures' \in 0..MaxFailures
    BY <1>1, AmountsAssumption DEF TypeOK
  <2>2. PerksTyped'
    BY <1>1, TypesApart DEF PerksTyped
  <2> QED
    BY <1>1, <1>2, <2>1, <2>2, TypesStay, TypesTogether
<1>5. Placed'
  BY <1>1, <1>2, PlacedBy DEF fame
<1>6. Recorded'
  BY <1>0, <1>1, <1>2, <1>3 DEF Recorded, trade
<1>7. MarkedIsPaid'
  BY <1>0, <1>1, <1>2, <1>3 DEF MarkedIsPaid, Settled, trade
<1>8. Inserts' /\ OnePlace'
  BY <1>1, <1>2, <1>4, InsertsBy, OnePlaceFrame DEF fame, trade, Settled
<1>9. CouponLocked'
  <2>1. ASSUME NEW d \in Callers
        PROVE  call'[d].at \in {"locked", "redeem"} <=> couponLock' = d
    <3>1. CASE d = c
      BY <1>1, <1>2, <3>1, NobodyAssumption
    <3>2. CASE d # c
      BY <1>1, <1>3, <3>2, NobodyAssumption DEF CouponLocked
    <3> QED
      BY <3>1, <3>2
  <2>2. \A d \in Callers : call'[d].at = "redeem" => gifts[call'[d].who]["coupon"] = 0
    BY <1>2, <1>3 DEF CouponLocked
  <2> QED
    BY <1>1, <2>1, <2>2 DEF CouponLocked
<1>10. WelcomeClaimed' /\ EnrolledOnce'
  <2>1. WelcomeClaimed'
    BY <1>1, <1>2, <1>3 DEF WelcomeClaimed
  <2> QED
    BY <1>1, <2>1 DEF EnrolledOnce, fame
<1>11. Runs' /\ Again' = Again
  BY <1>1, AgainFrame
<1>12. OwedToLeader'
  BY <1>0, <1>1, <1>2, <1>3 DEF OwedToLeader, trade, fame, Found, Noticing
<1>13. Bounded'
  <2>1. CASE call[c].at = "welcome"
    <3>1. Same(Paying)
      BY <1>0, <1>2, <2>1, SameBy
    <3>2. Lost' = Lost
      BY <1>1, <3>1, LostFrame DEF trade, fame
    <3>3. Unwelcomed' \subseteq Unwelcomed \cup {call[c].who}
      BY <1>1, <1>3 DEF Unwelcomed
    <3> QED
      BY <1>1, <1>11, <3>2, <3>3, BoundedByFailure
  <2>2. CASE call[c].at # "welcome"
    <3>1. Unwelcomed' \subseteq Unwelcomed
      BY <1>1, <1>3, <2>2 DEF Unwelcomed
    <3>2. PICK p : p = call[c].about
      OBVIOUS
    <3>3. Lost' \subseteq Lost \cup {p}
      BY <1>1, <1>2, <3>2, LostBy DEF trade, fame
    <3> QED
      BY <1>1, <1>11, <3>1, <3>3, BoundedByFailure
  <2> QED
    BY <2>1, <2>2
<1> QED
  BY <1>4, <1>5, <1>6, <1>7, <1>8, <1>9, <1>10, <1>11, <1>12, <1>13


-----------------------------------------------------------------------------
(* The theorems.                                                            *)

\* Nothing is there at first.
LEMMA InitKeeps == ASSUME Init PROVE IInv
<1> USE DEF Init
<1>1. TypeOK
  <2>1. /\ PurseTyped /\ TradeTyped /\ PerksTyped /\ call \in [Callers -> CallType]
    BY IdleIs DEF PurseTyped, TradeTyped, PerksTyped
  <2>2. FameTyped
    BY EmptySeq DEF FameTyped
  <2>3. ChoresTyped
    BY DEF ChoresTyped, IdleRun, RunType
  <2>4. failures \in 0..MaxFailures
    BY AmountsAssumption
  <2> QED
    BY <2>1, <2>2, <2>3, <2>4, TypesApart
<1>2. /\ \A c \in Callers : call[c] = Idle /\ call[c].at = "idle"
      /\ "idle" \notin Paying \cup Gifting \cup Marked \cup Found \cup {"asked", "look", "mark", "upper"}
  BY IdleIs DEF Paying, Marked, Found, Noticing, Gifting
<1>3. Placed
  BY <1>2, IdleWell DEF Placed
<1>4. Recorded /\ MarkedIsPaid /\ Inserts
  BY <1>2 DEF Recorded, MarkedIsPaid, Inserts
<1>5. OnePlace
  BY FS_EmptySet DEF OnePlace
<1>6. CouponLocked /\ WelcomeClaimed /\ EnrolledOnce
  BY <1>2, NobodyAssumption DEF CouponLocked, WelcomeClaimed, EnrolledOnce, Gifting, Kinds
<1>7. Runs
  BY DEF Runs, IdleRun
<1>8. OwedToLeader
  BY <1>2 DEF OwedToLeader, Found, Noticing
<1>9. Bounded
  <2>1. Lost = {} /\ Unwelcomed = {}
    BY DEF Lost, Settled, Unwelcomed
  <2>2. Again = {}
    BY DEF Again, Repeated, Waits
  <2> QED
    BY <2>1, <2>2, FS_EmptySet DEF Bounded
<1> QED
  BY <1>1, <1>3, <1>4, <1>5, <1>6, <1>7, <1>8, <1>9 DEF IInv

\* A step that changes nothing.
LEMMA NothingKeeps == ASSUME IInv, UNCHANGED vars PROVE IInv'
<1>1. PurseTyped' /\ ChoresTyped' /\ Runs' /\ Again' = Again
  BY TypesStay, AgainFrame DEF IInv, vars
<1> QED
  BY <1>1, TasksKeep DEF vars

\* Every step keeps the invariant.
LEMMA NextKeeps == ASSUME IInv, Next PROVE IInv'
<1>1. CASE PaymentsNext
  <2>1. ASSUME NEW p \in Payments, CustomerPays(p) \/ ProviderCancels(p)
        PROVE  IInv'
    BY <2>1, PaysKeeps
  <2>2. ASSUME NEW c \in Callers, NEW p \in Payments, CreatePayment(c, p) \/ Notification(c, p) \/ Reconcile(c, p)
        PROVE  IInv'
    BY <2>2, CreateKeeps, LookKeeps
  <2>3. ASSUME NEW c \in Callers, NEW u \in Users, RedeemCoupon(c, u)
        PROVE  IInv'
    BY <2>3, RedeemKeeps
  <2>4. ASSUME NEW c \in Callers, PaymentStep(c)
        PROVE  IInv'
    BY <2>4, RecordKeeps, CancelKeeps, CountKeeps, MarkKeeps, CreditKeeps, CheckKeeps, CommitKeeps
       DEF PaymentStep
  <2> QED
    BY <1>1, <2>1, <2>2, <2>3, <2>4 DEF PaymentsNext
<1>2. CASE ReferralsNext
  <2>1. ASSUME NEW c \in Callers, NEW u \in Users, NEW l \in Users, Register(c, u, l)
        PROVE  IInv'
    BY <2>1, RegisterKeeps
  <2>2. ASSUME NEW c \in Callers, ReferralStep(c)
        PROVE  IInv'
    BY <2>2, EnrolKeeps, LeaderKeeps, UpperKeeps, NoticeKeeps DEF ReferralStep
  <2>3. ASSUME NEW l \in Users, RequestWithdrawal(l) \/ PayoutTokens(l)
        PROVE  IInv'
    BY <2>3, RequestKeeps, PayoutKeeps
  <2>4. ASSUME NEW i \in DOMAIN claims, NEW d \in {"paid", "rejected"}, ProcessWithdrawal(i, d)
        PROVE  IInv'
    BY <2>4, ProcessKeeps
  <2> QED
    BY <1>2, <2>1, <2>2, <2>3, <2>4 DEF ReferralsNext
<1>3. CASE AccountsNext
  <2>1. ASSUME NEW t \in Tasks, AddTask(t) \/ DeductTask(t) \/ TaskFails(t)
        PROVE  IInv'
    BY <2>1, AddTaskKeeps, DeductKeeps, FailsKeeps
  <2>2. ASSUME ReadTasks \/ MarkCompleted \/ RunDies
        PROVE  IInv'
    BY <2>2, ReadKeeps, CompleteKeeps, DiesKeeps
  <2>3. ASSUME NEW c \in Callers, NEW u \in Users, ClaimWelcome(c, u)
        PROVE  IInv'
    BY <2>3, ClaimKeeps
  <2>4. ASSUME NEW c \in Callers, NEW u \in Users, NEW v \in Users, MergeAccounts(c, u, v)
        PROVE  IInv'
    BY <2>4, MergeBegins
  <2>5. ASSUME NEW c \in Callers, AccountStep(c)
        PROVE  IInv'
    BY <2>5, WelcomeKeeps, LegKeeps, IdentitiesKeep DEF AccountStep
  <2> QED
    BY <1>3, <2>1, <2>2, <2>3, <2>4, <2>5 DEF AccountsNext
<1>4. ASSUME NEW c \in Callers, CallFails(c)
      PROVE  IInv'
  BY <1>4, CutKeeps
<1> QED
  BY <1>1, <1>2, <1>3, <1>4 DEF Next

\* The invariant holds in every state, whatever is interleaved and cut short.
THEOREM MoneyInvariant == Spec => []IInv
<1>1. IInv /\ [Next]_vars => IInv'
  BY NextKeeps, NothingKeeps
<1> QED
  BY <1>1, InitKeeps, PTL DEF Spec

\* A commission is in one claim that was not refused, or in none and then it can
\* still be claimed: nobody is paid twice for it and nobody loses it, whatever is
\* asked for, refused and earned in between (referral.service.ts, requestWithdrawal,
\* payoutTokens, processWithdrawal).
THEOREM CommissionsAreClaimedOnce == Spec => []ClaimedOnce
<1>1. IInv => ClaimedOnce
  <2> SUFFICES ASSUME IInv, NEW k \in commissions
               PROVE  Cardinality({i \in DOMAIN claims : Live(i) /\ k \in claims[i].of})
                         = IF k \in unpaid THEN 0 ELSE 1
    BY DEF ClaimedOnce
  <2>1. PICK S : S = {i \in DOMAIN claims : Live(i) /\ k \in claims[i].of}
    OBVIOUS
  <2>2. CASE k \in unpaid
    <3>1. S = {}
      BY <2>1, <2>2 DEF IInv, OnePlace
    <3> QED
      BY <2>1, <2>2, <3>1, FS_EmptySet
  <2>3. CASE k \notin unpaid
    <3>1. PICK i \in DOMAIN claims : Live(i) /\ k \in claims[i].of
      BY <2>3 DEF IInv, OnePlace
    <3>2. \A j \in DOMAIN claims : Live(j) /\ k \in claims[j].of => j = i
      BY <3>1 DEF IInv, OnePlace
    <3>3. S = {i}
      BY <2>1, <3>1, <3>2
    <3> QED
      BY <2>1, <2>3, <3>3, FS_Singleton
  <2> QED
    BY <2>2, <2>3
<1> QED
  BY <1>1, MoneyInvariant, PTL

\* The coupon, the welcome bonus and the bonus of the referral are given to a user
\* once, however many requests ask for them at once (payments.service.ts:369).
THEOREM GiftsAreGivenOnce == Spec => []GiftsOnce
<1>1. IInv => GiftsOnce
  BY DEF IInv, CouponLocked, WelcomeClaimed, EnrolledOnce, GiftsOnce, Kinds
<1> QED
  BY <1>1, MoneyInvariant, PTL

\* Each call or run that is cut short leaves at most one payment short of its
\* tokens or commissions, or one bonus not given, or one task deducted again.
THEOREM FailuresCostOneEach == Spec => []OneFailureOneLoss
<1>1. IInv => OneFailureOneLoss
  <2> SUFFICES ASSUME IInv PROVE OneFailureOneLoss
    OBVIOUS
  <2>1. PICK S : S = {p \in Payments : Short(p)}
    OBVIOUS
  <2>2. S \subseteq Lost
    <3>1. ASSUME NEW p \in Payments, Short(p)
          PROVE  p \in Lost
      <4>1. \A c \in Callers : call[c].about # p
        BY <3>1 DEF Short, Working
      <4> QED
        BY <3>1, <4>1 DEF Short, Lost, Crediting, Bringing
    <3> QED
      BY <2>1, <3>1
  <2>3. Retaken \subseteq Again
    <3>1. ASSUME NEW t \in Tasks, NEW x \in {t} \X (2..taken[t])
          PROVE  x \in Again
      <4>1. taken[t] \in Nat
        BY DEF IInv, TypeOK
      <4>2. x \in Tasks \X Nat /\ x[1] = t /\ x[2] \in 2..taken[t]
        BY <3>1, <4>1
      <4> QED
        BY <4>1, <4>2 DEF Again, Repeated
    <3> QED
      BY <3>1 DEF Retaken
  <2>4. /\ IsFiniteSet(Lost) /\ IsFiniteSet(Unwelcomed) /\ IsFiniteSet(Again)
        /\ Cardinality(Lost) + Cardinality(Unwelcomed) + Cardinality(Again) <= failures
        /\ failures \in Nat
    BY AmountsAssumption DEF IInv, Bounded, TypeOK
  <2>5. /\ Cardinality(S) <= Cardinality(Lost) /\ Cardinality(S) \in Nat /\ Cardinality(Lost) \in Nat
    BY <2>2, <2>4, FS_Subset, FS_CardinalityType
  <2>6. /\ Cardinality(Retaken) <= Cardinality(Again) /\ Cardinality(Retaken) \in Nat /\ Cardinality(Again) \in Nat
    BY <2>3, <2>4, FS_Subset, FS_CardinalityType
  <2>7. Cardinality(Unwelcomed) \in Nat
    BY <2>4, FS_CardinalityType
  <2>8. Cardinality(S) + Cardinality(Unwelcomed) + Cardinality(Retaken) <= failures
    BY <2>4, <2>5, <2>6, <2>7
  <2> QED
    BY <2>1, <2>8 DEF OneFailureOneLoss
<1> QED
  BY <1>1, MoneyInvariant, PTL


-----------------------------------------------------------------------------
(* What was promised is on the balances.                                    *)

\* What a merge has credited to one account and not yet taken off the other.
Moving    == [c \in Callers |-> IF call[c].at = "fromLoser" THEN call[c].sum ELSE 0]
InTransit == SumOver(Moving, Callers)
\* Who is going to be credited has a profile to put the tokens on.
Known(k) ==
    /\ k.at \in {"locked", "redeem", "welcome"} => k.who \in profile
    /\ k.at = "toSurvivor" => k.to \in profile
Covered ==
    /\ Members \subseteq profile /\ \A c \in Callers : Known(call[c])
    /\ Total + spent >= earned + InTransit

\* The total is a sum over the users.
LEMMA TotalIsSum == Total = SumOver(balance, Users) /\ Total' = SumOver(balance', Users)
<1>1. Total = SumOver(balance, Users)
  BY DEF Total, SumOver
<1>2. (Total = SumOver(balance, Users))'
  BY <1>1, PTL
<1> QED
  BY <1>1, <1>2
\* Both sums are numbers, before a step and after it.
LEMMA SumsAreNumbers ==
    /\ TypeOK => Total \in Int /\ InTransit \in Int /\ Moving \in [Callers -> Nat]
    /\ TypeOK' => Total' \in Int /\ InTransit' \in Int /\ Moving' \in [Callers -> Nat]
<1>1. TypeOK => Total \in Int /\ InTransit \in Int /\ Moving \in [Callers -> Nat]
  <2> SUFFICES ASSUME TypeOK
               PROVE  Total \in Int /\ InTransit \in Int /\ Moving \in [Callers -> Nat]
    OBVIOUS
  <2>1. Moving \in [Callers -> Nat]
    BY DEF TypeOK, Moving
  <2>2. balance \in [Users -> Int] /\ Moving \in [Callers -> Int]
    BY <2>1 DEF TypeOK
  <2> QED
    BY <2>1, <2>2, TotalIsSum, FiniteAssumption, SumIsNumber DEF InTransit
<1>2. (TypeOK => Total \in Int /\ InTransit \in Int /\ Moving \in [Callers -> Nat])'
  BY <1>1, PTL
<1> QED
  BY <1>1, <1>2
\* One balance changes, and the total by as much.
LEMMA OneBalance ==
    ASSUME TypeOK, TypeOK', NEW u \in Users, \A v \in Users \ {u} : balance'[v] = balance[v]
    PROVE  Total' = Total + (balance'[u] - balance[u])
<1>1. balance \in [Users -> Int] /\ balance' \in [Users -> Int]
  BY DEF TypeOK
<1> QED
  BY <1>1, TotalIsSum, FiniteAssumption, SumOfOneChanged
\* One call moves, and what is in transit changes by what it has there.
LEMMA OneCall ==
    ASSUME TypeOK, TypeOK', NEW c \in Callers, Only(c)
    PROVE  InTransit' = InTransit + (Moving'[c] - Moving[c])
<1>1. Moving \in [Callers -> Int] /\ Moving' \in [Callers -> Int]
  BY DEF TypeOK, Moving
<1>2. \A d \in Callers \ {c} : Moving'[d] = Moving[d]
  BY DEF Moving, Only
<1>3. InTransit' = SumOver(Moving', Callers)
  BY DEF InTransit
<1> QED
  BY <1>1, <1>2, <1>3, FiniteAssumption, SumOfOneChanged DEF InTransit

\* A call that moves no tokens from account to account, and is about to credit
\* only who has a profile.
Calm(c) == call' \in [Callers -> CallType] /\ Only(c) /\ call'[c].at # "fromLoser" /\ Known(call'[c])
\* Nothing more is in transit after it, and who was known still is.
LEMMA CalmMoves ==
    ASSUME TypeOK, TypeOK', Covered, profile \subseteq profile',
           UNCHANGED call \/ \E c \in Callers : Calm(c)
    PROVE  InTransit' <= InTransit /\ (Members \subseteq profile /\ \A c \in Callers : Known(call[c]))'
<1>1. CASE UNCHANGED call
  <2>1. InTransit' = InTransit
    BY <1>1 DEF InTransit, Moving
  <2> QED
    BY <1>1, <2>1, SumsAreNumbers DEF Covered, Known
<1>2. ASSUME NEW c \in Callers, Calm(c)
      PROVE  InTransit' <= InTransit /\ (Members \subseteq profile /\ \A d \in Callers : Known(call[d]))'
  <2>1. Only(c) /\ Moving'[c] = 0 /\ Moving[c] \in Nat /\ InTransit \in Int
    BY <1>2, SumsAreNumbers DEF Calm, Moving
  <2>2. InTransit' <= InTransit
    BY <2>1, OneCall
  <2>3. \A d \in Callers : Known(call'[d])
    BY <1>2 DEF Calm, Only, Covered
  <2> QED
    BY <2>2, <2>3 DEF Covered, Known
<1> QED
  BY <1>1, <1>2
\* Less in transit leaves less to cover.
LEMMA LessInTransit ==
    \A total, took, gave, before, after \in Int :
        total + took >= gave + before /\ after <= before => total + took >= gave + after
OBVIOUS
\* A call that leaves the purse alone,
LEMMA CalmKeeps ==
    ASSUME TypeOK, TypeOK', Covered, UNCHANGED purse, UNCHANGED call \/ \E c \in Callers : Calm(c)
    PROVE  Covered'
<1>1. InTransit' <= InTransit /\ (Members \subseteq profile /\ \A c \in Callers : Known(call[c]))'
  BY CalmMoves DEF purse
<1>2. Total' = Total /\ spent' = spent /\ earned' = earned
  BY TotalIsSum DEF purse
<1>3. Total \in Int /\ InTransit \in Int /\ InTransit' \in Int /\ earned \in Int /\ spent \in Int
  <2>1. earned \in Int /\ spent \in Int
    BY DEF TypeOK
  <2> QED
    BY <2>1, SumsAreNumbers
<1>4. Total' + spent' >= earned' + InTransit'
  <2>1. Total + spent >= earned + InTransit
    BY DEF Covered
  <2>2. InTransit' <= InTransit
    BY <1>1
  <2>3. Total + spent >= earned + InTransit'
    BY <1>3, <2>1, <2>2, LessInTransit, Zenon
  <2> QED
    BY <1>2, <2>3
<1> QED
  BY <1>1, <1>4 DEF Covered
\* and one that credits what was promised to who can have it.
LEMMA CreditCovers ==
    ASSUME TypeOK, TypeOK', Covered, NEW u \in profile, NEW n \in Nat, Add(u, n),
           UNCHANGED call \/ \E c \in Callers : Calm(c)
    PROVE  Covered'
<1>1. InTransit' <= InTransit /\ (Members \subseteq profile /\ \A c \in Callers : Known(call[c]))'
  BY CalmMoves DEF Add
<1>2. /\ u \in Users /\ balance \in [Users -> Nat] /\ earned \in Nat /\ spent \in Nat
      /\ earned' = earned + n /\ spent' = spent
  BY DEF TypeOK, Add
<1>3. balance' = [balance EXCEPT ![u] = balance[u] + n]
  <2>1. Max({0, balance[u] + n}) = balance[u] + n
    BY <1>2, MaxOf
  <2> QED
    BY <2>1 DEF Add, Added
<1>4. Total' = Total + (balance'[u] - balance[u])
  BY <1>2, <1>3, OneBalance
<1>5. Total \in Int /\ InTransit \in Int /\ InTransit' \in Int
  BY SumsAreNumbers
<1>6. Total' = Total + n
  BY <1>2, <1>3, <1>4, <1>5
<1>7. Total' + spent' >= earned' + InTransit'
  <2>1. Total + spent >= earned + InTransit
    BY DEF Covered
  <2>2. InTransit' <= InTransit
    BY <1>1
  <2>3. (Total + n) + spent >= (earned + n) + InTransit
    BY <1>2, <1>5, <2>1
  <2>4. (Total + n) + spent >= (earned + n) + InTransit'
    <3>1. Total + n \in Int /\ earned + n \in Int /\ spent \in Int
      BY <1>2, <1>5
    <3> QED
      BY <1>5, <2>2, <2>3, <3>1, LessInTransit, Zenon
  <2> QED
    BY <1>2, <1>6, <2>4
<1> QED
  BY <1>1, <1>7 DEF Covered
\* What is taken off a balance is what counts as taken.
LEMMA ConsumeCovers ==
    ASSUME TypeOK, TypeOK', Covered, NEW u \in Users, NEW n \in Nat, Consume(u, n), UNCHANGED call
    PROVE  Covered'
<1>1. InTransit' <= InTransit /\ (Members \subseteq profile /\ \A c \in Callers : Known(call[c]))'
  BY CalmMoves DEF Consume
<1>2. balance \in [Users -> Nat] /\ earned \in Int /\ spent \in Int
  BY DEF TypeOK
<1>3. PICK taking \in Nat : taking = Takes(u, n)
  BY <1>2, MinOf DEF Takes
<1>4. balance' = [balance EXCEPT ![u] = balance[u] - taking] /\ earned' = earned /\ spent' = spent + taking
  BY <1>3 DEF Consume
<1>5. Total' = Total + (balance'[u] - balance[u])
  BY <1>2, <1>4, OneBalance
<1>6. Total \in Int /\ InTransit \in Int /\ InTransit' \in Int
  BY SumsAreNumbers
<1>7. Total' = Total - taking
  <2>1. balance'[u] = balance[u] - taking /\ balance[u] \in Nat
    BY <1>2, <1>4
  <2> QED
    BY <1>5, <1>6, <2>1
<1>8. Total' + spent' >= earned' + InTransit'
  <2>1. Total + spent >= earned + InTransit
    BY DEF Covered
  <2>2. (Total - taking) + (spent + taking) >= earned + InTransit
    BY <1>2, <1>6, <2>1
  <2>3. (Total - taking) + (spent + taking) >= earned + InTransit'
    <3>1. Total - taking \in Int /\ spent + taking \in Int
      BY <1>2, <1>6
    <3>2. InTransit' <= InTransit
      BY <1>1
    <3> QED
      BY <1>2, <1>6, <2>2, <3>1, <3>2, LessInTransit, Zenon
  <2> QED
    BY <1>4, <1>7, <2>3
<1> QED
  BY <1>1, <1>8 DEF Covered

\* The first leg of a merge puts on the one account what the second takes off
\* the other; in between it is on both.
LEMMA FirstLegCovers ==
    ASSUME IInv, TypeOK', Covered, NEW c \in Callers, CreditSurvivor(c)
    PROVE  Covered'
<1>1. call[c].at = "toSurvivor" /\ Go(c, "fromLoser") /\ UNCHANGED <<profile, earned, spent>>
  BY DEF CreditSurvivor, FirstLeg
<1>2. PICK u \in profile : u = call[c].to
  BY <1>1 DEF Covered, Known
<1>3. PICK n \in Nat : n = call[c].sum
  BY DEF IInv, TypeOK
<1>4. balance \in [Users -> Nat] /\ u \in Users /\ earned \in Int /\ spent \in Int
  BY DEF IInv, TypeOK
<1>5. balance' = [balance EXCEPT ![u] = balance[u] + n]
  <2>1. Max({0, balance[u] + n}) = balance[u] + n
    BY <1>4, MaxOf
  <2> QED
    BY <1>2, <1>3, <2>1 DEF CreditSurvivor, Added
<1>6. call' \in [Callers -> CallType] /\ Only(c) /\ Moved(c, "fromLoser") /\ call'[c].sum = n
  <2>1. "fromLoser" \in CallSteps /\ TypeOK
    BY DEF CallSteps, IInv
  <2>2. call' \in [Callers -> CallType] /\ Only(c) /\ Moved(c, "fromLoser")
    BY <1>1, <2>1, GoMoves
  <2>3. call'[c].sum = n
    BY <1>1, <1>3, <2>1 DEF Go, TypeOK
  <2> QED
    BY <2>2, <2>3
<1>7. Total' = Total + n
  <2>1. Total' = Total + (balance'[u] - balance[u]) /\ Total \in Int
    BY <1>4, <1>5, OneBalance, SumsAreNumbers DEF IInv
  <2>2. balance'[u] = balance[u] + n /\ balance[u] \in Nat
    BY <1>4, <1>5
  <2> QED
    BY <2>1, <2>2
<1>8. InTransit' = InTransit + n /\ InTransit \in Int /\ Total \in Int
  <2>1. InTransit' = InTransit + (Moving'[c] - Moving[c]) /\ InTransit \in Int /\ Total \in Int
    BY <1>6, OneCall, SumsAreNumbers DEF IInv
  <2>2. Moving[c] = 0 /\ Moving'[c] = n
    BY <1>1, <1>6 DEF Moving, Moved
  <2> QED
    BY <2>1, <2>2
<1>9. Total' + spent' >= earned' + InTransit'
  <2>1. Total + spent >= earned + InTransit
    BY DEF Covered
  <2>2. (Total + n) + spent >= earned + (InTransit + n)
    BY <1>4, <1>8, <2>1
  <2> QED
    BY <1>1, <1>7, <1>8, <2>2
<1>10. (Members \subseteq profile /\ \A d \in Callers : Known(call[d]))'
  BY <1>1, <1>6 DEF Covered, Known, Only, Moved
<1> QED
  BY <1>9, <1>10 DEF Covered
\* The second takes off at most what the first has put on.
LEMMA SecondLegCovers ==
    ASSUME IInv, TypeOK', Covered, NEW c \in Callers, DebitLoser(c)
    PROVE  Covered'
<1>1. call[c].at = "fromLoser" /\ Go(c, "identities") /\ UNCHANGED <<profile, earned, spent>>
  BY DEF DebitLoser, SecondLeg
<1>2. PICK n \in Nat : n = call[c].sum
  BY DEF IInv, TypeOK
<1>3. PICK u \in Users : u = call[c].who
  BY <1>1 DEF IInv, Placed, WellPlaced
<1>4. balance \in [Users -> Nat] /\ earned \in Int /\ spent \in Int
  BY DEF IInv, TypeOK
<1>5. PICK left \in Nat : left >= balance[u] - n /\ balance' = [balance EXCEPT ![u] = left]
  <2>1. CASE u \in profile
    <3>1. balance' = [balance EXCEPT ![u] = Max({0, balance[u] + (-n)})]
      BY <1>2, <1>3, <2>1 DEF DebitLoser, Added
    <3>2. balance[u] + (-n) \in Int /\ balance[u] + (-n) = balance[u] - n
      BY <1>4
    <3> QED
      BY <3>1, <3>2, MaxZero, MaxOf
  <2>2. CASE u \notin profile
    <3>1. balance' = balance
      BY <1>3, <2>2 DEF DebitLoser, Added
    <3>2. balance' = [balance EXCEPT ![u] = balance[u]] /\ balance[u] \in Nat /\ balance[u] >= balance[u] - n
      BY <1>4, <3>1
    <3> QED
      BY <3>2
  <2> QED
    BY <2>1, <2>2
<1>6. call' \in [Callers -> CallType] /\ Only(c) /\ Moved(c, "identities")
  <2>1. "identities" \in CallSteps /\ TypeOK
    BY DEF CallSteps, IInv
  <2> QED
    BY <1>1, <2>1, GoMoves
<1>7. Total' = Total + (left - balance[u]) /\ Total \in Int
  <2>1. Total' = Total + (balance'[u] - balance[u]) /\ Total \in Int
    BY <1>4, <1>5, OneBalance, SumsAreNumbers DEF IInv
  <2>2. balance'[u] = left
    BY <1>4, <1>5
  <2> QED
    BY <2>1, <2>2
<1>8. InTransit' = InTransit - n /\ InTransit \in Int
  <2>1. InTransit' = InTransit + (Moving'[c] - Moving[c]) /\ InTransit \in Int
    BY <1>6, OneCall, SumsAreNumbers DEF IInv
  <2>2. Moving[c] = n /\ Moving'[c] = 0
    BY <1>1, <1>2, <1>6 DEF Moving, Moved
  <2> QED
    BY <2>1, <2>2
<1>9. Total' + spent' >= earned' + InTransit'
  <2>1. Total + spent >= earned + InTransit
    BY DEF Covered
  <2>2. PICK b \in Nat : b = balance[u]
    BY <1>4
  <2>3. left >= b - n
    BY <1>5, <2>2
  <2>4. (Total + (left - b)) + spent >= earned + (InTransit - n)
    BY <1>4, <1>7, <1>8, <2>1, <2>3
  <2> QED
    BY <1>1, <1>7, <1>8, <2>2, <2>4
<1>10. (Members \subseteq profile /\ \A d \in Callers : Known(call[d]))'
  BY <1>1, <1>6 DEF Covered, Known, Only, Moved
<1> QED
  BY <1>9, <1>10 DEF Covered

\* A call that is done is calm, and so is one that goes on anywhere but to the
\* debit of a merge.
LEMMA DoneCalms ==
    ASSUME TypeOK, NEW c \in Callers, Done(c)
    PROVE  Calm(c)
BY DoneMoves, IdleIs DEF Calm, Became, Known

\* A call that goes on without coming to hold anything is calm.
LEMMA GoCalms ==
    ASSUME TypeOK, NEW c \in Callers, NEW at \in CallSteps, Go(c, at),
           at \notin {"fromLoser", "toSurvivor", "locked", "redeem", "welcome"}
    PROVE  Calm(c)
<1>1. call' \in [Callers -> CallType] /\ Only(c) /\ call'[c].at = at
  BY GoMoves DEF Moved
<1> QED
  BY <1>1 DEF Calm, Known

\* So is one that becomes something that may be credited.
LEMMA BecomesCalms ==
    ASSUME TypeOK, NEW c \in Callers, NEW k \in CallType, call' = [call EXCEPT ![c] = k],
           k.at # "fromLoser", Known(k)
    PROVE  Calm(c)
BY BecomesMoves DEF Calm, Became

\* And one that begins.
LEMMA BeginCalms ==
    ASSUME TypeOK, NEW c \in Callers, NEW p \in Payments, NEW at \in {"asked", "look", "cancel"}, Begin(c, p, at)
    PROVE  Calm(c)
<1>1. at \in CallSteps
  BY DEF CallSteps
<1>2. call' \in [Callers -> CallType] /\ Only(c) /\ call'[c].at = at
  BY <1>1, BeginMoves
<1> QED
  BY <1>2 DEF Calm, Known

\* Payments: who buys has a profile, and who redeems the coupon.
LEMMA PaymentsCover ==
    ASSUME IInv, TypeOK', Covered, PaymentsNext
    PROVE  Covered'
<1>0. TypeOK
  BY DEF IInv
<1>1. ASSUME NEW p \in Payments, CustomerPays(p) \/ ProviderCancels(p)
      PROVE  Covered'
  <2>1. UNCHANGED purse /\ UNCHANGED call
    BY <1>1 DEF CustomerPays, ProviderCancels
  <2> QED
    BY <1>0, <2>1, CalmKeeps
<1>2. ASSUME NEW c \in Callers, NEW p \in Payments, CreatePayment(c, p) \/ Notification(c, p) \/ Reconcile(c, p)
      PROVE  Covered'
  <2>1. UNCHANGED purse /\ \E at \in {"asked", "look", "cancel"} : Begin(c, p, at)
    BY <1>2 DEF CreatePayment, Notification, Reconcile
  <2>2. Calm(c)
    BY <1>0, <2>1, BeginCalms
  <2> QED
    BY <1>0, <2>1, <2>2, CalmKeeps
<1>3. ASSUME NEW c \in Callers, NEW u \in Users, RedeemCoupon(c, u)
      PROVE  Covered'
  <2>1. PICK k : k = [Idle EXCEPT !.at = "locked", !.who = u]
    OBVIOUS
  <2>2. k \in CallType /\ k.at = "locked" /\ k.who = u
    BY <2>1, IdleIs DEF CallType, CallSteps
  <2>3. UNCHANGED purse /\ call' = [call EXCEPT ![c] = k] /\ u \in profile
    BY <1>3, <2>1 DEF RedeemCoupon, Covered
  <2>4. Calm(c)
    BY <1>0, <2>2, <2>3, BecomesCalms DEF Known
  <2> QED
    BY <1>0, <2>3, <2>4, CalmKeeps
<1>4. ASSUME NEW c \in Callers, RecordPayment(c) \/ CancelPending(c)
      PROVE  Covered'
  <2>1. UNCHANGED purse /\ Done(c)
    BY <1>4 DEF RecordPayment, CancelPending
  <2> QED
    BY <1>0, <2>1, DoneCalms, CalmKeeps
<1>5. ASSUME NEW c \in Callers, CountPrior(c)
      PROVE  Covered'
  <2>1. PICK k : k = [call[c] EXCEPT !.at = "mark", !.sum = Credit(call[c].who)]
    OBVIOUS
  <2>2. call[c] \in CallType /\ Credit(call[c].who) \in Nat
    BY <1>0, AmountsAssumption DEF TypeOK, CallType, Credit
  <2>3. k \in CallType /\ k.at = "mark"
    BY <2>1, <2>2 DEF CallType, CallSteps
  <2>4. UNCHANGED purse /\ call' = [call EXCEPT ![c] = k]
    BY <1>5, <2>1 DEF CountPrior
  <2> QED
    BY <1>0, <2>3, <2>4, BecomesCalms, CalmKeeps DEF Known
<1>6. ASSUME NEW c \in Callers, MarkSucceeded(c)
      PROVE  Covered'
  <2>1. UNCHANGED purse /\ Go(c, "credit") /\ "credit" \in CallSteps
    BY <1>6 DEF MarkSucceeded, CallSteps
  <2>2. Calm(c)
    BY <1>0, <2>1, GoCalms
  <2> QED
    BY <1>0, <2>1, <2>2, CalmKeeps
<1>7. ASSUME NEW c \in Callers, CreditPayment(c)
      PROVE  Covered'
  <2>1. call[c].at = "credit" /\ Go(c, "commission") /\ "commission" \in CallSteps /\ Add(call[c].who, call[c].sum)
    BY <1>7 DEF CreditPayment, CallSteps
  <2>2. Calm(c)
    BY <1>0, <2>1, GoCalms
  <2>3. call[c].who \in profile /\ call[c].sum \in Nat
    <3>1. call[c].who = BuyerOf[call[c].about] /\ call[c].about \in Payments
      BY <2>1 DEF IInv, Placed, WellPlaced, Paying, Marked
    <3> QED
      BY <1>0, <3>1, OwnersAssumption DEF Covered, TypeOK
  <2> QED
    BY <1>0, <2>1, <2>2, <2>3, CreditCovers
<1>8. ASSUME NEW c \in Callers, CheckRedemption(c)
      PROVE  Covered'
  <2>1. UNCHANGED purse /\ call[c].at = "locked" /\ (Done(c) \/ Go(c, "redeem")) /\ "redeem" \in CallSteps
    BY <1>8 DEF CheckRedemption, CallSteps
  <2>2. CASE Done(c)
    BY <1>0, <2>1, <2>2, DoneCalms, CalmKeeps
  <2>3. CASE Go(c, "redeem")
    <3>1. call' \in [Callers -> CallType] /\ Only(c) /\ call'[c].at = "redeem" /\ call'[c].who = call[c].who
      BY <1>0, <2>1, <2>3, GoMoves DEF Moved
    <3>2. call[c].who \in profile
      BY <2>1 DEF Covered, Known
    <3>3. Calm(c)
      BY <3>1, <3>2 DEF Calm, Known
    <3> QED
      BY <1>0, <2>1, <3>3, CalmKeeps
  <2> QED
    BY <2>1, <2>2, <2>3
<1>9. ASSUME NEW c \in Callers, CommitRedemption(c)
      PROVE  Covered'
  <2>1. call[c].at = "redeem" /\ Done(c) /\ Add(call[c].who, Gift)
    BY <1>9 DEF CommitRedemption
  <2>2. call[c].who \in profile
    BY <2>1 DEF Covered, Known
  <2>3. Calm(c)
    BY <1>0, <2>1, DoneCalms
  <2> QED
    BY <1>0, <2>1, <2>2, <2>3, AmountsAssumption, CreditCovers
<1> QED
  BY <1>1, <1>2, <1>3, <1>4, <1>5, <1>6, <1>7, <1>8, <1>9 DEF PaymentsNext, PaymentStep

\* Referrals: the bonus and the payout look for the profile first.
LEMMA ReferralsCover ==
    ASSUME IInv, TypeOK', Covered, ReferralsNext
    PROVE  Covered'
<1>0. TypeOK
  BY DEF IInv
<1>1. ASSUME NEW c \in Callers, NEW u \in Users, NEW l \in Users, Register(c, u, l)
      PROVE  Covered'
  <2>1. PICK k : k = [Idle EXCEPT !.at = "enrol", !.who = u, !.to = l]
    OBVIOUS
  <2>2. k \in CallType /\ k.at = "enrol"
    BY <2>1, IdleIs DEF CallType, CallSteps
  <2>3. UNCHANGED purse /\ call' = [call EXCEPT ![c] = k]
    BY <1>1, <2>1 DEF Register
  <2> QED
    BY <1>0, <2>2, <2>3, BecomesCalms, CalmKeeps DEF Known
<1>2. ASSUME NEW c \in Callers, Enrol(c)
      PROVE  Covered'
  <2>1. Calm(c)
    BY <1>0, <1>2, DoneCalms DEF Enrol
  <2>2. \/ UNCHANGED purse
        \/ call[c].who \in profile /\ Add(call[c].who, Gift)
    BY <1>2 DEF Enrol
  <2> QED
    BY <1>0, <2>1, <2>2, AmountsAssumption, CalmKeeps, CreditCovers
<1>3. ASSUME NEW c \in Callers, PayLeader(c)
      PROVE  Covered'
  <2>1. CASE Done(c)
    BY <1>0, <1>3, <2>1, DoneCalms, CalmKeeps DEF PayLeader
  <2>2. CASE leader[call[c].who] # NoOne
    <3>1. PICK at \in {"notice", "upper"} :
             at = IF Upper[leader[call[c].who]] = NoOne THEN "notice" ELSE "upper"
      OBVIOUS
    <3>2. PICK k : k = [call[c] EXCEPT !.at = at, !.to = leader[call[c].who]]
      OBVIOUS
    <3>3. call[c] \in CallType /\ leader[call[c].who] \in Users \cup {NoOne}
      <4>1. call[c].at = "commission" /\ call[c].who \in Users
        BY <1>3 DEF PayLeader, IInv, Placed, WellPlaced
      <4> QED
        BY <1>0, <4>1 DEF TypeOK, CallType
    <3>4. k \in CallType /\ k.at = at
      BY <3>1, <3>2, <3>3 DEF CallType, CallSteps
    <3>5. UNCHANGED purse /\ call' = [call EXCEPT ![c] = k]
      BY <1>3, <2>2, <3>1, <3>2 DEF PayLeader
    <3> QED
      BY <1>0, <3>1, <3>4, <3>5, BecomesCalms, CalmKeeps DEF Known
  <2> QED
    BY <1>3, <2>1, <2>2 DEF PayLeader
<1>4. ASSUME NEW c \in Callers, PayUpper(c) \/ ReadNotice(c) \/ MarkNotified(c)
      PROVE  Covered'
  <2>1. UNCHANGED purse
    BY <1>4 DEF PayUpper, ReadNotice, MarkNotified
  <2>2. Done(c) \/ \E at \in {"notice", "noticed", "noticeUpper", "noticedUpper"} : Go(c, at)
    BY <1>4 DEF PayUpper, ReadNotice, MarkNotified, AfterNotice
  <2>3. {"notice", "noticed", "noticeUpper", "noticedUpper"} \subseteq CallSteps
    BY DEF CallSteps
  <2>4. Calm(c)
    BY <1>0, <2>2, <2>3, DoneCalms, GoCalms
  <2> QED
    BY <1>0, <2>1, <2>4, CalmKeeps
<1>5. ASSUME NEW l \in Users, RequestWithdrawal(l)
      PROVE  Covered'
  <2>1. UNCHANGED purse /\ UNCHANGED call
    BY <1>5 DEF RequestWithdrawal
  <2> QED
    BY <1>0, <2>1, CalmKeeps
<1>6. ASSUME NEW l \in Users, PayoutTokens(l)
      PROVE  Covered'
  <2>1. l \in profile /\ Add(l, Worth(Due(l))) /\ UNCHANGED call
    BY <1>6 DEF PayoutTokens, Payable
  <2>2. Worth(Due(l)) \in Nat
    <3>1. Due(l) \subseteq commissions /\ IsFiniteSet(commissions)
      BY <1>0 DEF Due, TypeOK, IInv, OnePlace
    <3> QED
      BY <3>1, FS_Subset, FS_CardinalityType DEF Worth
  <2> QED
    BY <1>0, <2>1, <2>2, CreditCovers
<1>7. ASSUME NEW i \in DOMAIN claims, NEW d \in {"paid", "rejected"}, ProcessWithdrawal(i, d)
      PROVE  Covered'
  <2>1. UNCHANGED purse /\ UNCHANGED call
    BY <1>7 DEF ProcessWithdrawal
  <2> QED
    BY <1>0, <2>1, CalmKeeps
<1> QED
  BY <1>1, <1>2, <1>3, <1>4, <1>5, <1>6, <1>7 DEF ReferralsNext, ReferralStep

\* Accounts: the welcome goes with the profile, and a merge ends on an account
\* that has one.
LEMMA AccountsCover ==
    ASSUME IInv, TypeOK', Covered, AccountsNext
    PROVE  Covered'
<1>0. TypeOK
  BY DEF IInv
<1>1. ASSUME NEW t \in Tasks, AddTask(t) \/ TaskFails(t)
      PROVE  Covered'
  <2>1. UNCHANGED purse /\ UNCHANGED call
    BY <1>1 DEF AddTask, TaskFails
  <2> QED
    BY <1>0, <2>1, CalmKeeps
<1>2. ASSUME NEW t \in Tasks, DeductTask(t)
      PROVE  Covered'
  <2>1. Consume(OwnerOf[t], Cost) /\ UNCHANGED call
    BY <1>2 DEF DeductTask
  <2> QED
    BY <1>0, <2>1, OwnersAssumption, AmountsAssumption, ConsumeCovers
<1>3. ASSUME ReadTasks \/ MarkCompleted \/ RunDies
      PROVE  Covered'
  <2>1. UNCHANGED purse /\ UNCHANGED call
    BY <1>3 DEF ReadTasks, MarkCompleted, RunDies
  <2> QED
    BY <1>0, <2>1, CalmKeeps
<1>4. ASSUME NEW c \in Callers, NEW u \in Users, ClaimWelcome(c, u)
      PROVE  Covered'
  <2>1. PICK k : k = [Idle EXCEPT !.at = "welcome", !.who = u]
    OBVIOUS
  <2>2. k \in CallType /\ k.at = "welcome" /\ k.who = u
    BY <2>1, IdleIs DEF CallType, CallSteps
  <2>3. UNCHANGED purse /\ call' = [call EXCEPT ![c] = k] /\ u \in profile
    BY <1>4, <2>1 DEF ClaimWelcome
  <2>4. Calm(c)
    BY <1>0, <2>2, <2>3, BecomesCalms DEF Known
  <2> QED
    BY <1>0, <2>3, <2>4, CalmKeeps
<1>5. ASSUME NEW c \in Callers, NEW loser \in Users, NEW survivor \in Users, MergeAccounts(c, loser, survivor)
      PROVE  Covered'
  <2>1. PICK at \in {"toSurvivor", "identities"} : at = IF balance[loser] > 0 THEN "toSurvivor" ELSE "identities"
    OBVIOUS
  <2>2. PICK k : k = [Idle EXCEPT !.at = at, !.who = loser, !.to = survivor, !.sum = balance[loser]]
    OBVIOUS
  <2>3. balance[loser] \in Nat
    BY <1>0 DEF TypeOK
  <2>4. k \in CallType /\ k.at = at /\ k.to = survivor
    BY <2>1, <2>2, <2>3, IdleIs DEF CallType, CallSteps
  <2>5. UNCHANGED purse /\ call' = [call EXCEPT ![c] = k] /\ survivor \in profile
    <3>1. UNCHANGED purse /\ call' = [call EXCEPT ![c] = k]
      BY <1>5, <2>1, <2>2 DEF MergeAccounts
    <3>2. survivor \in Members
      BY <1>5 DEF MergeAccounts
    <3> QED
      BY <3>1, <3>2 DEF Covered
  <2>6. Calm(c)
    BY <1>0, <2>1, <2>4, <2>5, BecomesCalms DEF Known
  <2> QED
    BY <1>0, <2>5, <2>6, CalmKeeps
<1>6. ASSUME NEW c \in Callers, CreditWelcome(c)
      PROVE  Covered'
  <2>1. call[c].at = "welcome" /\ Done(c) /\ Add(call[c].who, Gift)
    BY <1>6 DEF CreditWelcome
  <2>2. call[c].who \in profile
    BY <2>1 DEF Covered, Known
  <2>3. Calm(c)
    BY <1>0, <2>1, DoneCalms
  <2> QED
    BY <1>0, <2>1, <2>2, <2>3, AmountsAssumption, CreditCovers
<1>7. ASSUME NEW c \in Callers, MoveIdentities(c)
      PROVE  Covered'
  <2>1. UNCHANGED purse /\ Done(c)
    BY <1>7 DEF MoveIdentities
  <2> QED
    BY <1>0, <2>1, DoneCalms, CalmKeeps
<1> QED
  BY <1>1, <1>2, <1>3, <1>4, <1>5, <1>6, <1>7, FirstLegCovers, SecondLegCovers DEF AccountsNext, AccountStep

\* Nothing is promised at first, and nothing is there.
LEMMA InitCovers == ASSUME Init PROVE Covered
<1>1. balance \in [Users -> Int] /\ (\A u \in Users : balance[u] = 0) /\ earned = 0 /\ spent = 0
  BY DEF Init
<1>2. \A c \in Callers : call[c] = Idle
  BY DEF Init
<1>3. Total = 0
  BY <1>1, TotalIsSum, FiniteAssumption, SumOfZeros
<1>4. \A c \in Callers : Moving[c] = 0
  BY <1>2, IdleIs DEF Moving
<1>5. InTransit = 0
  BY <1>4, FiniteAssumption, SumOfZeros DEF InTransit
<1>6. Members \subseteq profile /\ \A c \in Callers : Known(call[c])
  BY <1>2, IdleIs DEF Init, Known
<1> QED
  BY <1>1, <1>3, <1>5, <1>6 DEF Covered

\* What was promised to people and not yet taken is on the balances, and what a
\* merge has on both accounts is there once more: whatever is interleaved, whatever
\* call is cut short between two statements, no tokens are lost on the way
\* (identity.service.ts:338, referral.service.ts:432).
THEOREM NothingIsBurnt == Spec => []NothingBurns
<1>1. IInv /\ IInv' /\ Covered /\ [Next]_vars => Covered'
  <2> SUFFICES ASSUME IInv, IInv', Covered, [Next]_vars PROVE Covered'
    OBVIOUS
  <2>1. TypeOK /\ TypeOK'
    BY DEF IInv
  <2>2. CASE UNCHANGED vars
    BY <2>1, <2>2, CalmKeeps DEF vars
  <2>3. ASSUME NEW c \in Callers, CallFails(c)
        PROVE  Covered'
    <3>1. UNCHANGED purse /\ Done(c)
      BY <2>3 DEF CallFails
    <3> QED
      BY <2>1, <3>1, DoneCalms, CalmKeeps
  <2> QED
    BY <2>1, <2>2, <2>3, PaymentsCover, ReferralsCover, AccountsCover DEF Next
<1>2. IInv /\ Covered => NothingBurns
  <2> SUFFICES ASSUME TypeOK, Covered PROVE NothingBurns
    BY DEF IInv
  <2>1. InTransit >= 0
    BY SumsAreNumbers, FiniteAssumption, SumIsNatural DEF InTransit
  <2>2. Total \in Int /\ InTransit \in Int /\ earned \in Int /\ spent \in Int
    BY SumsAreNumbers DEF TypeOK
  <2>3. Total + spent >= earned + InTransit
    BY DEF Covered
  <2> QED
    BY <2>1, <2>2, <2>3 DEF NothingBurns
<1> QED
  BY <1>1, <1>2, InitCovers, MoneyInvariant, PTL DEF Spec
=============================================================================
