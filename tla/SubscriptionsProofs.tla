-------------------------- MODULE SubscriptionsProofs --------------------------
(***************************************************************************)
(* Proofs about Subscriptions, for any accounts, orders, executions, dates *)
(* and bounds: types, periods in line, nothing given twice, no mark over a  *)
(* period, and the trust of a phone without the network.                   *)
(***************************************************************************)
EXTENDS Subscriptions, FiniteSetTheorems, WellFoundedInduction, TLAPS

\* The periods of an account begin at the latest here, and go on by what is bought or given back.
Base == MaxTime + Week + MaxTrial
Bought(a) == {p \in periods[a] : p.source # "compensation"}
GivenBack(a) == {p \in periods[a] : p.source = "compensation"}

\* The dates of the switch.
Switch ==
  /\ settings.activated \in Never..now /\ settings.deactivated \in Never..now
  /\ settings.grace \in Never..(MaxTime + Week)
  /\ IF settings.enabled THEN settings.deactivated <= settings.activated ELSE settings.activated <= settings.deactivated

\* The periods of an account end where its subscriber says, one after the other; a purge is planned after them.
LineOK(a) ==
  /\ \A p \in periods[a] : 0 <= p.start /\ p.end <= sub[a].end
  /\ \A p, q \in periods[a] : p # q => p.end <= q.start \/ q.end <= p.start
  /\ IF periods[a] = {} THEN sub[a].end = Never ELSE \E p \in periods[a] : p.end = sub[a].end
  /\ sub[a].purgeAfter # Never => sub[a].end <= now

\* As many periods as were bought, and the free phases given back, each once, in their order.
LengthOK(a) ==
  /\ IsFiniteSet(Bought(a)) /\ Cardinality(Bought(a)) <= MaxPeriods
  /\ periods[a] # {} => Bought(a) # {}
  /\ \A p \in GivenBack(a) : \E t \in 0..MaxTime : p.reason = <<t>> /\ t <= settings.activated
  /\ \A p, q \in GivenBack(a) : p.reason = q.reason => p = q
  /\ \E c \in 0..MaxTime : /\ sub[a].end <= Base + Cardinality(Bought(a)) * Duration + c
                           /\ c = 0 \/ \E p \in GivenBack(a) : p.reason = <<c>>

\* A compensation in the queue is of a phase that comes after those given back before it.
JobOK(j) ==
  /\ j.kind # "compensate" => j.acc \in Accounts
  /\ j.kind = "compensate" =>
       /\ j.due >= 0 /\ j.at <= settings.activated /\ j.at <= MaxTime
       /\ \A a \in Accounts : \A p \in GivenBack(a) :
            j.at = settings.activated /\ p.reason # <<j.at>> => \E t \in 0..j.due : p.reason = <<t>>

\* An execution has the row it has taken for itself, and the account it works for.
WorkOK(w) ==
  /\ work[w].job # None => work[w].job \in jobs /\ \A v \in Workers : work[v].job = work[w].job => v = w
  /\ work[w].at \notin {"idle", "compensate"} => work[w].acc \in Accounts
  /\ work[w].at = "compensate" => work[w].job # None /\ work[w].job.kind = "compensate"
  /\ work[w].since <= now

\* A code gives one period, to the one who redeemed it.
CodeOK(c) ==
  /\ \A a \in Accounts : \A p \in periods[a] :
       p.source = "code" /\ p.reason = c =>
         /\ codes[c].status = "redeemed" /\ codes[c].by = a
         /\ \A q \in periods[a] : q.source = "code" /\ q.reason = c => q = p
  /\ codes[c].status = "redeemed" =>
       codes[c].by \in Accounts /\ \E p \in periods[codes[c].by] : p.source = "code" /\ p.reason = c

Inv ==
  /\ TypeOK /\ Switch
  /\ \A a \in Accounts : LineOK(a) /\ LengthOK(a)
  /\ \A j \in jobs : JobOK(j)
  /\ \A w \in Workers : WorkOK(w)
  /\ \A c \in Codes : CodeOK(c)
-----------------------------------------------------------------------------
(* Dates                                                                   *)

Latest == Base + MaxPeriods * (Duration + MaxTime)

\* The constants, one by one.
LEMMA Constants ==
  /\ Week \in Nat /\ Duration \in Nat /\ PerPayment \in Nat /\ Week > 0 /\ Duration > 0 /\ PerPayment > 0
  /\ MaxRetention \in Nat /\ MaxTrial \in Nat /\ MaxTime \in Nat /\ MaxPeriods \in Nat /\ MaxMoves \in Nat /\
          MaxFaults \in Nat
<1>1. {Week, Duration, PerPayment} \subseteq Nat \ {0}
  BY SubscriptionsAssumption
<1>2. {MaxRetention, MaxTrial, MaxTime, MaxPeriods, MaxMoves, MaxFaults} \subseteq Nat
  BY SubscriptionsAssumption
<1>3. Week \in Nat \ {0} /\ Duration \in Nat \ {0} /\ PerPayment \in Nat \ {0}
  BY <1>1
<1>4. MaxRetention \in Nat /\ MaxTrial \in Nat /\ MaxTime \in Nat /\ MaxPeriods \in Nat /\ MaxMoves \in Nat /\
        MaxFaults \in Nat
  BY <1>2
<1> QED BY <1>3, <1>4

\* Products of naturals.
LEMMA Products ==
  ASSUME NEW m \in Nat, NEW n \in Nat, NEW d \in Nat, n <= m
  PROVE  /\ m * d \in Nat /\ n * d \in Nat /\ n * d <= m * d /\ (n + 1) * d = n * d + d
         /\ (m > 0 => d <= m * d)
<1>1. m * d \in Nat /\ n * d \in Nat /\ (m - n) * d \in Nat /\ (n + 1) * d = n * d + d
  OBVIOUS
<1>2. m * d = n * d + (m - n) * d
  OBVIOUS
<1>3. ASSUME m > 0 PROVE d <= m * d
  <2>1. m - 1 \in Nat /\ (m - 1) * d \in Nat
    BY <1>3
  <2>2. m * d = (m - 1) * d + d
    OBVIOUS
  <2> QED BY <1>1, <2>1, <2>2
<1> QED BY <1>1, <1>2, <1>3

\* No period ends later.
LEMMA Horizon ==
  ASSUME NEW n \in 0..MaxPeriods, NEW c \in 0..MaxTime, c > 0 => n > 0
  PROVE  /\ Base \in Nat /\ Latest \in Nat /\ n * Duration \in Nat
         /\ Base + n * Duration + c <= Latest /\ Base + MaxRetention <= Latest + MaxRetention
<1>1. n \in Nat /\ n <= MaxPeriods /\ Base \in Nat
  BY Constants DEF Base
<1>2. /\ MaxPeriods * Duration \in Nat /\ n * Duration \in Nat /\ n * Duration <= MaxPeriods * Duration
      /\ MaxPeriods * MaxTime \in Nat /\ (MaxPeriods > 0 => MaxTime <= MaxPeriods * MaxTime)
  BY <1>1, Constants, Products
<1>3. MaxPeriods * (Duration + MaxTime) = MaxPeriods * Duration + MaxPeriods * MaxTime
  BY Constants
<1>4. c <= MaxPeriods * MaxTime
  BY <1>1, <1>2, Constants
<1> QED BY <1>1, <1>2, <1>3, <1>4, Constants DEF Latest

\* The greatest of a set that has one.
LEMMA MaxIs ==
  ASSUME NEW S, NEW m \in S, \A y \in S : y \in Int /\ m >= y
  PROVE  Max(S) = m
<1>1. Max(S) \in S /\ \A y \in S : Max(S) >= y
  BY DEF Max
<1>2. Max(S) >= m /\ m >= Max(S) /\ m \in Int /\ Max(S) \in Int
  BY <1>1
<1> QED BY <1>2

\* And one more.
LEMMA MaxAlso ==
  ASSUME NEW S, NEW m \in S, \A y \in S : y \in Int /\ m >= y, NEW x \in Int, NEW c \in BOOLEAN
  PROVE  \E k \in S \union (IF c THEN {x} ELSE {}) :
           \A y \in S \union (IF c THEN {x} ELSE {}) : y \in Int /\ k >= y
<1>1. CASE c /\ x > m
  <2>1. x \in S \union (IF c THEN {x} ELSE {}) /\ \A y \in S \union (IF c THEN {x} ELSE {}) : y \in Int /\ x >= y
    BY <1>1
  <2> QED BY <2>1
<1>2. CASE ~c \/ ~(x > m)
  <2>1. m \in S \union (IF c THEN {x} ELSE {}) /\ \A y \in S \union (IF c THEN {x} ELSE {}) : y \in Int /\ m >= y
    BY <1>2
  <2> QED BY <2>1
<1> QED BY <1>1, <1>2

\* The later of the end of the trial and of that of the grace.
LEMMA TrialMax ==
  ASSUME NEW l \in Nat, NEW g \in Int, NEW e \in BOOLEAN, NEW m, m = Max({0 + l} \union IF e THEN {g} ELSE {})
  PROVE  m \in {l, g} /\ m >= l /\ (e => m >= g) /\ m \in Int
<1>1. PICK d : d = l
  OBVIOUS
<1>2. d \in Nat /\ 0 + l = d
  BY <1>1
<1>3. d \in {d} /\ \A y \in {d} : y \in Int /\ d >= y
  BY <1>2
<1>4. PICK k \in {d} \union (IF e THEN {g} ELSE {}) :
        \A y \in {d} \union (IF e THEN {g} ELSE {}) : y \in Int /\ k >= y
  <2>1. CASE e /\ g > d
    <3>1. g \in {d} \union (IF e THEN {g} ELSE {})
      BY <2>1
    <3>2. \A y \in {d} \union (IF e THEN {g} ELSE {}) : y \in Int /\ g >= y
      BY <1>2, <2>1
    <3> QED BY <3>1, <3>2
  <2>2. CASE ~(e /\ g > d)
    <3>1. d \in {d} \union (IF e THEN {g} ELSE {})
      OBVIOUS
    <3>2. \A y \in {d} \union (IF e THEN {g} ELSE {}) : y \in Int /\ d >= y
      BY <1>2, <2>2
    <3> QED BY <3>1, <3>2
  <2> QED BY <2>1, <2>2
<1>5. Max({d} \union (IF e THEN {g} ELSE {})) = k
  BY <1>4, MaxIs
<1>6. m = k
  BY <1>2, <1>5
<1>7. k \in {d, g} /\ k >= d /\ (e => k >= g) /\ k \in Int
  BY <1>4
<1> QED BY <1>1, <1>6, <1>7

\* The end of the trial is a date, after the grace.
LEMMA TrialIs ==
  ASSUME TypeOK, Switch
  PROVE  /\ TrialEndsAt(0) \in 0..Base /\ TrialEndsAt(0) >= settings.trial /\
          (settings.enabled => TrialEndsAt(0) >= settings.grace)
         /\ TrialEndsAt(0) \in {settings.trial, settings.grace}
<1>1. PICK l, g, e, m : l = settings.trial /\ g = settings.grace /\ e = settings.enabled /\ m = TrialEndsAt(0)
  OBVIOUS
<1>2. g \in Int /\ g <= Base /\ e \in BOOLEAN /\ l \in Nat /\ l <= Base /\ Base \in Nat
  <2>1. g \in Never..(MaxTime + Week) /\ e \in BOOLEAN /\ l \in 0..MaxTrial
    BY <1>1 DEF Switch, TypeOK
  <2>2. g \in Int /\ g <= MaxTime + Week
    BY <2>1, Constants DEF Never
  <2> QED BY <1>1, <2>1, <2>2, Constants DEF Base
<1>3. m = Max({0 + l} \union IF e THEN {g} ELSE {})
  BY <1>1 DEF TrialEndsAt
<1>4. m \in {l, g} /\ m >= l /\ (e => m >= g) /\ m \in Int
  BY <1>2, <1>3, TrialMax
<1> QED BY <1>1, <1>2, <1>4

\* A new period begins after the last, and not in the past.
LEMMA StartIs ==
  ASSUME TypeOK, Switch, NEW a \in Accounts
  PROVE  /\ NextPeriodStart(a) \in Nat /\ NextPeriodStart(a) >= now /\ NextPeriodStart(a) >= sub[a].end
         /\ NextPeriodStart(a) <= Base \/ NextPeriodStart(a) = sub[a].end
<1>1. /\ now \in 0..MaxTime /\ sub[a].end \in Times /\ settings.grace \in Never..(MaxTime + Week)
      /\ TrialEndsAt(0) \in 0..Base
  BY TrialIs DEF TypeOK, Switch
<1>2. Times \subseteq Int /\ Base \in Nat /\ MaxTime <= Base /\ MaxTime + Week <= Base
  BY Constants DEF Times, Base, Never
<1>3. /\ now \in Nat /\ sub[a].end \in Int /\ settings.grace \in Int /\ TrialEndsAt(0) \in Int
      /\ now <= Base /\ settings.grace <= Base /\ TrialEndsAt(0) <= Base
  <2>1. now \in Nat /\ now <= Base
    BY <1>1, <1>2, Constants
  <2>2. settings.grace \in Int /\ settings.grace <= Base
    BY <1>1, <1>2, Constants DEF Never
  <2>3. TrialEndsAt(0) \in Int /\ TrialEndsAt(0) <= Base
    BY <1>1, <1>2
  <2> QED BY <1>1, <1>2, <2>1, <2>2, <2>3
<1>4. PICK n, e, g, t : n = now /\ e = sub[a].end /\ g = settings.grace /\ t = TrialEndsAt(0)
  OBVIOUS
<1>5. PICK G \in BOOLEAN, T \in BOOLEAN :
        G = (Phase(now) = "grace") /\ T = (settings.model = "TRIAL" /\ TrialEndsAt(0) > now)
  OBVIOUS
<1>6. n \in Int /\ e \in Int /\ g \in Int /\ t \in Int
  BY <1>3, <1>4
<1>7. PICK i \in {n, e} : \A y \in {n, e} : y \in Int /\ i >= y
  <2>1. CASE n >= e
    BY <1>6, <2>1
  <2>2. CASE ~(n >= e)
    BY <1>6, <2>2
  <2> QED BY <2>1, <2>2
<1>8. PICK S : S = {n, e}
  OBVIOUS
<1>9. PICK l \in S \union (IF G THEN {g} ELSE {}) : \A y \in S \union (IF G THEN {g} ELSE {}) : y \in Int /\ l >= y
  <2>1. i \in S /\ \A y \in S : y \in Int /\ i >= y
    BY <1>7, <1>8
  <2>2. CASE G /\ g > i
    BY <1>6, <2>1, <2>2
  <2>3. CASE ~(G /\ g > i)
    BY <1>6, <2>1, <2>3
  <2> QED BY <2>2, <2>3
<1>10. PICK R : R = S \union (IF G THEN {g} ELSE {})
  OBVIOUS
<1>11. PICK m \in R \union (IF T THEN {t} ELSE {}) : \A y \in R \union (IF T THEN {t} ELSE {}) : y \in Int /\ m >= y
  <2>1. l \in R /\ \A y \in R : y \in Int /\ l >= y
    BY <1>9, <1>10
  <2>2. CASE T /\ t > l
    BY <1>6, <2>1, <2>2
  <2>3. CASE ~(T /\ t > l)
    BY <1>6, <2>1, <2>3
  <2> QED BY <2>2, <2>3
<1>12. Max(R \union (IF T THEN {t} ELSE {})) = m
  BY <1>11, MaxIs
<1>13. NextPeriodStart(a) = m
  BY <1>4, <1>5, <1>8, <1>10, <1>12 DEF NextPeriodStart
<1>14. m \in {n, e, g, t} /\ m >= n /\ m >= e
  BY <1>8, <1>10, <1>11
<1>15. m \in Nat
  BY <1>3, <1>4, <1>6, <1>14
<1> QED BY <1>3, <1>4, <1>13, <1>14, <1>15
-----------------------------------------------------------------------------
(* A new period                                                            *)

\* What appendPeriod writes: a period after all those of the account.
Appends(a, p) ==
  /\ p.start \in Nat /\ p.end \in Nat /\ p.start < p.end /\ p.start >= now /\ p.start >= sub[a].end
  /\ p.start <= Base \/ p.start = sub[a].end
  /\ p \notin periods[a] /\ p = [start |-> p.start, end |-> p.end, source |-> p.source, reason |-> p.reason]
  /\ periods' = [periods EXCEPT ![a] = periods[a] \union {p}]
  /\ sub' = [sub EXCEPT ![a] = [end |-> p.end, purgeAfter |-> Never, purged |-> FALSE]]
  /\ jobs' = jobs \union {[kind |-> "expire", acc |-> a, at |-> p.end, due |-> p.end]}

\* And appendPeriod writes that.
LEMMA Appended ==
  ASSUME Inv, NEW a \in Accounts, NEW length \in Nat, length > 0, NEW source, NEW reason,
         AppendPeriod(a, length, source, reason)
  PROVE  \E p : Appends(a, p) /\ p.source = source /\ p.reason = reason /\ p.end = p.start + length
<1>1. PICK st : st = NextPeriodStart(a)
  OBVIOUS
<1>2. st \in Nat /\ st >= now /\ st >= sub[a].end /\ (st <= Base \/ st = sub[a].end)
  BY <1>1, StartIs DEF Inv
<1>3. PICK p : p = [start |-> st, end |-> st + length, source |-> source, reason |-> reason]
  OBVIOUS
<1>4. /\ p.start = st /\ p.end = st + length /\ p.source = source /\ p.reason = reason
      /\ p = [start |-> p.start, end |-> p.end, source |-> p.source, reason |-> p.reason]
  BY <1>3
<1>5. p.start \in Nat /\ p.end \in Nat /\ p.start < p.end
  BY <1>2, <1>4
<1>6. p \notin periods[a]
  <2> SUFFICES ASSUME p \in periods[a] PROVE FALSE
    OBVIOUS
  <2>1. p.end <= sub[a].end /\ sub[a].end \in Int
    BY Constants DEF Inv, LineOK, TypeOK, Times, Never
  <2> QED BY <1>2, <1>4, <1>5, <2>1
<1>7. /\ periods' = [periods EXCEPT ![a] = periods[a] \union {p}]
      /\ sub' = [sub EXCEPT ![a] = [end |-> p.end, purgeAfter |-> Never, purged |-> FALSE]]
      /\ jobs' = jobs \union {[kind |-> "expire", acc |-> a, at |-> p.end, due |-> p.end]}
  BY <1>1, <1>3, <1>4 DEF AppendPeriod, Job
<1> QED BY <1>2, <1>4, <1>5, <1>6, <1>7 DEF Appends

\* A period that is bought, or given, leaves room for the others.
LEMMA BoughtLength ==
  ASSUME Inv, NEW a \in Accounts, NEW p, Appends(a, p), p.source \in Sources \ {"compensation"}, HasRoom(a),
         p.end = p.start + Duration, UNCHANGED settings
  PROVE  LengthOK(a)'
<1>1. LengthOK(a) /\ periods \in [Accounts -> SUBSET Period]
  BY DEF Inv, TypeOK
<1>2. PICK B, G : B = Bought(a) /\ G = GivenBack(a)
  OBVIOUS
<1>3. periods'[a] = periods[a] \union {p} /\ sub'[a].end = p.end
  BY <1>1 DEF Appends, Inv, TypeOK
<1>4. Bought(a)' = B \union {p} /\ GivenBack(a)' = G /\ p \notin B
  BY <1>2, <1>3 DEF Bought, GivenBack, Appends, Sources
<1>5. IsFiniteSet(B) /\ Cardinality(B) \in Nat /\ Cardinality(B) < MaxPeriods
  BY <1>1, <1>2, FS_CardinalityType DEF LengthOK, HasRoom, Bought
<1>6. IsFiniteSet(B \union {p}) /\ Cardinality(B \union {p}) = Cardinality(B) + 1
  BY <1>4, <1>5, FS_AddElement
<1>7. PICK c, n : /\ c \in 0..MaxTime /\ n = Cardinality(B) * Duration /\ sub[a].end <= Base + n + c
                  /\ c = 0 \/ \E q \in G : q.reason = <<c>>
  BY <1>1, <1>2 DEF LengthOK
<1>8. p.end <= Base + Cardinality(B \union {p}) * Duration + c
  <2>1. PICK m : m = Cardinality(B \union {p}) * Duration
    OBVIOUS
  <2>2. n \in Nat /\ m = n + Duration /\ Base \in Nat /\ c \in Nat
    BY <1>5, <1>6, <1>7, <2>1, Constants, Products, Horizon DEF Base
  <2>3. p.start <= Base \/ p.start <= Base + n + c
    <3>1. p.start <= Base \/ p.start = sub[a].end
      BY DEF Appends
    <3>2. sub[a].end <= Base + n + c
      BY <1>7
    <3> QED BY <3>1, <3>2
  <2>4. p.start <= Base + n + c /\ p.start \in Nat
    BY <2>2, <2>3 DEF Appends
  <2> QED BY <2>1, <2>2, <2>4, Constants
<1>9. \A q \in G : \E t \in 0..MaxTime : q.reason = <<t>> /\ t <= settings'.activated
  BY <1>1, <1>2 DEF LengthOK
<1>10. \A q, r \in G : q.reason = r.reason => q = r
  BY <1>1, <1>2 DEF LengthOK
<1>11. Cardinality(B \union {p}) <= MaxPeriods
  BY <1>5, <1>6, Constants
<1>12. B \union {p} # {}
  OBVIOUS
<1> QED BY <1>3, <1>4, <1>6, <1>7, <1>8, <1>9, <1>10, <1>11, <1>12 DEF LengthOK

\* And one that gives back a free phase takes its length.
LEMMA GivenBackLength ==
  ASSUME Inv, NEW a \in Accounts, NEW p, Appends(a, p), p.source = "compensation", UNCHANGED settings,
         NEW j \in jobs, j.kind = "compensate", StillActivated(j), a \in CompensationDue(j),
         p.reason = <<j.at>>, p.end = p.start + (j.at - j.due)
  PROVE  LengthOK(a)'
<1>1. LengthOK(a) /\ periods \in [Accounts -> SUBSET Period] /\ JobOK(j)
  BY DEF Inv, TypeOK
<1>2. PICK B, G : B = Bought(a) /\ G = GivenBack(a)
  OBVIOUS
<1>3. periods'[a] = periods[a] \union {p} /\ sub'[a].end = p.end
  BY <1>1 DEF Appends, Inv, TypeOK
<1>4. Bought(a)' = B /\ GivenBack(a)' = G \union {p} /\ p \notin G
  BY <1>2, <1>3 DEF Bought, GivenBack, Appends
<1>5. IsFiniteSet(B) /\ Cardinality(B) \in Nat /\ Cardinality(B) <= MaxPeriods
  BY <1>1, <1>2, FS_CardinalityType DEF LengthOK
<1>6. /\ j.at \in Nat /\ j.due \in Nat /\ j.at > j.due /\ j.at <= MaxTime /\ j.at \in 0..MaxTime
      /\ settings.activated = j.at
  <2>1. j \in JobRow
    BY DEF Inv, TypeOK
  <2>2. j.at \in Int /\ j.due \in Int
    BY <2>1, Constants DEF JobRow, Times, Never
  <2>3. j.due >= 0 /\ j.at <= MaxTime /\ j.at > j.due /\ settings.activated = j.at
    BY <1>1 DEF JobOK, StillActivated
  <2> QED BY <2>2, <2>3, Constants
<1>7. PICK c, n : /\ c \in 0..MaxTime /\ n = Cardinality(B) * Duration /\ sub[a].end <= Base + n + c
                  /\ c = 0 \/ \E q \in G : q.reason = <<c>>
  BY <1>1, <1>2 DEF LengthOK
<1>8. \A q \in G : q.reason # <<j.at>>
  BY <1>2 DEF CompensationDue, GivenBack
<1>9. c <= j.due
  <2>1. CASE c = 0
    BY <1>6, <2>1
  <2>2. ASSUME NEW q \in G, q.reason = <<c>> PROVE c <= j.due
    <3>1. PICK t \in 0..j.due : q.reason = <<t>>
      BY <1>1, <1>2, <1>6, <1>8, <2>2 DEF JobOK
    <3>2. <<c>>[1] = c /\ <<t>>[1] = t
      OBVIOUS
    <3> QED BY <1>6, <2>2, <3>1, <3>2
  <2> QED BY <1>7, <2>1, <2>2
<1>10. p.end <= Base + Cardinality(B) * Duration + j.at
  <2>1. n \in Nat /\ Base \in Nat /\ c \in Nat
    BY <1>5, <1>7, Constants, Products DEF Base
  <2>2. p.start <= Base \/ p.start <= Base + n + c
    <3>1. p.start <= Base \/ p.start = sub[a].end
      BY DEF Appends
    <3>2. sub[a].end <= Base + n + c
      BY <1>7
    <3> QED BY <3>1, <3>2
  <2>3. p.start \in Nat /\ p.start <= Base + n + j.due
    BY <1>6, <1>9, <2>1, <2>2 DEF Appends
  <2>4. p.start + (j.at - j.due) <= Base + n + j.at
    BY <1>6, <2>1, <2>3
  <2> QED BY <1>7, <2>4
<1>11. \A q \in G \union {p} : \E t \in 0..MaxTime : q.reason = <<t>> /\ t <= settings'.activated
  <2>1. \A q \in G : \E t \in 0..MaxTime : q.reason = <<t>> /\ t <= settings'.activated
    BY <1>1, <1>2 DEF LengthOK
  <2>2. p.reason = <<j.at>> /\ j.at <= settings'.activated
    BY <1>6
  <2> QED BY <1>6, <2>1, <2>2
<1>12. \A q, r \in G \union {p} : q.reason = r.reason => q = r
  BY <1>1, <1>2, <1>8 DEF LengthOK
<1>13. B # {}
  BY <1>1, <1>2 DEF LengthOK, CompensationDue
<1> QED BY <1>3, <1>4, <1>5, <1>6, <1>10, <1>11, <1>12, <1>13 DEF LengthOK

\* The longest line still fits the dates.
LEMMA EndFits ==
  ASSUME NEW B, IsFiniteSet(B), Cardinality(B) <= MaxPeriods, B # {}, NEW c \in 0..MaxTime, NEW e \in Int,
         e <= Base + Cardinality(B) * Duration + c
  PROVE  e <= Latest /\ Latest \in Nat
<1>1. Cardinality(B) \in Nat /\ Cardinality(B) # 0
  BY FS_CardinalityType, FS_EmptySet
<1>2. PICK n : n = Cardinality(B)
  OBVIOUS
<1>3. n \in 0..MaxPeriods /\ n > 0
  BY <1>1, <1>2, Constants
<1>4. PICK m : m = n * Duration
  OBVIOUS
<1>5. Base \in Nat /\ Latest \in Nat /\ m \in Nat /\ Base + m + c <= Latest
  BY <1>3, <1>4, Horizon
<1>6. e <= Base + m + c
  BY <1>2, <1>4
<1> QED BY <1>5, <1>6, Constants

\* A step that adds a period keeps the invariant.
LEMMA AppendKeeps ==
  ASSUME Inv, NEW a \in Accounts, NEW p, Appends(a, p), p.source \in Sources,
         p.reason \in {<<t>> : t \in Times} \union Codes,
         p.source = "compensation" => p.reason = <<settings.activated>>,
         LengthOK(a)', UNCHANGED <<now, settings, work, moves, faults>>,
         codes' \in [Codes -> [status : {"none", "available", "redeemed", "revoked", "expired"},
                               by : Accounts \union {None}]],
         \A c \in Codes : CodeOK(c)'
  PROVE  Inv'
<1>1. /\ TypeOK /\ periods \in [Accounts -> SUBSET Period] /\ \A b \in Accounts : LineOK(b) /\ LengthOK(b)
      /\ sub \in [Accounts -> [end : Times, purgeAfter : Times, purged : BOOLEAN]]
      /\ jobs \subseteq JobRow
  BY DEF Inv, TypeOK
<1>2. /\ periods'[a] = periods[a] \union {p} /\ \A b \in Accounts : b # a => periods'[b] = periods[b]
      /\ sub'[a] = [end |-> p.end, purgeAfter |-> Never, purged |-> FALSE]
      /\ \A b \in Accounts : b # a => sub'[b] = sub[b]
      /\ sub'[a].end = p.end /\ sub'[a].purgeAfter = Never
  BY <1>1 DEF Appends
<1>3. p.end \in Nat /\ p.start \in Nat /\ p.start < p.end /\ p.end <= Latest /\ Latest \in Nat
  <2>1. Bought(a)' # {} /\ IsFiniteSet(Bought(a)') /\ Cardinality(Bought(a)') <= MaxPeriods
    BY <1>2 DEF LengthOK
  <2>2. PICK c \in 0..MaxTime : p.end <= Base + Cardinality(Bought(a)') * Duration + c
    BY <1>2 DEF LengthOK
  <2>3. PICK B : B = Bought(a)'
    OBVIOUS
  <2>4. IsFiniteSet(B) /\ Cardinality(B) <= MaxPeriods /\ B # {} /\ p.end <= Base + Cardinality(B) * Duration + c
    BY <2>1, <2>2, <2>3
  <2>5. p.end \in Int /\ p.end \in Nat /\ p.start \in Nat /\ p.start < p.end
    BY DEF Appends
  <2> QED BY <2>4, <2>5, EndFits
<1>4. p.end \in Times /\ p.start \in Times /\ Never \in Times
  <2>1. Latest + MaxRetention \in Int /\ Latest + MaxRetention >= p.end /\ Times = Never..(Latest + MaxRetention)
    BY <1>3, Constants DEF Times, Latest, Base
  <2> QED BY <1>3, <2>1, Constants DEF Never
<1>5. p \in Period
  <2>1. p = [start |-> p.start, end |-> p.end, source |-> p.source, reason |-> p.reason]
    BY DEF Appends
  <2> QED BY <1>4, <2>1 DEF Period
<1>6. PICK j : j = [kind |-> "expire", acc |-> a, at |-> p.end, due |-> p.end]
  OBVIOUS
<1>7. j \in JobRow /\ j.kind = "expire" /\ j.acc = a /\ jobs' = jobs \union {j}
  BY <1>4, <1>6 DEF JobRow, Appends
<1>8. TypeOK'
  <2>1. periods' \in [Accounts -> SUBSET Period]
    BY <1>1, <1>5 DEF Appends
  <2>2. \A b \in Accounts : \A q \in periods'[b] : q.start < q.end
    BY <1>1, <1>2, <1>3 DEF TypeOK
  <2>3. sub' \in [Accounts -> [end : Times, purgeAfter : Times, purged : BOOLEAN]]
    BY <1>1, <1>4 DEF Appends
  <2>4. jobs' \subseteq JobRow
    BY <1>1, <1>7
  <2> QED BY <1>1, <2>1, <2>2, <2>3, <2>4 DEF TypeOK
<1>9. ASSUME NEW b \in Accounts PROVE LineOK(b)'
  <2>1. CASE b # a
    <3>1. periods'[b] = periods[b] /\ sub'[b] = sub[b] /\ LineOK(b) /\ now' = now
      BY <1>1, <1>2, <2>1
    <3> QED BY <3>1 DEF LineOK
  <2>2. CASE b = a
    <3>1. \A q \in periods[a] : /\ q.start \in Int /\ q.end \in Int /\ q.end <= sub[a].end /\ 0 <= q.start
                                /\ sub[a].end \in Int
      BY <1>1, Constants DEF LineOK, Period, Times, Never
    <3>2. \A q \in periods[a] : q.end <= p.start /\ q.end <= p.end
      BY <1>3, <3>1 DEF Appends
    <3>3. \A q \in periods'[a] : 0 <= q.start /\ q.end <= sub'[a].end
      BY <1>2, <1>3, <3>1, <3>2
    <3>4. \A q, r \in periods'[a] : q # r => q.end <= r.start \/ r.end <= q.start
      BY <1>1, <1>2, <3>2 DEF LineOK
    <3>5. \E q \in periods'[a] : q.end = sub'[a].end
      BY <1>2
    <3> QED BY <1>2, <2>2, <3>3, <3>4, <3>5 DEF LineOK
  <2> QED BY <2>1, <2>2
<1>10. ASSUME NEW b \in Accounts PROVE LengthOK(b)'
  <2>1. CASE b # a
    <3>1. periods'[b] = periods[b] /\ sub'[b] = sub[b] /\ LengthOK(b) /\ settings' = settings
      BY <1>1, <1>2, <2>1
    <3> QED BY <3>1 DEF LengthOK, Bought, GivenBack
  <2> QED BY <2>1
<1>11. ASSUME NEW k \in jobs' PROVE JobOK(k)'
  <2>1. CASE k = j
    BY <1>7, <2>1 DEF JobOK
  <2>2. CASE k \in jobs
    <3>1. JobOK(k) /\ settings' = settings
      BY <2>2 DEF Inv
    <3>2. \A b \in Accounts : \A q \in GivenBack(b)' : q \in GivenBack(b) \/ q.reason = <<settings.activated>>
      BY <1>2 DEF GivenBack
    <3> QED BY <3>1, <3>2 DEF JobOK
  <2> QED BY <1>7, <2>1, <2>2
<1>12. ASSUME NEW w \in Workers PROVE WorkOK(w)'
  BY <1>7 DEF Inv, WorkOK
<1>13. Switch'
  BY DEF Inv, Switch
<1> QED BY <1>8, <1>9, <1>10, <1>11, <1>12, <1>13 DEF Inv

\* A period that no code gives leaves the codes right.
LEMMA NoCode ==
  ASSUME Inv, NEW a \in Accounts, NEW p, Appends(a, p), p.source # "code", UNCHANGED codes
  PROVE  \A c \in Codes : CodeOK(c)'
<1>1. /\ periods'[a] = periods[a] \union {p} /\ \A b \in Accounts : b # a => periods'[b] = periods[b]
  BY DEF Appends, Inv, TypeOK
<1>2. ASSUME NEW c \in Codes PROVE CodeOK(c)'
  <2>1. CodeOK(c)
    BY DEF Inv
  <2>2. \A b \in Accounts : \A q \in periods'[b] : q.source = "code" => q \in periods[b]
    BY <1>1
  <2>3. \A b \in Accounts : periods[b] \subseteq periods'[b]
    BY <1>1
  <2> QED BY <2>1, <2>2, <2>3 DEF CodeOK
<1> QED BY <1>2

\* A settled payment, or a gift.
LEMMA GrantKeeps ==
  ASSUME Inv, NEW a \in Accounts, Grant(a) PROVE Inv'
<1>1. PICK p : Appends(a, p) /\ p.source = "grant" /\ p.reason = <<now>> /\ p.end = p.start + Duration
  <2>1. Duration \in Nat /\ Duration > 0
    BY Constants
  <2> QED BY <2>1, Appended DEF Grant
<1>2. HasRoom(a) /\ UNCHANGED <<now, settings, codes, work, moves, faults>>
  BY DEF Grant
<1>3. LengthOK(a)'
  BY <1>1, <1>2, BoughtLength DEF Sources
<1>4. \A c \in Codes : CodeOK(c)'
  BY <1>1, <1>2, NoCode
<1>5. now \in Times
  <2>1. now \in 0..MaxTime /\ Latest \in Nat /\ MaxTime <= Latest
    <3>1. 0 \in 0..MaxPeriods /\ MaxTime \in Nat
      BY Constants
    <3>2. Latest \in Nat /\ Base \in Nat
      BY <3>1, Horizon
    <3>3. MaxPeriods * (Duration + MaxTime) \in Nat /\ MaxTime <= Base
      BY Constants DEF Base
    <3> QED BY <3>1, <3>2, <3>3 DEF Latest, Inv, TypeOK
  <2> QED BY <2>1, Constants DEF Times, Latest, Base, Never
<1>6. codes \in [Codes -> [status : {"none", "available", "redeemed", "revoked", "expired"},
        by : Accounts \union {None}]]
  BY DEF Inv, TypeOK
<1> QED BY <1>1, <1>2, <1>3, <1>4, <1>5, <1>6, AppendKeeps DEF Sources

\* A code gives its period to the one who redeems it.
LEMMA RedeemKeeps ==
  ASSUME Inv, NEW a \in Accounts, NEW c \in Codes, RedeemCode(a, c) PROVE Inv'
<1>1. PICK p : Appends(a, p) /\ p.source = "code" /\ p.reason = c /\ p.end = p.start + Duration
  <2>1. Duration \in Nat /\ Duration > 0
    BY Constants
  <2> QED BY <2>1, Appended DEF RedeemCode
<1>2. HasRoom(a) /\ UNCHANGED <<now, settings, work, moves, faults>> /\ codes[c].status = "available"
  BY DEF RedeemCode
<1>3. LengthOK(a)'
  BY <1>1, <1>2, BoughtLength DEF Sources
<1>4. PICK y \in [status : {"none", "available", "redeemed", "revoked", "expired"}, by : Accounts \union {None}] :
        /\ y.status = "redeemed" /\ y.by = a /\ codes' = [codes EXCEPT ![c] = y]
  <2>1. PICK z : z = [codes[c] EXCEPT !.status = "redeemed"]
    OBVIOUS
  <2>2. PICK y : y = [z EXCEPT !.by = a]
    OBVIOUS
  <2>3. /\ codes \in [Codes -> [status : {"none", "available", "redeemed", "revoked", "expired"},
          by : Accounts \union {None}]]
        /\ codes[c] \in [status : {"none", "available", "redeemed", "revoked", "expired"}, by : Accounts \union {None}]
    BY DEF Inv, TypeOK
  <2>4. /\ z \in [status : {"none", "available", "redeemed", "revoked", "expired"}, by : Accounts \union {None}]
        /\ z.status = "redeemed"
    BY <2>1, <2>3
  <2>5. /\ y \in [status : {"none", "available", "redeemed", "revoked", "expired"}, by : Accounts \union {None}]
        /\ y.status = "redeemed" /\ y.by = a
    BY <2>2, <2>4
  <2>6. PICK s : s = [codes EXCEPT ![c] = [codes[c] EXCEPT !.status = "redeemed"]]
    OBVIOUS
  <2>7. codes' = [s EXCEPT ![c] = [s[c] EXCEPT !.by = a]]
    BY <2>6 DEF RedeemCode
  <2>8. s[c] = z /\ s = [codes EXCEPT ![c] = z]
    BY <2>1, <2>3, <2>6
  <2>9. codes' = [s EXCEPT ![c] = y]
    BY <2>2, <2>7, <2>8
  <2>10. codes' = [codes EXCEPT ![c] = y]
    BY <2>3, <2>8, <2>9
  <2> QED BY <2>5, <2>10
<1>5. codes' \in [Codes -> [status : {"none", "available", "redeemed", "revoked", "expired"},
        by : Accounts \union {None}]]
  BY <1>4 DEF Inv, TypeOK
<1>6. codes'[c] = y /\ \A d \in Codes : d # c => codes'[d] = codes[d]
  BY <1>4 DEF Inv, TypeOK
<1>7. /\ periods'[a] = periods[a] \union {p} /\ \A b \in Accounts : b # a => periods'[b] = periods[b]
  BY <1>1 DEF Appends, Inv, TypeOK
<1>8. ASSUME NEW d \in Codes PROVE CodeOK(d)'
  <2>1. CodeOK(d)
    BY DEF Inv
  <2>2. CASE d = c
    <3>1. \A b \in Accounts : \A q \in periods[b] : ~(q.source = "code" /\ q.reason = c)
      BY <1>2, <2>1, <2>2 DEF CodeOK
    <3>2. \A b \in Accounts : \A q \in periods'[b] : q.source = "code" /\ q.reason = c => b = a /\ q = p
      BY <1>7, <3>1
    <3>3. p \in periods'[a] /\ y.by \in Accounts
      BY <1>4, <1>7
    <3> QED BY <1>1, <1>4, <1>6, <2>2, <3>2, <3>3 DEF CodeOK
  <2>3. CASE d # c
    <3>1. \A b \in Accounts : \A q \in periods'[b] : q.source = "code" /\ q.reason = d => q \in periods[b]
      BY <1>1, <1>7, <2>3
    <3>2. codes'[d] = codes[d] /\ \A b \in Accounts : periods[b] \subseteq periods'[b]
      BY <1>6, <1>7, <2>3
    <3> QED BY <2>1, <3>1, <3>2 DEF CodeOK
  <2> QED BY <2>2, <2>3
<1> QED BY <1>1, <1>2, <1>3, <1>5, <1>8, AppendKeeps DEF Sources

\* A free phase is given back.
LEMMA CompensateKeeps ==
  ASSUME Inv, NEW w \in Workers, Compensate(w) PROVE Inv'
<1>1. PICK j : j = work[w].job
  OBVIOUS
<1>2. j \in jobs /\ j \in JobRow /\ j.kind = "compensate" /\ JobOK(j)
  BY <1>1 DEF Compensate, Inv, WorkOK, TypeOK
<1>3. PICK a \in CompensationDue(j) : AppendPeriod(a, j.at - j.due, "compensation", <<j.at>>)
  BY <1>1 DEF Compensate
<1>4. a \in Accounts /\ StillActivated(j) /\ UNCHANGED <<now, settings, codes, work, moves, faults>>
  BY <1>1, <1>3 DEF Compensate, CompensationDue
<1>5. j.at - j.due \in Nat /\ j.at - j.due > 0 /\ settings.activated = j.at /\ j.at \in Times
  <2>1. j.at \in Int /\ j.due \in Int /\ j.at \in Times
    BY <1>2, Constants DEF JobRow, Times, Never
  <2>2. j.at > j.due /\ settings.activated = j.at
    BY <1>4 DEF StillActivated
  <2> QED BY <2>1, <2>2
<1>6. PICK p : Appends(a, p) /\ p.source = "compensation" /\ p.reason = <<j.at>> /\ p.end = p.start + (j.at - j.due)
  BY <1>3, <1>4, <1>5, Appended
<1>7. LengthOK(a)'
  BY <1>2, <1>3, <1>4, <1>6, GivenBackLength
<1>8. \A c \in Codes : CodeOK(c)'
  BY <1>4, <1>6, NoCode
<1>9. codes \in [Codes -> [status : {"none", "available", "redeemed", "revoked", "expired"},
        by : Accounts \union {None}]]
  BY DEF Inv, TypeOK
<1> QED BY <1>4, <1>5, <1>6, <1>7, <1>8, <1>9, AppendKeeps DEF Sources
-----------------------------------------------------------------------------
(* The other steps of the requests                                         *)

CodeRow == [status : {"none", "available", "redeemed", "revoked", "expired"}, by : Accounts \union {None}]

\* A code that is issued, revoked or lapses was not redeemed, and is not after.
LEMMA CodesKeep ==
  ASSUME Inv, codes' \in [Codes -> CodeRow],
         \A c \in Codes : codes'[c] = codes[c] \/ (codes[c].status # "redeemed" /\ codes'[c].status # "redeemed"),
         UNCHANGED <<now, settings, sub, periods, jobs, work, moves, faults>>
  PROVE  Inv'
<1>1. TypeOK'
  BY DEF Inv, TypeOK, CodeRow
<1>2. Switch' /\ \A a \in Accounts : LineOK(a)' /\ LengthOK(a)'
  BY DEF Inv, Switch, LineOK, LengthOK, Bought, GivenBack
<1>3. (\A j \in jobs' : JobOK(j)') /\ \A w \in Workers : WorkOK(w)'
  BY DEF Inv, JobOK, WorkOK, GivenBack
<1>4. ASSUME NEW c \in Codes PROVE CodeOK(c)'
  BY DEF Inv, CodeOK
<1> QED BY <1>1, <1>2, <1>3, <1>4 DEF Inv

\* The three of them.
LEMMA CodesMove ==
  ASSUME Inv, \/ \E r \in OrderRefs, count \in 1..PerPayment : IssueCodes(r, count)
              \/ \E c \in Codes : RevokeCode(c) \/ LapseCode(c)
  PROVE  Inv'
<1>1. codes \in [Codes -> CodeRow]
  BY DEF Inv, TypeOK, CodeRow
<1>2. ASSUME NEW r \in OrderRefs, NEW count \in 1..PerPayment, IssueCodes(r, count) PROVE Inv'
  <2>1. PICK y : y = [status |-> "available", by |-> None]
    OBVIOUS
  <2>2. y \in CodeRow /\ y.status # "redeemed"
    BY <2>1 DEF CodeRow
  <2>3. codes' = [c \in Codes |-> IF c[1] = r /\ c[2] <= count THEN y ELSE codes[c]]
    BY <1>2, <2>1 DEF IssueCodes
  <2>4. \A c \in Codes : c[1] = r => codes[c].status = "none"
    BY <1>2 DEF IssueCodes, Codes
  <2>5. codes' \in [Codes -> CodeRow]
    BY <1>1, <2>2, <2>3
  <2>6. \A c \in Codes : codes'[c] = codes[c] \/ (codes[c].status # "redeemed" /\ codes'[c].status # "redeemed")
    BY <2>2, <2>3, <2>4
  <2> QED BY <1>2, <2>5, <2>6, CodesKeep DEF IssueCodes
<1>3. ASSUME NEW c \in Codes, RevokeCode(c) \/ LapseCode(c) PROVE Inv'
  <2>1. PICK status \in {"revoked", "expired"} : codes' = [codes EXCEPT ![c].status = status]
    BY <1>3 DEF RevokeCode, LapseCode
  <2>2. PICK y : y = [codes[c] EXCEPT !.status = status]
    OBVIOUS
  <2>3. y \in CodeRow /\ y.status # "redeemed" /\ codes' = [codes EXCEPT ![c] = y]
    BY <1>1, <2>1, <2>2 DEF CodeRow
  <2>4. codes[c].status # "redeemed"
    BY <1>3 DEF RevokeCode, LapseCode
  <2>5. codes' \in [Codes -> CodeRow]
    BY <1>1, <2>3
  <2>6. \A d \in Codes : codes'[d] = codes[d] \/ (codes[d].status # "redeemed" /\ codes'[d].status # "redeemed")
    BY <1>1, <2>3, <2>4
  <2> QED BY <1>3, <2>5, <2>6, CodesKeep DEF RevokeCode, LapseCode
<1> QED BY <1>2, <1>3

\* The switch of the paid offer, moved by the administration.
SettingsRow == [enabled : BOOLEAN, model : {"PLUS", "TRIAL"}, activated : Times, grace : Times, deactivated : Times,
                trial : 0..MaxTrial, retention : 0..MaxRetention, paid : BOOLEAN]

\* What a move may write.
Switches ==
  /\ settings' \in SettingsRow /\ Switch' /\ settings'.activated >= settings.activated
  /\ jobs' = jobs \/ \E j \in JobRow : /\ jobs' = jobs \union {j} /\ j.kind = "compensate"
                                      /\ j.due = settings.deactivated /\ j.due # Never /\ j.at = now
                                      /\ ~settings.enabled /\ settings'.activated = now
  /\ settings'.activated # settings.activated => settings'.activated = now
  /\ moves' \in 0..MaxMoves
  /\ UNCHANGED <<now, sub, periods, codes, work, faults>>

\* Dates of today are dates.
LEMMA TodayFits ==
  ASSUME NEW t \in Never..(MaxTime + Week) PROVE t \in Times
<1>1. PICK m : m = MaxPeriods * (Duration + MaxTime)
  OBVIOUS
<1>2. m \in Nat
  BY <1>1, Constants
<1>3. MaxTime + Week + MaxTrial + m + MaxRetention >= MaxTime + Week
  BY <1>2, Constants
<1> QED BY <1>1, <1>2, <1>3, Constants DEF Times, Never

\* Each move is so.
LEMMA SwitchMoves ==
  ASSUME Inv, \/ \E m \in {"PLUS", "TRIAL"} : SetModel(m)
              \/ \E grace \in {1, Week} : Activate(grace)
              \/ Deactivate
              \/ \E to \in 1..MaxTime : ExtendGrace(to)
              \/ \E trial \in Trials, retention \in Retentions : UpdateSettings(trial, retention)
              \/ UpdateFeature
  PROVE  Switches
<1>1. /\ settings \in SettingsRow /\ now \in 0..MaxTime /\ moves \in 0..MaxMoves
      /\ settings.activated \in Never..now /\ settings.deactivated \in Never..now
      /\ settings.grace \in Never..(MaxTime + Week)
      /\ IF settings.enabled THEN settings.deactivated <= settings.activated ELSE settings.activated <= settings.deactivated
  BY DEF Inv, TypeOK, Switch, SettingsRow
<1>2. PICK s, n : s = settings /\ n = now
  OBVIOUS
<1>3. /\ s = [enabled |-> s.enabled, model |-> s.model, activated |-> s.activated, grace |-> s.grace,
              deactivated |-> s.deactivated, trial |-> s.trial,
                retention |-> s.retention, paid |-> s.paid]
      /\ s.enabled \in BOOLEAN /\ s.model \in {"PLUS", "TRIAL"}
      /\ s.trial \in 0..MaxTrial /\ s.retention \in 0..MaxRetention /\ s.paid \in BOOLEAN
      /\ s.activated \in Int /\ s.deactivated \in Int /\ s.grace \in Int /\ n \in Nat /\ n <= MaxTime
      /\ s.activated >= Never /\ s.activated <= n /\ s.deactivated >= Never /\ s.deactivated <= n
      /\ s.grace >= Never /\ s.grace <= MaxTime + Week
      /\ IF s.enabled THEN s.deactivated <= s.activated ELSE s.activated <= s.deactivated
  <2>1. s \in SettingsRow
    BY <1>1, <1>2
  <2>2. n \in Nat /\ n <= MaxTime
    BY <1>1, <1>2, Constants
  <2>3. s.activated \in Never..n /\ s.deactivated \in Never..n /\ s.grace \in Never..(MaxTime + Week)
    BY <1>1, <1>2
  <2>4. s.activated \in Int /\ s.deactivated \in Int /\ s.grace \in Int
    BY <2>2, <2>3, Constants DEF Never
  <2>5. /\ s.activated >= Never /\ s.activated <= n /\ s.deactivated >= Never /\ s.deactivated <= n
        /\ s.grace >= Never /\ s.grace <= MaxTime + Week
    BY <2>2, <2>3, Constants DEF Never
  <2>6. /\ s = [enabled |-> s.enabled, model |-> s.model, activated |-> s.activated, grace |-> s.grace,
                deactivated |-> s.deactivated, trial |-> s.trial,
                retention |-> s.retention, paid |-> s.paid]
        /\ s.enabled \in BOOLEAN /\ s.model \in {"PLUS", "TRIAL"}
        /\ s.trial \in 0..MaxTrial /\ s.retention \in 0..MaxRetention /\ s.paid \in BOOLEAN
    BY <2>1 DEF SettingsRow
  <2> QED BY <1>1, <1>2, <2>2, <2>4, <2>5, <2>6
<1>4. ASSUME NEW x, settings' = x, now' = now,
             x = [enabled |-> x.enabled, model |-> x.model, activated |-> x.activated, grace |-> x.grace,
                  deactivated |-> x.deactivated, trial |-> x.trial,
                retention |-> x.retention, paid |-> x.paid],
             x.enabled \in BOOLEAN, x.model \in {"PLUS", "TRIAL"},
             x.trial \in 0..MaxTrial, x.retention \in 0..MaxRetention, x.paid \in BOOLEAN,
             x.activated \in {s.activated, n}, x.deactivated \in {s.deactivated, n},
             x.grace \in Int, x.grace >= Never, x.grace <= MaxTime + Week,
             IF x.enabled THEN x.deactivated <= x.activated ELSE x.activated <= x.deactivated
      PROVE  settings' \in SettingsRow /\ Switch'
  <2>1. x.activated \in Never..n /\ x.deactivated \in Never..n /\ x.grace \in Never..(MaxTime + Week)
    BY <1>3, <1>4, Constants DEF Never
  <2>2. x.activated \in Never..(MaxTime + Week) /\ x.deactivated \in Never..(MaxTime + Week)
    BY <1>3, <2>1, Constants DEF Never
  <2>3. x.activated \in Times /\ x.deactivated \in Times /\ x.grace \in Times
    BY <2>1, <2>2, TodayFits
  <2>4. x \in SettingsRow
    BY <1>4, <2>3 DEF SettingsRow
  <2> QED BY <1>2, <1>4, <2>1, <2>4 DEF Switch
<1>5. ASSUME Move PROVE moves' \in 0..MaxMoves
  BY <1>1, <1>5, Constants DEF Move
<1>6. ASSUME NEW m \in {"PLUS", "TRIAL"}, SetModel(m) PROVE Switches
  <2>1. PICK x : x = [s EXCEPT !.model = m]
    OBVIOUS
  <2>2. /\ x = [enabled |-> s.enabled, model |-> m, activated |-> s.activated, grace |-> s.grace,
                deactivated |-> s.deactivated, trial |-> s.trial,
                retention |-> s.retention, paid |-> s.paid]
    BY <1>3, <2>1
  <2>3. settings' = x /\ now' = now
    BY <1>2, <1>6, <2>1 DEF SetModel
  <2>4. settings' \in SettingsRow /\ Switch'
    BY <1>3, <1>4, <2>2, <2>3
  <2>5. settings'.activated = settings.activated /\ settings'.activated >= settings.activated
    BY <1>2, <1>3, <2>2, <2>3
  <2> QED BY <1>5, <1>6, <2>4, <2>5 DEF SetModel, Switches
<1>7. ASSUME NEW grace \in {1, Week}, Activate(grace) PROVE Switches
  <2>1. PICK y : y = [s EXCEPT !.enabled = TRUE, !.activated = n, !.grace = n + grace]
    OBVIOUS
  <2>2. settings' = y /\ now' = now
    <3>1. settings' = [settings EXCEPT !.enabled = TRUE, !.activated = now, !.grace = now + grace] /\ now' = now
      BY <1>7 DEF Activate
    <3> QED BY <1>2, <2>1, <3>1, Zenon
  <2>3. n + grace \in Int /\ n + grace >= Never /\ n + grace <= MaxTime + Week
    BY <1>3, Constants DEF Never
  <2>4. settings' \in SettingsRow /\ Switch' /\ settings'.activated = now /\ settings'.activated >= settings.activated
    <3>1. y = [enabled |-> TRUE, model |-> s.model, activated |-> n, grace |-> n + grace, deactivated |-> s.deactivated, trial |-> s.trial,
                retention |-> s.retention, paid |-> s.paid]
      BY <1>3, <2>1
    <3>2. /\ y.enabled = TRUE /\ y.model = s.model /\ y.activated = n /\ y.grace = n + grace
          /\ y.deactivated = s.deactivated
          /\ y.trial = s.trial /\ y.retention = s.retention /\ y.paid = s.paid
          /\ y = [enabled |-> y.enabled, model |-> y.model, activated |-> y.activated, grace |-> y.grace,
                  deactivated |-> y.deactivated, trial |-> y.trial,
                retention |-> y.retention, paid |-> y.paid]
      BY <3>1
    <3>3. y.enabled \in BOOLEAN /\ y.deactivated <= y.activated
      BY <1>3, <3>2
    <3>4. settings' \in SettingsRow /\ Switch'
      BY <1>3, <1>4, <2>2, <2>3, <3>2, <3>3
    <3> QED BY <1>2, <1>3, <2>2, <3>2, <3>4
  <2>5. jobs' = jobs \/ \E j \in JobRow : /\ jobs' = jobs \union {j} /\ j.kind = "compensate"
                                         /\ j.due = settings.deactivated /\ j.due # Never /\ j.at = now
    <3>1. CASE settings.deactivated = Never
      BY <1>7, <3>1 DEF Activate
    <3>2. CASE settings.deactivated # Never
      <4>1. PICK j : j = [kind |-> "compensate", acc |-> None, at |-> n, due |-> s.deactivated]
        OBVIOUS
      <4>2. n \in Never..(MaxTime + Week) /\ s.deactivated \in Never..(MaxTime + Week)
        BY <1>3, Constants DEF Never
      <4>3. j \in JobRow
        BY <4>1, <4>2, TodayFits DEF JobRow
      <4>4. jobs' = jobs \union {j} /\ j.kind = "compensate" /\ j.due = s.deactivated /\ j.at = n
        BY <1>2, <1>7, <3>2, <4>1 DEF Activate, Job
      <4> QED BY <1>2, <3>2, <4>3, <4>4
    <3> QED BY <3>1, <3>2
  <2> QED BY <1>5, <1>7, <2>4, <2>5 DEF Activate, Switches
<1>8. ASSUME Deactivate PROVE Switches
  <2>1. PICK x : x = [s EXCEPT !.enabled = FALSE, !.deactivated = n]
    OBVIOUS
  <2>2. settings' = x /\ now' = now
    <3>1. settings' = [settings EXCEPT !.enabled = FALSE, !.deactivated = now] /\ now' = now
      BY <1>8 DEF Deactivate
    <3> QED BY <1>2, <2>1, <3>1, Zenon
  <2>3. x = [enabled |-> FALSE, model |-> s.model, activated |-> s.activated, grace |-> s.grace, deactivated |-> n, trial |-> s.trial,
                retention |-> s.retention, paid |-> s.paid]
    BY <1>3, <2>1
  <2>4. /\ x.enabled = FALSE /\ x.model = s.model /\ x.activated = s.activated /\ x.grace = s.grace /\ x.deactivated = n
        /\ x.trial = s.trial /\ x.retention = s.retention /\ x.paid = s.paid
        /\ x = [enabled |-> x.enabled, model |-> x.model, activated |-> x.activated, grace |-> x.grace,
                deactivated |-> x.deactivated, trial |-> x.trial,
                retention |-> x.retention, paid |-> x.paid]
    BY <2>3
  <2>5. settings' \in SettingsRow /\ Switch'
    <3>1. x.enabled \in BOOLEAN /\ ~x.enabled /\ x.activated <= x.deactivated
      BY <1>3, <2>4
    <3> QED BY <1>3, <1>4, <2>2, <2>4, <3>1
  <2>6. settings'.activated = settings.activated /\ settings'.activated >= settings.activated
    BY <1>2, <1>3, <2>2, <2>4
  <2> QED BY <1>5, <1>8, <2>5, <2>6 DEF Deactivate, Switches
<1>9. ASSUME NEW to \in 1..MaxTime, ExtendGrace(to) PROVE Switches
  <2>1. PICK x : x = [s EXCEPT !.grace = to]
    OBVIOUS
  <2>2. settings' = x /\ now' = now
    BY <1>2, <1>9, <2>1 DEF ExtendGrace
  <2>3. x = [enabled |-> s.enabled, model |-> s.model, activated |-> s.activated, grace |-> to,
          deactivated |-> s.deactivated, trial |-> s.trial,
                retention |-> s.retention, paid |-> s.paid]
    BY <1>3, <2>1
  <2>4. /\ x.enabled = s.enabled /\ x.model = s.model /\ x.activated = s.activated /\ x.grace = to
        /\ x.deactivated = s.deactivated
        /\ x.trial = s.trial /\ x.retention = s.retention /\ x.paid = s.paid
        /\ x = [enabled |-> x.enabled, model |-> x.model, activated |-> x.activated, grace |-> x.grace,
                deactivated |-> x.deactivated, trial |-> x.trial,
                retention |-> x.retention, paid |-> x.paid]
    BY <2>3
  <2>5. to \in Int /\ to >= Never /\ to <= MaxTime + Week
    BY Constants DEF Never
  <2>6. settings' \in SettingsRow /\ Switch'
    BY <1>3, <1>4, <2>2, <2>4, <2>5
  <2>7. settings'.activated = settings.activated /\ settings'.activated >= settings.activated
    BY <1>2, <1>3, <2>2, <2>4
  <2> QED BY <1>5, <1>9, <2>6, <2>7 DEF ExtendGrace, Switches
<1>10. ASSUME NEW l \in 0..MaxTrial, NEW r \in 0..MaxRetention, NEW b \in BOOLEAN, NEW x, Move,
              x = [s EXCEPT !.trial = l, !.retention = r, !.paid = b], settings' = x,
              UNCHANGED <<now, sub, periods, codes, jobs, work, faults>>
       PROVE  Switches
  <2>1. x = [s EXCEPT !.trial = l, !.retention = r, !.paid = b]
    BY <1>10
  <2>2. settings' = x /\ now' = now
    BY <1>10
  <2>3. x = [enabled |-> s.enabled, model |-> s.model, activated |-> s.activated, grace |-> s.grace,
             deactivated |-> s.deactivated, trial |-> l, retention |-> r, paid |-> b]
    BY <1>3, <2>1
  <2>4. /\ x.enabled = s.enabled /\ x.model = s.model /\ x.activated = s.activated /\ x.grace = s.grace
        /\ x.deactivated = s.deactivated /\ x.trial = l /\ x.retention = r /\ x.paid = b
        /\ x = [enabled |-> x.enabled, model |-> x.model, activated |-> x.activated, grace |-> x.grace,
                deactivated |-> x.deactivated, trial |-> x.trial, retention |-> x.retention, paid |-> x.paid]
    BY <2>3
  <2>5. settings' \in SettingsRow /\ Switch'
    BY <1>3, <1>4, <2>2, <2>4
  <2>6. settings'.activated = settings.activated /\ settings'.activated >= settings.activated
    BY <1>2, <1>3, <2>2, <2>4
  <2> QED BY <1>5, <1>10, <2>5, <2>6 DEF Switches
<1>11. ASSUME NEW trial \in Trials, NEW retention \in Retentions, UpdateSettings(trial, retention) PROVE Switches
  <2>1. trial \in 0..MaxTrial /\ retention \in 0..MaxRetention /\ s.paid \in BOOLEAN
    BY <1>3, SubscriptionsAssumption
  <2>2. PICK x : x = [s EXCEPT !.trial = trial, !.retention = retention]
    OBVIOUS
  <2>3. x = [s EXCEPT !.trial = trial, !.retention = retention, !.paid = s.paid]
    BY <1>3, <2>2
  <2>4. settings' = [settings EXCEPT !.trial = trial, !.retention = retention]
    BY <1>11 DEF UpdateSettings
  <2>5. settings' = x
    BY <1>2, <2>2, <2>4, Zenon
  <2>6. Move /\ UNCHANGED <<now, sub, periods, codes, jobs, work, faults>>
    BY <1>11 DEF UpdateSettings
  <2> QED BY <1>10, <2>1, <2>3, <2>5, <2>6, Zenon
<1>12. ASSUME UpdateFeature PROVE Switches
  <2>1. s.trial \in 0..MaxTrial /\ s.retention \in 0..MaxRetention /\ s.paid \in BOOLEAN
    BY <1>3
  <2>2. PICK b \in BOOLEAN : b = ~s.paid
    BY <2>1
  <2>3. PICK x : x = [s EXCEPT !.paid = ~s.paid]
    OBVIOUS
  <2>4. x = [s EXCEPT !.paid = b]
    BY <2>2, <2>3, Zenon
  <2>5. x = [s EXCEPT !.trial = s.trial, !.retention = s.retention, !.paid = b]
    BY <1>3, <2>4
  <2>6. settings' = [settings EXCEPT !.paid = ~settings.paid]
    BY <1>12 DEF UpdateFeature
  <2>7. settings' = x
    BY <1>2, <2>3, <2>6, Zenon
  <2>8. Move /\ UNCHANGED <<now, sub, periods, codes, jobs, work, faults>>
    BY <1>12 DEF UpdateFeature
  <2> QED BY <1>10, <2>1, <2>5, <2>7, <2>8, Zenon
<1> QED BY <1>6, <1>7, <1>8, <1>9, <1>11, <1>12

\* A move keeps the invariant: a compensation it posts is of the latest free phase.
LEMMA SwitchKeeps ==
  ASSUME Inv, Switches PROVE Inv'
<1>1. UNCHANGED <<now, sub, periods, codes, work, faults>> /\ settings' \in SettingsRow /\ Switch' /\
        jobs \subseteq jobs'
  BY DEF Switches
<1>2. /\ settings.activated \in Int /\ settings'.activated \in Int /\ settings.deactivated \in Int
      /\ settings.activated <= settings'.activated /\ now \in Nat /\ now <= MaxTime /\ settings.activated <= now
      /\ (settings'.activated # settings.activated => settings'.activated = now)
      /\ (~settings.enabled => settings.activated <= settings.deactivated)
      /\ Never <= settings.deactivated
  BY Constants DEF Switches, Inv, TypeOK, Switch, Never
<1>3. TypeOK'
  <2>1. jobs' \subseteq JobRow
    BY DEF Switches, Inv, TypeOK
  <2>2. moves' \in 0..MaxMoves
    BY DEF Switches
  <2> QED BY <1>1, <2>1, <2>2 DEF Inv, TypeOK, SettingsRow
<1>4. ASSUME NEW a \in Accounts PROVE LineOK(a)' /\ LengthOK(a)'
  <2>1. LineOK(a) /\ LengthOK(a)
    BY DEF Inv
  <2>2. LineOK(a)'
    BY <1>1, <2>1 DEF LineOK
  <2>3. \A p \in GivenBack(a) : \E t \in 0..MaxTime : p.reason = <<t>> /\ t <= settings'.activated
    <3>1. SUFFICES ASSUME NEW p \in GivenBack(a)
                   PROVE  \E t \in 0..MaxTime : p.reason = <<t>> /\ t <= settings'.activated
      OBVIOUS
    <3>2. PICK t \in 0..MaxTime : p.reason = <<t>> /\ t <= settings.activated
      BY <2>1 DEF LengthOK
    <3>3. t <= settings'.activated
      BY <1>2, <3>2
    <3> QED BY <3>2, <3>3
  <2>4. LengthOK(a)'
    BY <1>1, <2>1, <2>3 DEF LengthOK, Bought, GivenBack
  <2> QED BY <2>2, <2>4
<1>5. ASSUME NEW j \in jobs PROVE JobOK(j)'
  <2>1. JobOK(j)
    BY DEF Inv
  <2>2. j.kind = "compensate" => j.at <= settings'.activated /\
          (j.at = settings'.activated => j.at = settings.activated)
    <3>1. j.at \in Int
      BY Constants DEF Inv, TypeOK, JobRow, Times, Never
    <3> QED BY <1>2, <2>1, <3>1 DEF JobOK
  <2> QED BY <1>1, <2>1, <2>2 DEF JobOK, GivenBack
<1>6. ASSUME NEW j \in JobRow, j.kind = "compensate", j.due = settings.deactivated, j.due # Never, j.at = now,
             ~settings.enabled, settings'.activated = now
      PROVE  JobOK(j)'
  <2>1. j.due >= 0 /\ settings.activated <= j.due /\ j.due \in Int
    BY <1>2, <1>6 DEF Never
  <2>2. ASSUME NEW a \in Accounts, NEW p \in GivenBack(a) PROVE \E t \in 0..j.due : p.reason = <<t>>
    <3>1. PICK t \in 0..MaxTime : p.reason = <<t>> /\ t <= settings.activated
      BY <2>2 DEF Inv, LengthOK
    <3>2. t \in 0..j.due
      BY <1>2, <2>1, <3>1, Constants
    <3> QED BY <3>1, <3>2
  <2> QED BY <1>1, <1>2, <1>6, <2>1, <2>2 DEF JobOK, GivenBack
<1>7. \A j \in jobs' : JobOK(j)'
  BY <1>5, <1>6 DEF Switches
<1>8. ASSUME NEW w \in Workers PROVE WorkOK(w)'
  BY <1>1 DEF Inv, WorkOK
<1>9. ASSUME NEW c \in Codes PROVE CodeOK(c)'
  BY <1>1 DEF Inv, CodeOK
<1> QED BY <1>1, <1>3, <1>4, <1>7, <1>8, <1>9 DEF Inv
-----------------------------------------------------------------------------
(* The executions                                                          *)

\* A purge is planned after the end only.
DatesKept == \A a \in Accounts : /\ sub'[a].end = sub[a].end
                                 /\ sub'[a].purgeAfter # Never => sub[a].purgeAfter # Never \/ sub[a].end <= now

\* What a step of an execution may write: its own point, the dates and the mark of its account's
\* subscriber, the rows of the queue that are its own.
Works(w, x) ==
  /\ x \in Execution /\ work' = [work EXCEPT ![w] = x] /\ x.since <= now
  /\ x.at \notin {"idle", "compensate"} => x.acc \in Accounts
  /\ x.at = "compensate" => x.job # None /\ x.job.kind = "compensate"
  /\ x.job # None => x.job \in jobs' /\ (x.job = work[w].job \/ \A v \in Workers : work[v].job # x.job)
  /\ jobs' \subseteq JobRow /\ jobs \ {work[w].job} \subseteq jobs'
  /\ \A j \in jobs' \ jobs : j.kind # "compensate" /\ j.acc \in Accounts
  /\ sub' \in [Accounts -> [end : Times, purgeAfter : Times, purged : BOOLEAN]]
  /\ DatesKept
  /\ faults' \in 0..MaxFaults
  /\ UNCHANGED <<now, settings, codes, periods, moves>>

\* Such a step keeps the invariant.
LEMMA WorkKeeps ==
  ASSUME Inv, NEW w \in Workers, NEW x, Works(w, x) PROVE Inv'
<1>1. /\ UNCHANGED <<now, settings, codes, periods, moves>> /\ x \in Execution /\ work' = [work EXCEPT ![w] = x]
      /\ work \in [Workers -> Execution]
  BY DEF Works, Inv, TypeOK
<1>2. work' \in [Workers -> Execution] /\ work'[w] = x /\ \A v \in Workers \ {w} : work'[v] = work[v]
  BY <1>1
<1>3. TypeOK'
  BY <1>1, <1>2 DEF Works, Inv, TypeOK
<1>4. ASSUME NEW a \in Accounts PROVE LineOK(a)' /\ LengthOK(a)'
  <2>1. LineOK(a) /\ LengthOK(a)
    BY DEF Inv
  <2>2. sub'[a].end = sub[a].end /\ (sub'[a].purgeAfter # Never => sub[a].purgeAfter # Never \/ sub[a].end <= now)
    BY DEF Works, DatesKept
  <2>3. LineOK(a)'
    BY <1>1, <2>1, <2>2 DEF LineOK
  <2>4. LengthOK(a)'
    BY <1>1, <2>1, <2>2 DEF LengthOK, Bought, GivenBack
  <2> QED BY <2>3, <2>4
<1>5. ASSUME NEW j \in jobs' PROVE JobOK(j)'
  <2>1. CASE j \in jobs
    BY <1>1, <2>1 DEF Inv, JobOK, GivenBack
  <2>2. CASE j \notin jobs
    BY <2>2 DEF Works, JobOK
  <2> QED BY <2>1, <2>2
<1>6. ASSUME NEW v \in Workers PROVE WorkOK(v)'
  <2>1. ASSUME work'[v].job # None
        PROVE  work'[v].job \in jobs' /\ \A u \in Workers : work'[u].job = work'[v].job => u = v
    <3>1. CASE v = w
      <4>1. x.job # None /\ x.job \in jobs' /\ (x.job = work[w].job \/ \A u \in Workers : work[u].job # x.job)
        BY <1>2, <2>1, <3>1 DEF Works
      <4>2. \A u \in Workers : x.job = work[w].job => (work[u].job = x.job => u = w)
        BY <4>1 DEF Inv, WorkOK
      <4> QED BY <1>2, <3>1, <4>1, <4>2
    <3>2. CASE v # w
      <4>1. work'[v] = work[v] /\ work[v].job # None
        BY <1>2, <2>1, <3>2
      <4>2. work[v].job \in jobs /\ \A u \in Workers : work[u].job = work[v].job => u = v
        BY <4>1 DEF Inv, WorkOK
      <4>3. work[v].job # work[w].job
        BY <3>2, <4>2
      <4>4. x.job # work[v].job
        BY <4>1, <4>3 DEF Works
      <4>5. work[v].job \in jobs'
        BY <4>2, <4>3 DEF Works
      <4> QED BY <1>2, <4>1, <4>2, <4>4, <4>5
    <3> QED BY <3>1, <3>2
  <2>2. /\ work'[v].at \notin {"idle", "compensate"} => work'[v].acc \in Accounts
        /\ work'[v].at = "compensate" => work'[v].job # None /\ work'[v].job.kind = "compensate"
        /\ work'[v].since <= now
    BY <1>2 DEF Works, Inv, WorkOK
  <2> QED BY <1>1, <2>1, <2>2 DEF WorkOK
<1>7. ASSUME NEW c \in Codes PROVE CodeOK(c)'
  BY <1>1 DEF Inv, CodeOK
<1>8. Switch'
  BY <1>1 DEF Inv, Switch
<1> QED BY <1>3, <1>4, <1>5, <1>6, <1>7, <1>8 DEF Inv

\* The row of an execution that goes on.
LEMMA Goes ==
  ASSUME NEW y \in Execution, NEW k \in Points, NEW d \in Times, NEW s \in Times, NEW x,
         x = [at |-> k, acc |-> y.acc, job |-> y.job, due |-> d, since |-> s]
  PROVE  x \in Execution /\ x.at = k /\ x.acc = y.acc /\ x.job = y.job /\ x.due = d /\ x.since = s
<1>1. y.acc \in Accounts \union {None} /\ y.job \in JobRow \union {None}
  BY DEF Execution
<1> QED BY <1>1 DEF Execution

\* The date an execution writes down is a date.
LEMMA Dues ==
  ASSUME NEW n \in 0..MaxTime, NEW r \in 0..MaxRetention
  PROVE  /\ \A e \in 0..n : Max({e + r, n + Week}) \in Times
         /\ n + Max({1, r}) \in Times
<1>1. ASSUME NEW t \in Nat, t <= MaxTime + Week + MaxRetention PROVE t \in Times
  <2>1. PICK m : m = MaxPeriods * (Duration + MaxTime)
    OBVIOUS
  <2>2. m \in Nat
    BY <2>1, Constants
  <2> QED BY <1>1, <2>1, <2>2, Constants DEF Times, Never
<1>2. n \in Nat /\ n <= MaxTime /\ r \in Nat /\ r <= MaxRetention
  BY Constants
<1>3. ASSUME NEW e \in 0..n PROVE Max({e + r, n + Week}) \in Times
  <2>1. e \in Nat /\ e <= n
    BY <1>2
  <2>2. PICK i : i = e + r
    OBVIOUS
  <2>3. PICK k : k = n + Week
    OBVIOUS
  <2>4. i \in Nat /\ k \in Nat /\ i <= MaxTime + Week + MaxRetention /\ k <= MaxTime + Week + MaxRetention
    BY <1>2, <2>1, <2>2, <2>3, Constants
  <2>5. CASE i >= k
    <3>1. Max({i, k}) = i
      BY <2>4, <2>5, MaxIs
    <3> QED BY <1>1, <2>2, <2>3, <2>4, <3>1
  <2>6. CASE ~(i >= k)
    <3>1. Max({i, k}) = k
      BY <2>4, <2>6, MaxIs
    <3> QED BY <1>1, <2>2, <2>3, <2>4, <3>1
  <2> QED BY <2>5, <2>6
<1>4. n + Max({1, r}) \in Times
  <2>1. CASE r >= 1
    <3>1. Max({1, r}) = r
      BY <1>2, <2>1, Constants, MaxIs
    <3> QED BY <1>1, <1>2, <3>1, Constants
  <2>2. CASE ~(r >= 1)
    <3>1. Max({1, r}) = 1
      BY <1>2, <2>2, Constants, MaxIs
    <3> QED BY <1>1, <1>2, <3>1, Constants
  <2> QED BY <2>1, <2>2
<1> QED BY <1>3, <1>4

\* What an execution knows of itself.
LEMMA Known ==
  ASSUME Inv, NEW w \in Workers
  PROVE  /\ work \in [Workers -> Execution] /\ work[w] \in Execution /\ work[w].due \in Times /\ work[w].since \in Times
         /\ WorkOK(w) /\ Resting \in Execution
         /\ work[w].job # None => work[w].job \in jobs
         /\ now \in 0..MaxTime /\ now \in Nat /\ now \in Times /\ faults \in 0..MaxFaults
         /\ sub \in [Accounts -> [end : Times, purgeAfter : Times, purged : BOOLEAN]] /\ jobs \subseteq JobRow
<1>1. /\ work \in [Workers -> Execution] /\ work[w] \in Execution /\ now \in 0..MaxTime /\ faults \in 0..MaxFaults
      /\ sub \in [Accounts -> [end : Times, purgeAfter : Times, purged : BOOLEAN]] /\ jobs \subseteq JobRow
  BY DEF Inv, TypeOK
<1>2. work[w].due \in Times /\ work[w].since \in Times
  BY <1>1 DEF Execution
<1>3. now \in Never..(MaxTime + Week) /\ Never \in Never..(MaxTime + Week) /\ now \in Nat
  BY <1>1, Constants DEF Never
<1>4. now \in Times /\ Never \in Times
  BY <1>3, TodayFits
<1>5. Resting \in Execution
  BY <1>4 DEF Resting, Execution, Points
<1> QED BY <1>1, <1>2, <1>3, <1>4, <1>5 DEF Inv, WorkOK

\* An execution that ends, dies or posts the purge of its account.
LEMMA Rests ==
  ASSUME Inv, NEW w \in Workers, Do(w, Resting), jobs' \subseteq JobRow, jobs \ {work[w].job} \subseteq jobs',
         \A j \in jobs' \ jobs : j.kind # "compensate" /\ j.acc \in Accounts, faults' \in 0..MaxFaults,
         UNCHANGED <<now, settings, codes, periods, moves, sub>>
  PROVE  Inv'
<1>1. PICK x : x = Resting
  OBVIOUS
<1>2. x \in Execution /\ x.at = "idle" /\ x.job = None /\ x.since = Never
  BY <1>1, Known DEF Resting
<1>3. x.since <= now
  BY <1>2, Known DEF Never
<1>4. Works(w, x)
  BY <1>1, <1>2, <1>3, Known DEF Works, Do, DatesKept
<1> QED BY <1>4, WorkKeeps

\* An execution that goes on with its account and its row.
LEMMA GoesOn ==
  ASSUME Inv, NEW w \in Workers, NEW x \in Execution, Do(w, x), x.acc = work[w].acc, x.job = work[w].job,
          x.since <= now,
         x.at # "compensate", work[w].at \notin {"idle", "compensate"},
         sub' \in [Accounts -> [end : Times, purgeAfter : Times, purged : BOOLEAN]],
         DatesKept,
         UNCHANGED <<now, settings, codes, periods, moves, jobs, faults>>
  PROVE  Inv'
<1>1. x.acc \in Accounts
  BY DEF Inv, WorkOK
<1>2. x.job # None => x.job \in jobs'
  BY Known
<1>3. Works(w, x)
  BY <1>1, <1>2, Known DEF Works, Do
<1> QED BY <1>3, WorkKeeps

\* The dates of a subscriber, one of them written.
LEMMA Dated ==
  ASSUME Inv, NEW b \in Accounts, NEW d \in Times,
         sub' = [sub EXCEPT ![b].purgeAfter = d] \/ sub' = [sub EXCEPT ![b].purged = TRUE],
         sub[b].purgeAfter # Never \/ sub[b].end <= now
  PROVE  /\ sub' \in [Accounts -> [end : Times, purgeAfter : Times, purged : BOOLEAN]]
         /\ DatesKept
<1>1. sub \in [Accounts -> [end : Times, purgeAfter : Times, purged : BOOLEAN]]
  BY DEF Inv, TypeOK
<1>2. PICK s : s = sub[b]
  OBVIOUS
<1>3. s = [end |-> s.end, purgeAfter |-> s.purgeAfter, purged |-> s.purged] /\ s.end \in Times /\
        s.purgeAfter \in Times /\ s.purged \in BOOLEAN
  BY <1>1, <1>2
<1>4. PICK y : (y = [s EXCEPT !.purgeAfter = d] \/ y = [s EXCEPT !.purged = TRUE]) /\ sub' = [sub EXCEPT ![b] = y]
  <2>1. CASE sub' = [sub EXCEPT ![b].purgeAfter = d]
    <3>1. sub' = [sub EXCEPT ![b] = [sub[b] EXCEPT !.purgeAfter = d]]
      BY <2>1
    <3> QED BY <1>2, <3>1
  <2>2. CASE sub' = [sub EXCEPT ![b].purged = TRUE]
    <3>1. sub' = [sub EXCEPT ![b] = [sub[b] EXCEPT !.purged = TRUE]]
      BY <2>2
    <3> QED BY <1>2, <3>1
  <2> QED BY <2>1, <2>2
<1>5. y = [end |-> s.end, purgeAfter |-> y.purgeAfter, purged |-> y.purged] /\ y.purgeAfter \in {d, s.purgeAfter} /\
        y.purged \in {TRUE, s.purged}
  BY <1>3, <1>4
<1>6. y.purgeAfter \in Times /\ y.purged \in BOOLEAN
  BY <1>3, <1>5
<1>7. PICK e, f, g : e = s.end /\ f = y.purgeAfter /\ g = y.purged
  OBVIOUS
<1>8. y = [end |-> e, purgeAfter |-> f, purged |-> g] /\ e \in Times /\ f \in Times /\ g \in BOOLEAN
  BY <1>3, <1>5, <1>6, <1>7
<1>9. y \in [end : Times, purgeAfter : Times, purged : BOOLEAN] /\ y.end = s.end
  BY <1>7, <1>8
<1> QED BY <1>1, <1>2, <1>4, <1>5, <1>9 DEF DatesKept

\* Each step of an execution.
LEMMA StepKeeps ==
  ASSUME Inv, NEW w \in Workers, Step(w) PROVE Inv'
<1>1. PICK y : y = work[w]
  OBVIOUS
<1>2. y = [at |-> y.at, acc |-> y.acc, job |-> y.job, due |-> y.due, since |-> y.since] /\ y \in Execution
  BY <1>1, Known DEF Execution
<1>3. ASSUME Done(w), Quiet, UNCHANGED <<sub, periods>> PROVE Inv'
  <2>1. jobs' \subseteq JobRow /\ jobs \ {work[w].job} \subseteq jobs' /\ jobs' \ jobs = {}
    BY <1>3, Known DEF Done
  <2>2. faults' \in 0..MaxFaults
    BY <1>3, Known DEF Quiet
  <2>3. Do(w, Resting) /\ UNCHANGED <<now, settings, codes, periods, moves, sub>>
    BY <1>3 DEF Quiet, Done
  <2> QED BY <2>1, <2>2, <2>3, Rests
<1>4. ASSUME Expire(w) PROVE Inv'
  <2>1. PICK a : a = work[w].acc
    OBVIOUS
  <2>2. CASE sub[a].end \in 0..now /\ sub[a].purgeAfter = Never /\ ~sub[a].purged
    <3>1. PICK d : d = Max({sub[a].end + settings.retention, now + Week})
      OBVIOUS
    <3>2. PICK n : n = now
      OBVIOUS
    <3>3. PICK x : x = [y EXCEPT !.at = "close", !.due = d, !.since = n]
      OBVIOUS
    <3>4. Do(w, x) /\ Quiet /\ UNCHANGED <<jobs, sub, periods>> /\ work[w].at = "expire"
      BY <1>1, <1>4, <2>1, <2>2, <3>2, <3>1, <3>3 DEF Expire, Data
    <3>5. d \in Times /\ n \in Times
      BY <2>2, <3>2, <3>1, Dues, Known DEF Inv, TypeOK
    <3>6. x = [at |-> "close", acc |-> y.acc, job |-> y.job, due |-> d, since |-> n]
      BY <1>2, <3>3
    <3>7. x \in Execution /\ x.at = "close" /\ x.acc = work[w].acc /\ x.job = work[w].job /\ x.since = now
      BY <1>1, <1>2, <3>2, <3>6, <3>5, Goes DEF Points
    <3> QED BY <3>4, <3>7, GoesOn, Known DEF Quiet, DatesKept
  <2>3. CASE ~(sub[a].end \in 0..now /\ sub[a].purgeAfter = Never /\ ~sub[a].purged)
    BY <1>3, <1>4, <2>1, <2>3 DEF Expire, Data
  <2> QED BY <2>2, <2>3
<1>5. ASSUME Purge(w) PROVE Inv'
  <2>1. PICK a : a = work[w].acc
    OBVIOUS
  <2>2. CASE ~(sub[a].purged \/ sub[a].purgeAfter \notin 0..now \/ sub[a].end > now)
    <3>1. PICK d : d = now + Max({1, settings.retention})
      OBVIOUS
    <3>2. PICK k : k = IF Phase(now) = "paid" THEN "mark" ELSE "defer"
      OBVIOUS
    <3>3. PICK n : n = now
      OBVIOUS
    <3>4. PICK x : x = [y EXCEPT !.at = k, !.due = d, !.since = n]
      OBVIOUS
    <3>5. Do(w, x) /\ Quiet /\ UNCHANGED <<jobs, sub, periods>> /\ work[w].at = "purge"
      BY <1>1, <1>5, <2>1, <2>2, <3>3, <3>1, <3>2, <3>4 DEF Purge, Data
    <3>6. d \in Times /\ n \in Times /\ k \in Points /\ k # "compensate"
      BY <3>3, <3>1, <3>2, Dues, Known DEF Inv, TypeOK, Points
    <3>7. x = [at |-> k, acc |-> y.acc, job |-> y.job, due |-> d, since |-> n]
      BY <1>2, <3>4
    <3>8. x \in Execution /\ x.at = k /\ x.acc = work[w].acc /\ x.job = work[w].job /\ x.since = now
      BY <1>1, <1>2, <3>3, <3>7, <3>6, Goes
    <3> QED BY <3>5, <3>6, <3>8, GoesOn, Known DEF Quiet, DatesKept
  <2>3. CASE sub[a].purged \/ sub[a].purgeAfter \notin 0..now \/ sub[a].end > now
    BY <1>3, <1>5, <2>1, <2>3 DEF Purge, Data
  <2> QED BY <2>2, <2>3
<1>6. ASSUME NEW b \in Accounts, NEW k \in {"schedule", "wipe"}, NEW x, x = [work[w] EXCEPT !.at = k], Do(w, x), Quiet,
             UNCHANGED <<jobs, periods>>, work[w].at \notin {"idle", "compensate"},
             sub' = [sub EXCEPT ![b].purgeAfter = work[w].due] \/ sub' = [sub EXCEPT ![b].purged = TRUE],
             sub[b].purgeAfter # Never \/ sub[b].end <= now
      PROVE  Inv'
  <2>1. x \in Execution /\ x.at = k /\ x.acc = work[w].acc /\ x.job = work[w].job /\ x.since = work[w].since
    <3>1. x = [y EXCEPT !.at = k]
      BY <1>1, <1>6
    <3>2. x = [at |-> k, acc |-> y.acc, job |-> y.job, due |-> y.due, since |-> y.since]
      BY <1>2, <3>1
    <3>3. k \in Points /\ y.due \in Times /\ y.since \in Times
      BY <1>1, Known DEF Points
    <3> QED BY <1>1, <1>2, <3>2, <3>3, Goes
  <2>2. x.since <= now
    BY <2>1, Known DEF WorkOK
  <2>3. /\ sub' \in [Accounts -> [end : Times, purgeAfter : Times, purged : BOOLEAN]]
        /\ DatesKept
    BY <1>6, Dated, Known
  <2> QED BY <1>6, <2>1, <2>2, <2>3, GoesOn DEF Quiet
<1>7. ASSUME Close(w) PROVE Inv'
  <2>1. PICK a, s : a = work[w].acc /\ s = work[w].since
    OBVIOUS
  <2>2. CASE sub[a].purgeAfter = Never /\ ~sub[a].purged /\ sub[a].end \in 0..s
    <3>1. PICK x : x = [work[w] EXCEPT !.at = "schedule"]
      OBVIOUS
    <3>2. /\ Do(w, x) /\ Quiet /\ UNCHANGED <<jobs, periods>> /\ work[w].at = "close"
          /\ sub' = [sub EXCEPT ![a].purgeAfter = work[w].due]
      BY <1>7, <2>1, <2>2, <3>1 DEF Close
    <3>3. a \in Accounts /\ s <= now /\ s \in Int
      BY <2>1, <3>2, Known, Constants DEF WorkOK, Times, Never
    <3>4. sub[a].end <= now
      BY <2>2, <3>3, Known
    <3> QED BY <1>6, <3>1, <3>2, <3>3, <3>4
  <2>3. CASE ~(sub[a].purgeAfter = Never /\ ~sub[a].purged /\ sub[a].end \in 0..s)
    BY <1>3, <1>7, <2>1, <2>3 DEF Close
  <2> QED BY <2>2, <2>3
<1>8. ASSUME Defer(w) \/ Mark(w) PROVE Inv'
  <2>1. PICK a : a = work[w].acc
    OBVIOUS
  <2>2. CASE ~sub[a].purged /\ sub[a].purgeAfter \in 0..work[w].since
    <3>1. PICK k, x :
             /\ k \in {"schedule", "wipe"} /\ x = [work[w] EXCEPT !.at = k] /\ Do(w, x) /\ Quiet /\ UNCHANGED <<jobs,
                     periods>> /\ work[w].at \in {"defer", "mark"}
             /\ sub' = [sub EXCEPT ![a].purgeAfter = work[w].due] \/ sub' = [sub EXCEPT ![a].purged = TRUE]
      BY <1>8, <2>1, <2>2 DEF Defer, Mark
    <3>2. a \in Accounts /\ sub[a].purgeAfter # Never
      BY <2>1, <2>2, <3>1, Known DEF WorkOK, Never
    <3> QED BY <1>6, <3>1, <3>2
  <2>3. CASE ~(~sub[a].purged /\ sub[a].purgeAfter \in 0..work[w].since)
    BY <1>3, <1>8, <2>1, <2>3 DEF Defer, Mark
  <2> QED BY <2>2, <2>3
<1>9. ASSUME Schedule(w) PROVE Inv'
  <2>1. PICK j : j = Job("purge", work[w].acc, work[w].due, work[w].due)
    OBVIOUS
  <2>2. work[w].acc \in Accounts
    BY <1>9, Known DEF Schedule, WorkOK
  <2>3. j \in JobRow /\ j.kind = "purge" /\ j.acc \in Accounts
    BY <2>1, <2>2, Known DEF Job, JobRow
  <2>4. Do(w, Resting) /\ jobs' = (jobs \ {work[w].job}) \union {j} /\ UNCHANGED <<now, settings, codes, periods,
          moves, sub, faults>>
    BY <1>9, <2>1 DEF Schedule, Quiet, Data
  <2>5. jobs' \subseteq JobRow /\ jobs \ {work[w].job} \subseteq jobs' /\ \A i \in jobs' \ jobs : i = j
    BY <2>3, <2>4, Known
  <2> QED BY <2>3, <2>4, <2>5, Rests, Known
<1>10. ASSUME Wipe(w) \/ Compensated(w) PROVE Inv'
  BY <1>3, <1>10 DEF Wipe, Compensated, Data
<1> QED BY <1>4, <1>5, <1>7, <1>8, <1>9, <1>10, CompensateKeeps DEF Step

\* An execution that begins: a job that is due, or an account the sweep has found.
LEMMA BeginKeeps ==
  ASSUME Inv, NEW w \in Workers, \/ \E j \in jobs : Take(w, j)
                                 \/ \E a \in Accounts : Sweep(w, a)
  PROVE  Inv'
<1>1. /\ faults' \in 0..MaxFaults /\ UNCHANGED <<jobs, sub, now, settings, codes, periods, moves>>
      /\ jobs \subseteq JobRow /\ sub \in [Accounts -> [end : Times, purgeAfter : Times, purged : BOOLEAN]]
      /\ now \in Times /\ now \in Nat /\ Never \in Times
  BY Known, TodayFits, Constants DEF Take, Sweep, Quiet, Resting, Execution
<1>2. PICK n : n = now
  OBVIOUS
<1>3. ASSUME NEW j \in jobs, Take(w, j) PROVE Inv'
  <2>1. PICK x : x = [at |-> j.kind, acc |-> j.acc, job |-> j, due |-> j.due, since |-> n]
    OBVIOUS
  <2>2. work' = [work EXCEPT ![w] = x]
    BY <1>2, <1>3, <2>1 DEF Take, Do
  <2>3. /\ j \in JobRow /\ j.kind \in {"expire", "purge", "compensate"} /\ j.acc \in Accounts \union {None}
        /\ j.due \in Times /\ j # None /\ JobOK(j)
    BY <1>1, SubscriptionsAssumption DEF JobRow, Inv
  <2>4. x \in Execution
    BY <1>1, <1>2, <2>1, <2>3 DEF Execution, Points
  <2>5. x.at = j.kind /\ x.acc = j.acc /\ x.job = j /\ x.since = n
    BY <2>1
  <2>6. x.at \notin {"idle", "compensate"} => x.acc \in Accounts
    BY <2>3, <2>5 DEF JobOK
  <2>7. x.at = "compensate" => x.job # None /\ x.job.kind = "compensate"
    BY <2>3, <2>5
  <2>8. x.job \in jobs' /\ \A v \in Workers : work[v].job # x.job
    BY <1>1, <1>3, <2>5 DEF Take
  <2>9. Works(w, x)
    BY <1>1, <1>2, <2>2, <2>4, <2>5, <2>6, <2>7, <2>8 DEF Works, DatesKept
  <2> QED BY <2>9, WorkKeeps
<1>4. ASSUME NEW a \in Accounts, Sweep(w, a) PROVE Inv'
  <2>1. PICK kind \in {"expire", "purge"} :
          Do(w, [at |-> kind, acc |-> a, job |-> None, due |-> Never, since |-> now])
    BY <1>4 DEF Sweep
  <2>2. PICK x : x = [at |-> kind, acc |-> a, job |-> None, due |-> Never, since |-> n]
    OBVIOUS
  <2>3. work' = [work EXCEPT ![w] = x]
    BY <1>2, <2>1, <2>2 DEF Do
  <2>4. x \in Execution /\ x.at = kind /\ x.acc = a /\ x.job = None /\ x.since = n
    BY <1>1, <1>2, <2>2 DEF Execution, Points
  <2>5. Works(w, x)
    BY <1>1, <1>2, <2>3, <2>4 DEF Works, DatesKept
  <2> QED BY <2>5, WorkKeeps
<1> QED BY <1>3, <1>4

\* A worker dies, a job is lost.
LEMMA FaultKeeps ==
  ASSUME Inv, (\E w \in Workers : Die(w)) \/ (\E j \in jobs : LoseJob(j)) PROVE Inv'
<1>1. faults' \in 0..MaxFaults /\ jobs' \subseteq JobRow /\ jobs' \subseteq jobs
  BY Constants DEF Die, LoseJob, Inv, TypeOK
<1>2. ASSUME NEW w \in Workers, Die(w) PROVE Inv'
  BY <1>1, <1>2, Rests DEF Die
<1>3. ASSUME NEW j \in jobs, LoseJob(j) PROVE Inv'
  <2>1. jobs' = jobs \ {j} /\ (\A w \in Workers : work[w].job # j) /\ UNCHANGED <<now, settings, codes, work, sub,
          periods, moves>>
    BY <1>3 DEF LoseJob
  <2>2. TypeOK'
    BY <1>1, <2>1 DEF Inv, TypeOK
  <2>3. Switch' /\ \A a \in Accounts : LineOK(a)' /\ LengthOK(a)'
    BY <2>1 DEF Inv, Switch, LineOK, LengthOK, Bought, GivenBack
  <2>4. (\A i \in jobs' : JobOK(i)') /\ \A c \in Codes : CodeOK(c)'
    BY <2>1 DEF Inv, JobOK, GivenBack, CodeOK
  <2>5. \A w \in Workers : WorkOK(w)'
    BY <2>1 DEF Inv, WorkOK
  <2> QED BY <2>2, <2>3, <2>4, <2>5 DEF Inv
<1> QED BY <1>2, <1>3

\* Time passes.
LEMMA TickKeeps ==
  ASSUME Inv, Tick PROVE Inv'
<1>1. now \in Nat /\ now' = now + 1 /\ now' \in 0..MaxTime /\ UNCHANGED <<settings, sub, periods, codes, jobs, work,
        moves, faults>>
  BY Constants DEF Tick, Inv, TypeOK
<1>2. TypeOK'
  BY <1>1 DEF Inv, TypeOK
<1>3. Switch'
  BY <1>1, Constants DEF Inv, Switch, Never
<1>4. ASSUME NEW a \in Accounts PROVE LineOK(a)' /\ LengthOK(a)'
  <2>1. sub[a].end \in Int
    BY Constants DEF Inv, TypeOK, Times, Never
  <2>2. LineOK(a)'
    BY <1>1, <2>1 DEF Inv, LineOK
  <2>3. LengthOK(a)'
    BY <1>1 DEF Inv, LengthOK, Bought, GivenBack
  <2> QED BY <2>2, <2>3
<1>5. (\A i \in jobs' : JobOK(i)') /\ \A c \in Codes : CodeOK(c)'
  BY <1>1 DEF Inv, JobOK, GivenBack, CodeOK
<1>6. ASSUME NEW w \in Workers PROVE WorkOK(w)'
  <2>1. work[w].since \in Int
    BY Known, Constants DEF Times, Never
  <2>2. work[w].since <= now => work[w].since <= now + 1
    BY <1>1, <2>1
  <2> QED BY <1>1, <2>2 DEF Inv, WorkOK
<1> QED BY <1>2, <1>3, <1>4, <1>5, <1>6 DEF Inv
-----------------------------------------------------------------------------
(* The invariant                                                           *)

\* It holds at first.
LEMMA Initially ==
  ASSUME Init PROVE Inv
<1>1. Never \in Times /\ 0 \in 0..MaxTime /\ 0 \in 0..MaxMoves /\ 0 \in 0..MaxFaults
  <2>1. Never \in Never..(MaxTime + Week)
    BY Constants DEF Never
  <2> QED BY <2>1, TodayFits, Constants
<1>2. TypeOK
  <2>1. Resting \in Execution
    BY <1>1 DEF Resting, Execution, Points
  <2>2. sub \in [Accounts -> [end : Times, purgeAfter : Times, purged : BOOLEAN]]
    BY <1>1 DEF Init
  <2>3. settings \in SettingsRow
    <3>1. MaxTrial \in 0..MaxTrial /\ MaxRetention \in 0..MaxRetention
      BY Constants
    <3> QED BY <1>1, <3>1 DEF Init, SettingsRow
  <2>4. codes \in [Codes -> [status : {"none", "available", "redeemed", "revoked", "expired"},
          by : Accounts \union {None}]]
    BY DEF Init
  <2> QED BY <1>1, <2>1, <2>2, <2>3, <2>4 DEF Init, TypeOK, SettingsRow
<1>3. Switch
  BY Constants DEF Init, Switch, Never
<1>4. ASSUME NEW a \in Accounts PROVE LineOK(a) /\ LengthOK(a)
  <2>1. periods[a] = {} /\ sub[a].end = Never /\ sub[a].purgeAfter = Never
    BY DEF Init
  <2>2. LineOK(a)
    BY <2>1 DEF LineOK
  <2>3. Bought(a) = {} /\ GivenBack(a) = {}
    BY <2>1 DEF Bought, GivenBack
  <2>4. IsFiniteSet(Bought(a)) /\ Cardinality(Bought(a)) = 0
    BY <2>3, FS_EmptySet
  <2>5. sub[a].end <= Base + 0 * Duration + 0
    BY <2>1, Constants DEF Base, Never
  <2>6. LengthOK(a)
    <3>1. \E c \in 0..MaxTime : /\ sub[a].end <= Base + Cardinality(Bought(a)) * Duration + c
                                /\ c = 0 \/ \E p \in GivenBack(a) : p.reason = <<c>>
      BY <1>1, <2>4, <2>5
    <3> QED BY <2>1, <2>3, <2>4, <3>1, Constants DEF LengthOK
  <2> QED BY <2>2, <2>6
<1>5. \A j \in jobs : JobOK(j)
  BY DEF Init
<1>6. ASSUME NEW w \in Workers PROVE WorkOK(w)
  BY DEF Init, WorkOK, Resting, Never
<1>7. ASSUME NEW c \in Codes PROVE CodeOK(c)
  BY DEF Init, CodeOK
<1> QED BY <1>2, <1>3, <1>4, <1>5, <1>6, <1>7 DEF Inv

\* Every step keeps it.
LEMMA Inductive ==
  ASSUME Inv, [Next]_vars PROVE Inv'
<1>1. CASE UNCHANGED vars
  <2>1. UNCHANGED <<now, settings, sub, periods, codes, jobs, work, moves, faults>>
    BY <1>1 DEF vars
  <2>2. TypeOK' /\ Switch'
    BY <2>1 DEF Inv, TypeOK, Switch
  <2>3. \A a \in Accounts : LineOK(a)' /\ LengthOK(a)'
    BY <2>1 DEF Inv, LineOK, LengthOK, Bought, GivenBack
  <2>4. (\A j \in jobs' : JobOK(j)') /\ \A w \in Workers : WorkOK(w)'
    BY <2>1 DEF Inv, JobOK, WorkOK, GivenBack
  <2>5. \A c \in Codes : CodeOK(c)'
    BY <2>1 DEF Inv, CodeOK
  <2> QED BY <2>2, <2>3, <2>4, <2>5 DEF Inv
<1>2. CASE Next
  <2>1. ASSUME NEW a \in Accounts, Grant(a) PROVE Inv'
    BY <2>1, GrantKeeps
  <2>2. ASSUME (\E r \in OrderRefs, count \in 1..PerPayment : IssueCodes(r, count)) \/ \E c \in Codes : RevokeCode(c) \/ LapseCode(c) PROVE Inv'
    BY <2>2, CodesMove
  <2>3. ASSUME NEW a \in Accounts, NEW c \in Codes, RedeemCode(a, c) PROVE Inv'
    BY <2>3, RedeemKeeps
  <2>4. ASSUME \/ \E m \in {"PLUS", "TRIAL"} : SetModel(m)
               \/ \E grace \in {1, Week} : Activate(grace)
               \/ Deactivate
               \/ \E to \in 1..MaxTime : ExtendGrace(to)
               \/ \E trial \in Trials, retention \in Retentions : UpdateSettings(trial, retention)
               \/ UpdateFeature
        PROVE  Inv'
    BY <2>4, SwitchMoves, SwitchKeeps
  <2>5. ASSUME NEW w \in Workers, Step(w) PROVE Inv'
    BY <2>5, StepKeeps
  <2>6. ASSUME NEW w \in Workers, (\E j \in jobs : Take(w, j)) \/ \E a \in Accounts : Sweep(w, a) PROVE Inv'
    BY <2>6, BeginKeeps
  <2>7. ASSUME (\E w \in Workers : Die(w)) \/ \E j \in jobs : LoseJob(j) PROVE Inv'
    BY <2>7, FaultKeeps
  <2>8. ASSUME Tick PROVE Inv'
    BY <2>8, TickKeeps
  <2> HIDE DEF Inv
  <2> QED BY <1>2, <2>1, <2>2, <2>3, <2>4, <2>5, <2>6, <2>7, <2>8 DEF Next
<1> QED BY <1>1, <1>2

\* So it always holds.
LEMMA Always == Spec => []Inv
<1>1. Init => Inv
  BY Initially
<1>2. Inv /\ [Next]_vars => Inv'
  BY Inductive
<1> QED BY <1>1, <1>2, PTL DEF Spec
-----------------------------------------------------------------------------
(* The theorems                                                            *)

\* The state is always well-typed: no line of periods goes past the dates, no row of the queue is of
\* nobody.
THEOREM TypeCorrect == Spec => []TypeOK
<1>1. Inv => TypeOK
  BY DEF Inv
<1> QED BY <1>1, Always, PTL

\* The periods of an account follow each other without overlap, and current_end is the end of the last.
THEOREM InLineAlways == Spec => []PeriodsInLine
<1>1. ASSUME Inv, NEW a \in Accounts
      PROVE  /\ \A p, q \in periods[a] : p # q => p.end <= q.start \/ q.end <= p.start
             /\ periods[a] # {} => sub[a].end = Max({p.end : p \in periods[a]})
  <2>1. LineOK(a) /\ periods[a] \subseteq Period /\ sub[a].end \in Times
    BY <1>1 DEF Inv, TypeOK
  <2>2. ASSUME periods[a] # {} PROVE sub[a].end = Max({p.end : p \in periods[a]})
    <3>1. PICK S : S = {p.end : p \in periods[a]}
      OBVIOUS
    <3>2. PICK e : e = sub[a].end
      OBVIOUS
    <3>3. e \in S
      BY <2>1, <2>2, <3>1, <3>2 DEF LineOK
    <3>4. \A y \in S : y \in Int /\ e >= y
      <4>1. \A p \in periods[a] : p.end \in Int /\ e \in Int /\ p.end <= e
        BY <2>1, <3>2, Constants DEF LineOK, Period, Times, Never
      <4> QED BY <3>1, <4>1
    <3>5. Max(S) = e
      BY <3>3, <3>4, MaxIs
    <3> QED BY <3>1, <3>2, <3>5
  <2> QED BY <2>1, <2>2 DEF LineOK
<1>2. Inv => PeriodsInLine
  BY <1>1 DEF PeriodsInLine
<1> QED BY <1>2, Always, PTL

\* A code gives one period, to the account that redeemed it, and none when it was not; a free phase is
\* compensated once, whatever dies in the job that does it.
THEOREM GivenOnceAlways == Spec => []GivenOnce
<1>1. ASSUME Inv, NEW c \in Codes, NEW given,
             given = {x \in Accounts \X UNION {periods[a] : a \in Accounts} :
                        x[2] \in periods[x[1]] /\ x[2].source = "code" /\ x[2].reason = c}
      PROVE  IF codes[c].status = "redeemed"
             THEN Cardinality(given) = 1 /\ \A x \in given : x[1] = codes[c].by
             ELSE given = {}
  <2>1. CodeOK(c)
    BY <1>1 DEF Inv
  <2>2. \A x \in given : /\ x = <<x[1], x[2]>> /\ x[1] \in Accounts /\ x[2] \in periods[x[1]]
                         /\ x[2].source = "code" /\ x[2].reason = c
    BY <1>1
  <2>3. \A x \in given : codes[c].status = "redeemed" /\ codes[c].by = x[1]
    BY <2>1, <2>2 DEF CodeOK
  <2>4. ASSUME codes[c].status = "redeemed" PROVE Cardinality(given) = 1
    <3>1. PICK b, p : b = codes[c].by /\ b \in Accounts /\ p \in periods[b] /\ p.source = "code" /\ p.reason = c
      BY <2>1, <2>4 DEF CodeOK
    <3>2. PICK y : y = <<b, p>>
      OBVIOUS
    <3>3. y \in given
      <4>1. y[1] = b /\ y[2] = p /\ p \in UNION {periods[a] : a \in Accounts}
        BY <3>1, <3>2
      <4>2. y \in Accounts \X UNION {periods[a] : a \in Accounts}
        BY <3>1, <3>2, <4>1
      <4> QED BY <1>1, <3>1, <4>1, <4>2
    <3>4. ASSUME NEW x \in given PROVE x = y
      <4>1. x[1] = b
        BY <2>3, <3>1, <3>4
      <4>2. x[2] = p
        BY <2>1, <2>2, <3>1, <3>4, <4>1 DEF CodeOK
      <4> QED BY <2>2, <3>2, <4>1, <4>2
    <3>5. given = {y}
      BY <3>3, <3>4
    <3> QED BY <3>5, FS_Singleton
  <2> QED BY <2>3, <2>4
<1>2. ASSUME Inv, NEW a \in Accounts, NEW p \in periods[a], NEW q \in periods[a],
             p.source = "compensation", q.source = "compensation", p.reason[1] = q.reason[1]
      PROVE  p = q
  <2>1. LengthOK(a) /\ p \in GivenBack(a) /\ q \in GivenBack(a)
    BY <1>2 DEF Inv, GivenBack
  <2>2. PICK t, u : p.reason = <<t>> /\ q.reason = <<u>>
    BY <2>1 DEF LengthOK
  <2>3. p.reason = q.reason
    BY <1>2, <2>2
  <2> QED BY <2>1, <2>3 DEF LengthOK
<1>3. Inv => GivenOnce
  BY <1>1, <1>2 DEF GivenOnce
<1> QED BY <1>3, Always, PTL

\* A new period marks nobody.
LEMMA AppendSpares ==
  ASSUME Inv, NEW b \in Accounts, NEW length, NEW source, NEW reason, AppendPeriod(b, length, source, reason),
         NEW a \in Accounts, ~sub[a].purged
  PROVE  ~sub'[a].purged
<1>1. PICK y : y = [end |-> NextPeriodStart(b) + length, purgeAfter |-> Never, purged |-> FALSE]
  OBVIOUS
<1>2. sub' = [sub EXCEPT ![b] = y] /\ y.purged = FALSE
  BY <1>1 DEF AppendPeriod
<1> QED BY <1>2 DEF Inv, TypeOK

\* Nor do the dates of a subscriber.
LEMMA DateSpares ==
  ASSUME Inv, NEW b, NEW d, sub' = [sub EXCEPT ![b].purgeAfter = d], NEW a \in Accounts, ~sub[a].purged
  PROVE  ~sub'[a].purged
<1>1. sub \in [Accounts -> [end : Times, purgeAfter : Times, purged : BOOLEAN]]
  BY DEF Inv, TypeOK
<1>2. PICK y : y = [sub[b] EXCEPT !.purgeAfter = d]
  OBVIOUS
<1>3. sub' = [sub EXCEPT ![b] = y]
  BY <1>2
<1>4. b \in Accounts => y.purged = sub[b].purged
  BY <1>1, <1>2
<1> QED BY <1>1, <1>3, <1>4

\* An account is marked for the deletion of its paid data only when it has no period left, even if
\* one was bought after the handler had decided.
THEOREM MarkedIsOverAlways == Spec => MarkedIsOver
<1>1. ASSUME Inv, Next, NEW a \in Accounts, sub'[a].purged, ~sub[a].purged
      PROVE  (\A p \in periods[a] : p.end <= now) /\ sub[a].purgeAfter \in 0..now
  <2>1. sub \in [Accounts -> [end : Times, purgeAfter : Times, purged : BOOLEAN]] /\ sub' # sub
    BY <1>1 DEF Inv, TypeOK
  <2>2. ASSUME NEW b \in Accounts, Grant(b) PROVE FALSE
    BY <1>1, <2>2, AppendSpares DEF Grant
  <2>3. ASSUME NEW b \in Accounts, NEW c \in Codes, RedeemCode(b, c) PROVE FALSE
    BY <1>1, <2>3, AppendSpares DEF RedeemCode
  <2>4. ASSUME NEW w \in Workers, Compensate(w) PROVE FALSE
    <3>1. PICK j : j = work[w].job
      OBVIOUS
    <3>2. PICK b \in CompensationDue(j) : AppendPeriod(b, j.at - j.due, "compensation", <<j.at>>)
      BY <2>4, <3>1 DEF Compensate
    <3>3. b \in Accounts
      BY <3>2 DEF CompensationDue
    <3> QED BY <1>1, <3>2, <3>3, AppendSpares
  <2>5. ASSUME NEW w \in Workers, Close(w) \/ Defer(w) PROVE FALSE
    <3>1. PICK b : b = work[w].acc
      OBVIOUS
    <3>2. sub' = [sub EXCEPT ![b].purgeAfter = work[w].due]
      BY <2>1, <2>5, <3>1 DEF Close, Defer
    <3> QED BY <1>1, <3>2, DateSpares
  <2>6. ASSUME NEW w \in Workers, Mark(w)
        PROVE  (\A p \in periods[a] : p.end <= now) /\ sub[a].purgeAfter \in 0..now
    <3>1. PICK b, s : b = work[w].acc /\ s = work[w].since
      OBVIOUS
    <3>2. sub[b].purgeAfter \in 0..s /\ sub' = [sub EXCEPT ![b].purged = TRUE]
      BY <2>1, <2>6, <3>1 DEF Mark
    <3>3. a = b
      <4>1. a # b => sub'[a] = sub[a]
        BY <2>1, <3>2
      <4> QED BY <1>1, <4>1
    <3>4. s \in Int /\ s <= now /\ now \in Nat
      BY <1>1, <3>1, Known, Constants DEF WorkOK, Times, Never
    <3>5. sub[a].purgeAfter \in 0..now /\ sub[a].purgeAfter # Never
      BY <3>2, <3>3, <3>4 DEF Never
    <3>6. sub[a].end <= now /\ \A p \in periods[a] : p.end <= sub[a].end
      BY <1>1, <3>5 DEF Inv, LineOK
    <3>7. \A p \in periods[a] : p.end \in Int /\ sub[a].end \in Int
      BY <1>1, Constants DEF Inv, TypeOK, Period, Times, Never
    <3> QED BY <3>4, <3>5, <3>6, <3>7
  <2>7. ASSUME NEW w \in Workers, Step(w)
        PROVE  (\A p \in periods[a] : p.end <= now) /\ sub[a].purgeAfter \in 0..now
    <3>1. CASE Expire(w) \/ Schedule(w) \/ Purge(w) \/ Wipe(w) \/ Compensated(w)
      BY <2>1, <3>1 DEF Expire, Schedule, Purge, Wipe, Compensated, Data
    <3> QED BY <2>4, <2>5, <2>6, <2>7, <3>1 DEF Step
  <2>8. CASE \/ \E r \in OrderRefs, count \in 1..PerPayment : IssueCodes(r, count)
             \/ \E c \in Codes : RevokeCode(c) \/ LapseCode(c)
             \/ \E m \in {"PLUS", "TRIAL"} : SetModel(m)
             \/ \E grace \in {1, Week} : Activate(grace)
             \/ Deactivate
             \/ \E to \in 1..MaxTime : ExtendGrace(to)
             \/ \E trial \in Trials, retention \in Retentions : UpdateSettings(trial, retention)
             \/ UpdateFeature
             \/ \E w \in Workers : Die(w)
             \/ \E w \in Workers, j \in jobs : Take(w, j)
             \/ \E w \in Workers, b \in Accounts : Sweep(w, b)
             \/ \E j \in jobs : LoseJob(j)
             \/ Tick
    BY <2>1, <2>8 DEF IssueCodes, RevokeCode, LapseCode, SetModel, Activate, Deactivate, ExtendGrace,
         UpdateSettings, UpdateFeature, Die, Take, Sweep,
         LoseJob, Tick
  <2> QED BY <1>1, <2>2, <2>3, <2>7, <2>8 DEF Next
<1>2. Inv /\ [Next]_vars =>
        [\A a \in Accounts : sub'[a].purged /\ ~sub[a].purged =>
          /\ \A p \in periods[a] : p.end <= now
          /\ sub[a].purgeAfter \in 0..now]_vars
  BY <1>1
<1> QED BY <1>2, Always, PTL DEF Spec, MarkedIsOver
-----------------------------------------------------------------------------
(* The trust of a phone without the network                                *)

\* The greatest of a set of naturals that has a bound is one of them.
LEMMA MaxIn ==
  ASSUME NEW n \in Nat, NEW S \in SUBSET (0..n), S # {}
  PROVE  Max(S) \in S /\ \A y \in S : Max(S) >= y
<1> DEFINE U == {m \in Nat : \A y \in S : y <= m}
<1>1. U \subseteq Nat /\ n \in U
  OBVIOUS
<1>2. \E m \in U : \A k \in U : ~ (<<k, m>> \in OpToRel(<, Nat))
  <2> HIDE DEF U
  <2> QED BY <1>1, NatLessThanWellFounded, WFMin
<1>3. PICK m \in U : \A k \in U : ~ (k < m)
  <2>1. \A k, m \in U : <<k, m>> \in OpToRel(<, Nat) <=> k < m
    BY DEF OpToRel
  <2> QED BY <1>2, <2>1
<1>4. m \in S
  <2> SUFFICES ASSUME m \notin S PROVE FALSE
    OBVIOUS
  <2>1. \A y \in S : y < m
    BY <1>3
  <2>2. PICK y \in S : TRUE
    OBVIOUS
  <2>3. m > 0 /\ m - 1 \in U
    BY <1>3, <2>1, <2>2
  <2> QED BY <1>3, <2>3
<1>5. \E x \in S : \A y \in S : x >= y
  BY <1>3, <1>4
<1> QED BY <1>5 DEF Max

\* The least of a set that has one.
LEMMA MinIs ==
  ASSUME NEW S, NEW m \in S, \A y \in S : y \in Int /\ m <= y
  PROVE  Min(S) = m
<1>1. Min(S) \in S /\ \A y \in S : Min(S) <= y
  BY DEF Min
<1>2. Min(S) <= m /\ m <= Min(S) /\ m \in Int /\ Min(S) \in Int
  BY <1>1
<1> QED BY <1>2

\* Until the end of its chain, an account that has a period has one.
LEMMA ChainIs ==
  ASSUME Inv, NEW a \in Accounts, Covered(a, now)
  PROVE  ChainEnd(a) \in Int /\ \A t \in Int : now <= t /\ t < ChainEnd(a) => Covered(a, t)
<1>1. PICK Q : Q = {q \in periods[a] : \A t \in now..(q.end - 1) : Covered(a, t)}
  OBVIOUS
<1>2. PICK S : S = {p.end : p \in Q}
  OBVIOUS
<1>3. /\ now \in Nat /\ sub[a].end \in Int
      /\ \A p \in periods[a] : p.start \in Int /\ p.end \in Int /\ 0 <= p.start /\ p.start < p.end /\
              p.end <= sub[a].end
  <2>1. Times \subseteq Int
    BY Constants DEF Times, Never
  <2>2. sub[a].end \in Times /\ \A p \in periods[a] : p.start \in Times /\ p.end \in Times /\ p.start < p.end
    BY DEF Inv, TypeOK, Period
  <2>3. \A p \in periods[a] : 0 <= p.start /\ p.end <= sub[a].end
    BY DEF Inv, LineOK
  <2>4. now \in Nat
    BY Constants DEF Inv, TypeOK
  <2> QED BY <2>1, <2>2, <2>3, <2>4
<1>4. PICK q \in periods[a] : q.start <= now /\ now < q.end
  BY DEF Covered, Covers
<1>5. q \in Q
  <2>1. ASSUME NEW t \in now..(q.end - 1) PROVE Covered(a, t)
    BY <1>3, <1>4, <2>1 DEF Covered, Covers
  <2> QED BY <1>1, <2>1
<1>6. PICK n : n = sub[a].end
  OBVIOUS
<1>7. n \in Nat /\ S \in SUBSET (0..n) /\ S # {}
  <2>1. \A p \in Q : p \in periods[a]
    BY <1>1
  <2>2. \A p \in Q : p.end \in 0..n
    BY <1>3, <1>6, <2>1
  <2>3. q.end \in S
    BY <1>2, <1>5
  <2>4. n \in Nat
    BY <1>3, <1>4, <1>6
  <2> QED BY <1>2, <2>2, <2>3, <2>4
<1>8. Max(S) \in S
  BY <1>7, MaxIn
<1>9. PICK p \in Q : p.end = Max(S)
  BY <1>2, <1>8
<1>10. ChainEnd(a) = p.end
  BY <1>1, <1>2, <1>9 DEF ChainEnd
<1>11. p \in periods[a] /\ \A t \in now..(p.end - 1) : Covered(a, t)
  BY <1>1, <1>9
<1>12. p.end \in Int /\ \A t \in Int : now <= t /\ t < p.end => t \in now..(p.end - 1)
  BY <1>3, <1>11
<1> QED BY <1>10, <1>11, <1>12

\* The date a phone is given is no later than any of those that end its rights.
LEMMA ValidIs ==
  ASSUME Inv, NEW a \in Accounts
  PROVE  /\ ValidUntil(a) \in Int /\ ValidUntil(a) <= now + Week
         /\ Covered(a, now) => ValidUntil(a) <= ChainEnd(a)
         /\ Phase(now) = "grace" => ValidUntil(a) <= settings.grace
         /\ InTrial(now) => ValidUntil(a) <= TrialEndsAt(0)
<1>1. PICK C \in BOOLEAN, G \in BOOLEAN, T \in BOOLEAN :
        C = Covered(a, now) /\ G = (Phase(now) = "grace") /\ T = InTrial(now)
  BY DEF Covered, InTrial
<1>2. PICK n, c, g, t : n = now + Week /\ c = ChainEnd(a) /\ g = settings.grace /\ t = TrialEndsAt(0)
  OBVIOUS
<1>3. n \in Int /\ (C => c \in Int) /\ g \in Int /\ t \in Int
  <2>1. now \in Nat /\ settings.grace \in Int
    BY Constants DEF Inv, TypeOK, Switch, Never
  <2>2. TrialEndsAt(0) \in Int
    BY TrialIs, Constants DEF Inv, Base
  <2>3. C => c \in Int
    BY <1>1, <1>2, ChainIs
  <2> QED BY <1>2, <2>1, <2>2, <2>3, Constants
<1>4. PICK R : R = {n} \union (IF C THEN {c} ELSE {})
  OBVIOUS
<1>5. PICK i \in R : (\A y \in R : y \in Int /\ i <= y) /\ i \in Int /\ i <= n /\ (C => i <= c)
  <2>1. n \in {n} /\ (\A y \in {n} : y \in Int /\ n <= y) /\ n \in Int
    BY <1>3
  <2>2. CASE C /\ c < n
    <3>1. c \in R /\ (\A y \in R : y \in Int /\ c <= y) /\ c \in Int /\ c <= n /\ c <= c
      BY <1>3, <1>4, <2>1, <2>2
    <3> QED BY <2>2, <3>1
  <2>3. CASE ~(C /\ c < n)
    <3>1. n \in R /\ (\A y \in R : y \in Int /\ n <= y) /\ n \in Int /\ n <= n /\ (C => n <= c)
      BY <1>3, <1>4, <2>1, <2>3
    <3> QED BY <3>1
  <2> QED BY <2>2, <2>3
<1>6. PICK S : S = R \union (IF G THEN {g} ELSE {})
  OBVIOUS
<1>7. PICK k \in S : (\A y \in S : y \in Int /\ k <= y) /\ k \in Int /\ k <= i /\ (G => k <= g)
  <2>1. i \in R /\ (\A y \in R : y \in Int /\ i <= y) /\ i \in Int
    BY <1>3, <1>5
  <2>2. CASE G /\ g < i
    <3>1. g \in S /\ (\A y \in S : y \in Int /\ g <= y) /\ g \in Int /\ g <= i /\ g <= g
      BY <1>3, <1>6, <2>1, <2>2
    <3> QED BY <2>2, <3>1
  <2>3. CASE ~(G /\ g < i)
    <3>1. i \in S /\ (\A y \in S : y \in Int /\ i <= y) /\ i \in Int /\ i <= i /\ (G => i <= g)
      BY <1>3, <1>6, <2>1, <2>3
    <3> QED BY <3>1
  <2> QED BY <2>2, <2>3
<1>8. PICK U : U = S \union (IF T THEN {t} ELSE {})
  OBVIOUS
<1>9. PICK m \in U : (\A y \in U : y \in Int /\ m <= y) /\ m \in Int /\ m <= k /\ (T => m <= t)
  <2>1. k \in S /\ (\A y \in S : y \in Int /\ k <= y) /\ k \in Int
    BY <1>3, <1>7
  <2>2. CASE T /\ t < k
    <3>1. t \in U /\ (\A y \in U : y \in Int /\ t <= y) /\ t \in Int /\ t <= k /\ t <= t
      BY <1>3, <1>8, <2>1, <2>2
    <3> QED BY <2>2, <3>1
  <2>3. CASE ~(T /\ t < k)
    <3>1. k \in U /\ (\A y \in U : y \in Int /\ k <= y) /\ k \in Int /\ k <= k /\ (T => k <= t)
      BY <1>3, <1>8, <2>1, <2>3
    <3> QED BY <3>1
  <2> QED BY <2>2, <2>3
<1>10. Min(U) = m
  BY <1>9, MinIs
<1>11. ValidUntil(a) = m
  BY <1>1, <1>2, <1>4, <1>6, <1>8, <1>10 DEF ValidUntil
<1>12. m <= n /\ (C => m <= c) /\ (G => m <= g) /\ (T => m <= t)
  BY <1>3, <1>5, <1>7, <1>9
<1> QED BY <1>1, <1>2, <1>9, <1>11, <1>12

\* A right that the phone trusts, if nothing moves, is there.
LEMMA Trusts ==
  ASSUME Inv, NEW a \in Accounts, NEW t \in Int, now <= t, t < ValidUntil(a)
  PROVE  (Features(a, now) => Features(a, t)) /\ (Outgoing(a, now) => Outgoing(a, t))
<1>1. now \in Nat /\ settings.grace \in Int /\ TrialEndsAt(0) \in Int
  BY TrialIs, Constants DEF Inv, TypeOK, Switch, Never, Base
<1>2. ASSUME Phase(now) # "paid" PROVE Phase(t) # "paid"
  <2>1. CASE ~settings.enabled
    BY <2>1 DEF Phase
  <2>2. CASE settings.enabled
    <3>1. Phase(now) = "grace"
      BY <1>2, <2>2 DEF Phase
    <3>2. t < settings.grace
      BY <1>1, <3>1, ValidIs
    <3> QED BY <3>2 DEF Phase
  <2> QED BY <2>1, <2>2
<1>3. ASSUME InTrial(now) PROVE InTrial(t)
  <2>1. t < TrialEndsAt(0)
    BY <1>1, <1>3, ValidIs
  <2> QED BY <1>3, <2>1 DEF InTrial
<1>4. ASSUME Covered(a, now) PROVE Covered(a, t)
  <2>1. ValidUntil(a) \in Int /\ ChainEnd(a) \in Int /\ ValidUntil(a) <= ChainEnd(a)
    BY <1>4, ValidIs, ChainIs
  <2>2. t < ChainEnd(a)
    BY <2>1
  <2> QED BY <1>4, <2>2, ChainIs
<1> QED BY <1>2, <1>3, <1>4 DEF Features, Outgoing

\* A right that is to last still lasts when periods are added, time passes or the grace is put off, but
\* for what the administration takes back from those that no period covers.
LEMMA Lasts ==
  ASSUME Inv, Inv', NEW a \in Accounts, NEW t \in Int, periods[a] \subseteq periods'[a],
         settings'.enabled = settings.enabled, settings'.model = settings.model, settings'.grace >= settings.grace
  PROVE  /\ Features(a, t) => Features(a, t)' \/ Shortened(a, t) \/ MadePaid(a, t)
         /\ Outgoing(a, t) => Outgoing(a, t)' \/ Shortened(a, t)
<1>1. /\ TrialEndsAt(0) \in Int /\ TrialEndsAt(0)' \in Int /\ settings.grace \in Int /\ settings'.grace \in Int
      /\ settings.trial \in Int /\ settings'.trial \in Int
      /\ TrialEndsAt(0) \in {settings.trial, settings.grace} /\ TrialEndsAt(0)' >= settings'.trial
      /\ (settings'.enabled => TrialEndsAt(0)' >= settings'.grace)
  <2>1. /\ TrialEndsAt(0) \in Int /\ TrialEndsAt(0) \in {settings.trial, settings.grace}
        /\ settings.grace \in Int /\ settings.trial \in Int
    BY TrialIs, Constants DEF Inv, TypeOK, Base, Switch, Never
  <2>2. /\ TrialEndsAt(0)' \in Int /\ TrialEndsAt(0)' >= settings'.trial /\ settings'.trial \in Int
        /\ (settings'.enabled => TrialEndsAt(0)' >= settings'.grace) /\ settings'.grace \in Int
    <3>1. PICK l, g, e, m : l = settings'.trial /\ g = settings'.grace /\ e = settings'.enabled /\ m = TrialEndsAt(0)'
      OBVIOUS
    <3>2. l \in Nat /\ g \in Int /\ e \in BOOLEAN
      <4>1. settings'.grace \in Never..(MaxTime + Week) /\ settings'.enabled \in BOOLEAN /\ settings'.trial \in 0..MaxTrial
        BY DEF Inv, TypeOK, Switch
      <4> QED BY <3>1, <4>1, Constants DEF Never
    <3>3. m = Max({0 + l} \union IF e THEN {g} ELSE {})
      BY <3>1 DEF TrialEndsAt
    <3>4. m >= l /\ (e => m >= g) /\ m \in Int
      <4> HIDE <3>1
      <4>1. m = Max({0 + l} \union IF e THEN {g} ELSE {}) => m >= l /\ (e => m >= g) /\ m \in Int
        BY <3>2, TrialMax
      <4> QED BY <3>3, <4>1
    <3> QED BY <3>1, <3>2, <3>4
  <2> QED BY <2>1, <2>2
<1>2. Phase(t) # "paid" => Phase(t)' # "paid"
  BY <1>1 DEF Phase
<1>3. Covered(a, t) => Covered(a, t)'
  BY DEF Covered, Covers
<1>4. ASSUME InTrial(t), ~Covered(a, t) PROVE InTrial(t)' \/ Shortened(a, t)
  <2>1. CASE t < TrialEndsAt(0)'
    BY <1>4, <2>1 DEF InTrial
  <2>2. CASE ~(t < TrialEndsAt(0)')
    <3>1. t < TrialEndsAt(0) /\ TrialEndsAt(0)' <= t /\ settings'.enabled
      BY <1>1, <1>4, <2>2 DEF InTrial
    <3>2. settings'.trial < settings.trial
      BY <1>1, <3>1
    <3> QED BY <1>4, <3>1, <3>2 DEF Shortened
  <2> QED BY <2>1, <2>2
<1>5. ASSUME ~settings.paid, ~Covered(a, t) PROVE ~settings'.paid \/ MadePaid(a, t)
  BY <1>5 DEF MadePaid
<1> QED BY <1>2, <1>3, <1>4, <1>5 DEF Features, Outgoing

\* What a new period adds.
LEMMA AppendAdds ==
  ASSUME Inv, NEW b \in Accounts, NEW length, NEW source, NEW reason, AppendPeriod(b, length, source, reason),
         NEW a \in Accounts
  PROVE  periods[a] \subseteq periods'[a]
<1>1. PICK X : periods' = [periods EXCEPT ![b] = @ \union X]
  BY DEF AppendPeriod
<1> QED BY <1>1 DEF Inv, TypeOK

\* A move either keeps the offer as it was, its grace put off at most, or leaves everybody free for a week.
LEMMA Leaves ==
  ASSUME Inv, Next, NEW a \in Accounts
  PROVE  \/ /\ periods[a] \subseteq periods'[a] /\ settings'.enabled = settings.enabled
            /\ settings'.model = settings.model /\ settings'.grace >= settings.grace
         \/ ~settings'.enabled
         \/ now' = now /\ settings'.grace >= now + Week
<1>1. settings.grace \in Int /\ now \in Nat
  BY Constants DEF Inv, TypeOK, Switch, Never
<1> DEFINE Same == /\ periods[a] \subseteq periods'[a] /\ settings'.enabled = settings.enabled
                   /\ settings'.model = settings.model /\ settings'.grace >= settings.grace
<1>2. ASSUME settings' = settings, periods[a] \subseteq periods'[a] PROVE Same
  BY <1>1, <1>2
<1>3. ASSUME NEW b \in Accounts, Grant(b) \/ \E c \in Codes : RedeemCode(b, c) PROVE Same
  <2>1. periods[a] \subseteq periods'[a]
    BY <1>3, AppendAdds DEF Grant, RedeemCode
  <2>2. settings' = settings
    BY <1>3 DEF Grant, RedeemCode
  <2> QED BY <1>2, <2>1, <2>2
<1>4. ASSUME NEW w \in Workers, Compensate(w) PROVE Same
  <2>1. PICK j : j = work[w].job
    OBVIOUS
  <2>2. PICK b \in CompensationDue(j) : AppendPeriod(b, j.at - j.due, "compensation", <<j.at>>)
    BY <1>4, <2>1 DEF Compensate
  <2>3. b \in Accounts
    BY <2>2 DEF CompensationDue
  <2>4. periods[a] \subseteq periods'[a]
    BY <2>2, <2>3, AppendAdds
  <2>5. settings' = settings
    BY <1>4 DEF Compensate
  <2> QED BY <1>2, <2>4, <2>5
<1>5. ASSUME \/ \E r \in OrderRefs, count \in 1..PerPayment : IssueCodes(r, count)
             \/ \E c \in Codes : RevokeCode(c) \/ LapseCode(c)
             \/ \E w \in Workers : Die(w)
             \/ \E w \in Workers, j \in jobs : Take(w, j)
             \/ \E w \in Workers, b \in Accounts : Sweep(w, b)
             \/ \E j \in jobs : LoseJob(j)
             \/ Tick
             \/ \E w \in Workers : Expire(w) \/ Close(w) \/ Schedule(w) \/ Purge(w) \/ Defer(w) \/ Mark(w) \/
                     Wipe(w) \/ Compensated(w)
      PROVE  Same
  <2>1. settings' = settings /\ periods' = periods
    BY <1>5 DEF IssueCodes, RevokeCode, LapseCode, Die, Take, Sweep, LoseJob, Tick, Expire, Close, Schedule, Purge,
            Defer,
         Mark, Wipe, Compensated, Quiet, Data
  <2> QED BY <1>2, <2>1
<1>6. ASSUME NEW m \in {"PLUS", "TRIAL"}, SetModel(m) PROVE ~settings'.enabled
  BY <1>6 DEF SetModel, Inv, TypeOK
<1>7. ASSUME Deactivate PROVE ~settings'.enabled
  BY <1>7 DEF Deactivate, Inv, TypeOK
<1>8. ASSUME NEW grace \in {1, Week}, Activate(grace) PROVE now' = now /\ settings'.grace >= now + Week
  <2>1. now' = now /\ settings'.grace = now + grace /\ grace >= Week
    BY <1>8 DEF Activate, Inv, TypeOK
  <2> QED BY <1>1, <2>1, Constants
<1>9. ASSUME NEW to \in 1..MaxTime, ExtendGrace(to) PROVE Same
  <2>1. /\ settings'.grace = to /\ settings'.enabled = settings.enabled /\ settings'.model = settings.model
        /\ to > settings.grace /\ periods' = periods
    BY <1>9 DEF ExtendGrace, Inv, TypeOK
  <2> QED BY <1>1, <2>1, Constants
<1>11. ASSUME \/ \E trial \in Trials, retention \in Retentions : UpdateSettings(trial, retention)
              \/ UpdateFeature
       PROVE  Same
  <2>1. /\ settings'.grace = settings.grace /\ settings'.enabled = settings.enabled
        /\ settings'.model = settings.model /\ periods' = periods
    BY <1>11 DEF UpdateSettings, UpdateFeature, Inv, TypeOK
  <2> QED BY <1>1, <2>1
<1> HIDE DEF Same
<1>10. Same \/ ~settings'.enabled \/ (now' = now /\ settings'.grace >= now + Week)
  BY <1>3, <1>4, <1>5, <1>6, <1>7, <1>8, <1>9, <1>11 DEF Next, Step
<1> QED BY <1>10 DEF Same

\* A phone without the network may trust its rights until the date it was given: within the week of that
\* trust, only a shorter trial and features made paid, two decisions of the administration, take away
\* at once what no period covers.
THEOREM TrustIsKeptAlways == Spec => TrustIsKept
<1>1. ASSUME Inv, Inv', Next, NEW a \in Accounts, NEW t \in now'..(now' + Week - 1)
      PROVE  /\ Features(a, t) \/ (t < ValidUntil(a) /\ Features(a, now)) =>
                  Features(a, t)' \/ Shortened(a, t) \/ MadePaid(a, t)
             /\ Outgoing(a, t) \/ (t < ValidUntil(a) /\ Outgoing(a, now)) => Outgoing(a, t)' \/ Shortened(a, t)
  <2>1. now' \in Nat /\ now \in Nat /\ (now' = now \/ now' = now + 1) /\ t \in Int /\ now' <= t /\ t < now' + Week
    <3>1. now' \in Nat /\ now \in Nat
      BY <1>1, Constants DEF Inv, TypeOK
    <3>2. now' = now \/ now' = now + 1
      BY <1>1 DEF Next, Step, Grant, IssueCodes, RedeemCode, RevokeCode, LapseCode, SetModel, Activate, Deactivate,
              ExtendGrace, UpdateSettings, UpdateFeature,
           Die, Take, Sweep, LoseJob, Tick, Expire, Close, Schedule, Purge, Defer, Mark, Wipe, Compensate,
                   Compensated, Quiet
    <3>3. PICK k : k = now'
      OBVIOUS
    <3>4. t \in k..(k + Week - 1)
      BY <3>3, Zenon
    <3>5. k \in Int /\ Week \in Nat
      BY <3>1, <3>3, Constants
    <3>6. t \in Int /\ k <= t /\ t < k + Week
      BY <3>4, <3>5
    <3> QED BY <3>1, <3>2, <3>3, <3>6
  <2>2. CASE ~settings'.enabled
    BY <2>2 DEF Features, Outgoing, Phase
  <2>3. CASE now' = now /\ settings'.grace >= now + Week
    <3>1. settings'.grace \in Int
      BY <1>1, Constants DEF Inv, TypeOK, Switch, Never
    <3>2. t < settings'.grace
      BY <2>1, <2>3, <3>1, Constants
    <3> QED BY <3>2 DEF Features, Outgoing, Phase
  <2>4. CASE /\ periods[a] \subseteq periods'[a] /\ settings'.enabled = settings.enabled
             /\ settings'.model = settings.model /\ settings'.grace >= settings.grace
    <3>1. /\ Features(a, t) => Features(a, t)' \/ Shortened(a, t) \/ MadePaid(a, t)
          /\ Outgoing(a, t) => Outgoing(a, t)' \/ Shortened(a, t)
      BY <1>1, <2>1, <2>4, Lasts
    <3>2. t < ValidUntil(a) => (Features(a, now) => Features(a, t)) /\ (Outgoing(a, now) => Outgoing(a, t))
      BY <1>1, <2>1, Trusts
    <3> QED BY <3>1, <3>2
  <2> QED BY <1>1, <2>2, <2>3, <2>4, Leaves
<1>2. Inv /\ Inv' /\ [Next]_vars =>
        [\A a \in Accounts : \A t \in now'..(now' + Week - 1) :
           LET trusted == t < ValidUntil(a) IN
           /\ Features(a, t) \/ (trusted /\ Features(a, now)) =>
                Features(a, t)' \/ Shortened(a, t) \/ MadePaid(a, t)
           /\ Outgoing(a, t) \/ (trusted /\ Outgoing(a, now)) => Outgoing(a, t)' \/ Shortened(a, t)]_vars
  BY <1>1
<1> QED BY <1>2, Always, PTL DEF Spec, TrustIsKept
=============================================================================
