---------------------------- MODULE TelemetryProofs ----------------------------
(****************************************************************************)
(* That a scrape overlooks no request, for any requests, routes, operation  *)
(* names and number of scrapes; and, for any bodies, names and options,     *)
(* that peeking into a GraphQL body leaves it to the handler, reads no more *)
(* than the window, and takes the name from a whole body.                   *)
(*                                                                          *)
(* The samples of a meter are the requests that have come past it, whatever *)
(* their keys: the sum over the keys grows by one with every sample.  A     *)
(* meter is never reset, so what a scrape finds there is no less than what  *)
(* stood there when the scrape began.                                       *)
(****************************************************************************)
EXTENDS RequestMeter, OperationPeek, FiniteSetTheorems, WellFoundedInduction, TLAPS

Sampled == {r \in Requests : pc[r] = "sampled"}
IsOperated(r) == pc[r] \in Counted /\ name[r] \in Listed /\ r \notin recovered
Operated == {r \in Requests : IsOperated(r)}

(* Nobody leaves before the sample is taken, but for a panic.               *)
InsideUntilSampled ==
    \A r \in Requests : /\ pc[r] \in Running \cup {"operated", "recovered"} => r \in inside
                        /\ r \in inside => pc[r] # "new"

(* A recovered panic has missed graphql.Metrics.                            *)
RecoveredMissed ==
    \A r \in Requests : /\ r \in recovered => pc[r] \in {"recovered", "sampled"}
                        /\ pc[r] = "recovered" => r \in recovered

GaugeIsInside == inFlight = Cardinality(inside)

SamplesAreRequests ==
    /\ Samples(count, "http") = Cardinality(Sampled)
    /\ Samples(count, "operations") = Cardinality(Operated)

(* What the scrape under way still has to find, where it has not read yet.  *)
ScrapeKeepsUp ==
    /\ scraper = "http" => entered <= seen.inFlight + Samples(count, "http")
    /\ scraper \in {"operations", "resolvers"} =>
          entered <= seen.inFlight + Samples(seen.count, "http")
    /\ scraper = "operations" =>
          Samples(seen.count, "http") <= Samples(count, "operations") + unoperated
    /\ scraper = "resolvers" =>
          Samples(seen.count, "http") <= Samples(seen.count, "operations") + unoperated

MeterInv ==
    /\ TypeOK /\ InsideUntilSampled /\ RecoveredMissed /\ GaugeIsInside
    /\ SamplesAreRequests /\ ScrapeKeepsUp


-----------------------------------------------------------------------------
(* The sum of a function over a finite set, by the size of what is summed.  *)

LEMMA LeastOfSome ==
    ASSUME NEW S, S \subseteq Nat, S # {}
    PROVE  \E i \in S : \A j \in S : i <= j
<1>1. \E i \in S : \A j \in S : ~(<<j, i>> \in OpToRel(<, Nat))
  BY NatLessThanWellFounded, WFMin
<1>2. \A i, j \in S : <<j, i>> \in OpToRel(<, Nat) <=> j < i
  BY DEF OpToRel
<1>3. \E i \in S : \A j \in S : ~(j < i)
  BY <1>1, <1>2, Zenon
<1> QED
  BY <1>3

LEMMA GreatestOfSome ==
    ASSUME NEW S, NEW n \in Nat, S \subseteq 1..n, S # {}
    PROVE  \E i \in S : \A j \in S : j <= i
<1> DEFINE T == {k \in Nat : \E i \in S : k = n - i}
<1>1. T # {}
  <2>1. PICK i \in S : TRUE
    OBVIOUS
  <2>2. n - i \in T
    OBVIOUS
  <2> QED
    BY <2>2
<1>2. PICK k \in T : \A j \in T : k <= j
  BY <1>1, LeastOfSome
<1>3. n - k \in S /\ \A j \in S : n - j \in T
  OBVIOUS
<1> QED
  BY <1>2, <1>3

(* A set that has 0, and n + 1 with every n, has every number.              *)
LEMMA AllNumbers ==
    ASSUME NEW S, 0 \in S, \A n \in Nat : n \in S => n + 1 \in S
    PROVE  Nat \subseteq S
<1> SUFFICES ASSUME Nat \ S # {} PROVE FALSE
  OBVIOUS
<1>1. PICK i \in Nat \ S : \A j \in Nat \ S : i <= j
  BY LeastOfSome
<1>2. i # 0 /\ i - 1 \in Nat /\ i - 1 \notin Nat \ S
  BY <1>1
<1> QED
  BY <1>1, <1>2

Pick(s) == CHOOSE x \in s : TRUE

(* What one round of the fold makes of the sum of the rest.                 *)
Folded(f, it, s) == IF s = {} THEN 0 ELSE f[Pick(s)] + it[s \ {Pick(s)}]

FoldOf(f) == CHOOSE it : it = [s \in SUBSET DOMAIN f |-> Folded(f, it, s)]

LEMMA SumIsFold ==
    ASSUME NEW f
    PROVE  SumOver(f) = FoldOf(f)[DOMAIN f]
BY DEF SumOver, MapThenSumSet, MapThenFoldSet, FoldOf, Folded, Pick

LEMMA PickOne ==
    ASSUME NEW s, IsFiniteSet(s), s # {}
    PROVE  /\ Pick(s) \in s /\ IsFiniteSet(s \ {Pick(s)})
           /\ Cardinality(s) \in Nat
           /\ Cardinality(s \ {Pick(s)}) = Cardinality(s) - 1
<1>1. Pick(s) \in s
  BY DEF Pick
<1> QED
  BY <1>1, FS_RemoveElement, FS_CardinalityType

LEMMA FoldExists ==
    ASSUME NEW D, IsFiniteSet(D), NEW f \in [D -> Nat]
    PROVE  FoldOf(f) = [s \in SUBSET D |-> Folded(f, FoldOf(f), s)]
<1> DEFINE FoldsTo(it, n) ==
               \A s \in SUBSET D : Cardinality(s) <= n => it[s] = Folded(f, it, s)
           Sizes == {n \in Nat : \E it \in [SUBSET D -> Nat] : FoldsTo(it, n)}
<1>1. \A s \in SUBSET D : IsFiniteSet(s) /\ Cardinality(s) \in Nat
  BY FS_Subset, FS_CardinalityType
<1>2. 0 \in Sizes
  <2> DEFINE zero == [s \in SUBSET D |-> 0]
  <2>1. \A s \in SUBSET D : Cardinality(s) <= 0 => s = {}
    BY <1>1, FS_EmptySet
  <2>2. zero \in [SUBSET D -> Nat] /\ FoldsTo(zero, 0)
    BY <2>1 DEF Folded
  <2> QED
    BY <2>2
<1>3. ASSUME NEW n \in Nat, n \in Sizes PROVE n + 1 \in Sizes
  <2>1. PICK it \in [SUBSET D -> Nat] : FoldsTo(it, n)
    BY <1>3
  <2> DEFINE next == [s \in SUBSET D |-> IF Cardinality(s) <= n THEN it[s]
                                         ELSE Folded(f, it, s)]
  <2>2. ASSUME NEW s \in SUBSET D, s # {}
        PROVE  /\ Pick(s) \in D /\ s \ {Pick(s)} \in SUBSET D
               /\ Cardinality(s \ {Pick(s)}) = Cardinality(s) - 1
    BY <1>1, <2>2, PickOne
  <2>3. ASSUME NEW s \in SUBSET D PROVE Folded(f, it, s) \in Nat
    <3>1. CASE s = {}
      BY <3>1 DEF Folded
    <3>2. CASE s # {}
      <4>1. f[Pick(s)] \in Nat /\ it[s \ {Pick(s)}] \in Nat
        BY <2>1, <2>2, <3>2
      <4> QED
        BY <3>2, <4>1 DEF Folded
    <3> QED
      BY <3>1, <3>2
  <2>4. next \in [SUBSET D -> Nat]
    BY <2>3
  <2>5. ASSUME NEW s \in SUBSET D, Cardinality(s) <= n + 1
        PROVE  next[s] = Folded(f, next, s)
    <3>1. CASE s = {}
      BY <1>1, <2>1, <3>1, FS_EmptySet DEF Folded
    <3>2. CASE s # {}
      <4>1. Cardinality(s \ {Pick(s)}) <= n /\ s \ {Pick(s)} \in SUBSET D
        BY <1>1, <2>2, <2>5, <3>2
      <4>2. next[s \ {Pick(s)}] = it[s \ {Pick(s)}]
        BY <4>1
      <4>3. Folded(f, next, s) = Folded(f, it, s)
        BY <4>2 DEF Folded
      <4> QED
        BY <2>1, <4>3
    <3> QED
      BY <3>1, <3>2
  <2>6. FoldsTo(next, n + 1)
    BY <2>5
  <2> HIDE DEF next, FoldsTo
  <2> QED
    BY <2>4, <2>6
<1>4. Cardinality(D) \in Sizes
  BY <1>1, <1>2, <1>3, AllNumbers
<1>5. PICK it \in [SUBSET D -> Nat] : FoldsTo(it, Cardinality(D))
  BY <1>4
<1>6. it = [s \in SUBSET D |-> Folded(f, it, s)]
  <2>1. \A s \in SUBSET D : Cardinality(s) <= Cardinality(D)
    BY FS_Subset
  <2> QED
    BY <1>5, <2>1
<1>7. DOMAIN f = D
  OBVIOUS
<1> QED
  BY <1>6, <1>7, Zenon DEF FoldOf

LEMMA SumOfNothing ==
    ASSUME NEW D, IsFiniteSet(D)
    PROVE  SumOver([x \in D |-> 0]) = 0
<1> DEFINE f == [x \in D |-> 0]
           Sizes == {n \in Nat : \A s \in SUBSET D : Cardinality(s) = n => FoldOf(f)[s] = 0}
<1> f \in [D -> Nat] /\ DOMAIN f = D
  OBVIOUS
<1>1. \A s \in SUBSET D : IsFiniteSet(s) /\ Cardinality(s) \in Nat
  BY FS_Subset, FS_CardinalityType
<1>2. \A s \in SUBSET D : FoldOf(f)[s] = Folded(f, FoldOf(f), s)
  <2>1. FoldOf(f) = [s \in SUBSET D |-> Folded(f, FoldOf(f), s)]
    BY FoldExists
  <2> HIDE DEF f
  <2> QED
    BY <2>1
<1>3. 0 \in Sizes
  BY <1>1, <1>2, FS_EmptySet DEF Folded
<1>4. ASSUME NEW n \in Nat, n \in Sizes PROVE n + 1 \in Sizes
  <2> SUFFICES ASSUME NEW s \in SUBSET D, Cardinality(s) = n + 1
               PROVE  FoldOf(f)[s] = 0
    OBVIOUS
  <2>1. s # {}
    BY FS_EmptySet
  <2>2. Pick(s) \in D /\ Cardinality(s \ {Pick(s)}) = n /\ s \ {Pick(s)} \in SUBSET D
    BY <1>1, <2>1, PickOne
  <2> QED
    BY <1>2, <1>4, <2>1, <2>2 DEF Folded
<1>5. Cardinality(D) \in Sizes
  BY <1>1, <1>3, <1>4, AllNumbers
<1> QED
  BY <1>5, SumIsFold

LEMMA SumOfOneMore ==
    ASSUME NEW D, IsFiniteSet(D), NEW f \in [D -> Nat], NEW k \in D
    PROVE  SumOver(f) \in Nat /\ SumOver([f EXCEPT ![k] = @ + 1]) = SumOver(f) + 1
<1> DEFINE g == [f EXCEPT ![k] = @ + 1]
           Grows(s) == /\ FoldOf(f)[s] \in Nat
                       /\ FoldOf(g)[s] = FoldOf(f)[s] + (IF k \in s THEN 1 ELSE 0)
           Sizes == {n \in Nat : \A s \in SUBSET D : Cardinality(s) = n => Grows(s)}
<1>0. g \in [D -> Nat] /\ DOMAIN f = D /\ DOMAIN g = D
      /\ \A x \in D : g[x] = f[x] + (IF x = k THEN 1 ELSE 0)
  OBVIOUS
<1>1. \A s \in SUBSET D : IsFiniteSet(s) /\ Cardinality(s) \in Nat
  BY FS_Subset, FS_CardinalityType
<1>2. \A s \in SUBSET D : /\ FoldOf(f)[s] = Folded(f, FoldOf(f), s)
                          /\ FoldOf(g)[s] = Folded(g, FoldOf(g), s)
  <2> HIDE DEF g
  <2>1. /\ FoldOf(f) = [s \in SUBSET D |-> Folded(f, FoldOf(f), s)]
        /\ FoldOf(g) = [s \in SUBSET D |-> Folded(g, FoldOf(g), s)]
    BY <1>0, FoldExists
  <2> QED
    BY <2>1
<1> HIDE DEF g
<1>3. 0 \in Sizes
  BY <1>1, <1>2, FS_EmptySet DEF Folded
<1>4. ASSUME NEW n \in Nat, n \in Sizes PROVE n + 1 \in Sizes
  <2> SUFFICES ASSUME NEW s \in SUBSET D, Cardinality(s) = n + 1
               PROVE  Grows(s)
    OBVIOUS
  <2>1. s # {}
    BY FS_EmptySet
  <2> DEFINE x == Pick(s)
             t == s \ {x}
  <2>2. x \in s /\ x \in D /\ Cardinality(t) = n /\ t \in SUBSET D
    BY <1>1, <2>1, PickOne
  <2>3. Grows(t)
    BY <1>4, <2>2
  <2>4. FoldOf(f)[s] = f[x] + FoldOf(f)[t] /\ FoldOf(g)[s] = g[x] + FoldOf(g)[t]
    BY <1>2, <2>1 DEF Folded
  <2>5. k \in s <=> (k \in t \/ x = k)
    BY <2>2
  <2>6. x = k => k \notin t
    OBVIOUS
  <2> HIDE DEF x, t
  <2> QED
    BY <1>0, <2>2, <2>3, <2>4, <2>5, <2>6
<1>5. Cardinality(D) \in Sizes
  BY <1>1, <1>3, <1>4, AllNumbers
<1> QED
  BY <1>0, <1>5, SumIsFold DEF g

LEMMA SumIsNumber ==
    ASSUME NEW D, IsFiniteSet(D), NEW f \in [D -> Nat]
    PROVE  SumOver(f) \in Nat
<1>1. CASE D = {}
  <2>1. f = [x \in D |-> 0]
    BY <1>1
  <2> QED
    BY <2>1, SumOfNothing
<1>2. CASE D # {}
  BY <1>2, SumOfOneMore
<1> QED
  BY <1>1, <1>2

-----------------------------------------------------------------------------
(* The meters.                                                              *)

LEMMA KeysAreFinite == IsFiniteSet(Keys)
<1> DEFINE f == [n \in Names |-> Named(n)]
<1>1. f \in Surjection(Names, Keys)
  BY DEF Surjection, Keys
<1> QED
  BY <1>1, MeterAssumption, FS_Surjection

LEMMA SetsAreFinite ==
    ASSUME NEW S \in SUBSET Requests
    PROVE  IsFiniteSet(S) /\ Cardinality(S) \in 0..Cardinality(Requests)
<1>1. IsFiniteSet(S) /\ Cardinality(S) <= Cardinality(Requests)
  BY MeterAssumption, FS_Subset
<1>2. Cardinality(S) \in Nat /\ Cardinality(Requests) \in Nat
  BY <1>1, MeterAssumption, FS_CardinalityType
<1> QED
  BY <1>1, <1>2

LEMMA SamplesAreNumbers ==
    ASSUME NEW counts \in Observations, NEW m \in Meters
    PROVE  Samples(counts, m) \in Nat
BY KeysAreFinite, SumIsNumber DEF Observations, Samples

(* recordHTTP and recordMeter add one sample to their own meter.            *)
LEMMA SampleAddsOne ==
    ASSUME TypeOK, NEW r \in Requests, NEW m \in Meters, Sample(m, r)
    PROVE  /\ total' \in Totals /\ count' \in Observations
           /\ Samples(count', m) = Samples(count, m) + 1
           /\ \A o \in Meters \ {m} : Samples(count', o) = Samples(count, o)
<1> DEFINE k == Named(name[r])
<1>1. k \in Keys
  BY DEF TypeOK, Keys
<1>2. StatusClass(code[r]) \in Classes
  <2>1. code[r] \in Codes \cup {500}
    BY DEF TypeOK
  <2>2. Codes \cup {500} \subseteq Nat
    BY MeterAssumption
  <2> QED
    BY <2>1, <2>2 DEF StatusClass, Classes
<1>3. /\ total' = [total EXCEPT ![m][k] = OneMore(@, StatusClass(code[r]))]
      /\ count' = [count EXCEPT ![m][k] = @ + 1]
  BY DEF Sample
<1> HIDE DEF k
<1>4. total \in [Meters -> [Keys -> [Classes -> Nat]]] /\ count \in [Meters -> [Keys -> Nat]]
  BY DEF TypeOK, Totals, Observations
<1>5. OneMore(total[m][k], StatusClass(code[r])) \in [Classes -> Nat]
  BY <1>1, <1>2, <1>4 DEF OneMore
<1>6. total' \in [Meters -> [Keys -> [Classes -> Nat]]]
  BY <1>1, <1>3, <1>4, <1>5
<1>7. count' \in [Meters -> [Keys -> Nat]]
  BY <1>1, <1>3, <1>4
<1>8. count'[m] = [count[m] EXCEPT ![k] = @ + 1] /\ count[m] \in [Keys -> Nat]
  BY <1>1, <1>3, <1>4
<1>9. \A o \in Meters \ {m} : count'[o] = count[o]
  BY <1>3, <1>4
<1>10. Samples(count', m) = Samples(count, m) + 1
  BY <1>1, <1>8, KeysAreFinite, SumOfOneMore DEF Samples
<1> QED
  BY <1>6, <1>7, <1>9, <1>10 DEF Totals, Observations, Samples

LEMMA MeterInit == Init => MeterInv
<1> SUFFICES ASSUME Init PROVE MeterInv
  OBVIOUS
<1>1. NoTotals \in Totals /\ NoObservations \in Observations
  BY DEF NoTotals, NoObservations, Totals, Observations
<1>2. TypeOK
  <2>1. 0 \in 0..Cardinality(Requests) /\ 0 \in 0..MaxScrapes
    BY SetsAreFinite, MeterAssumption
  <2> QED
    BY <1>1, <2>1 DEF Init, TypeOK, NothingSeen, Running, Counted
<1>3. InsideUntilSampled /\ RecoveredMissed /\ ScrapeKeepsUp
  BY DEF Init, InsideUntilSampled, RecoveredMissed, ScrapeKeepsUp, Running
<1>4. GaugeIsInside
  BY FS_EmptySet DEF Init, GaugeIsInside
<1>5. SamplesAreRequests
  <2>1. Sampled = {} /\ Operated = {}
    BY DEF Init, Sampled, Operated, IsOperated, Counted
  <2>2. Samples(count, "http") = 0 /\ Samples(count, "operations") = 0
    BY KeysAreFinite, SumOfNothing DEF Init, NoObservations, Samples, Meters
  <2> QED
    BY <2>1, <2>2, FS_EmptySet DEF SamplesAreRequests
<1> QED
  BY <1>2, <1>3, <1>4, <1>5 DEF MeterInv

(* A request that goes on.                                                  *)
LEMMA StepKeepsRest ==
    ASSUME TypeOK, NEW r \in Requests, NEW from, NEW to, Step(r, from, to)
    PROVE  /\ pc' = [pc EXCEPT ![r] = to] /\ pc[r] \in from /\ pc'[r] = to
           /\ \A q \in Requests : q # r => pc'[q] = pc[q]
           /\ UNCHANGED <<name, recovers, enabled, scraper, seen, entered, unoperated, scrapes>>
BY DEF Step, TypeOK, scrapeVars

LEMMA ProceedsIsStep ==
    ASSUME NEW r, NEW from, NEW to, Proceeds(r, from, to)
    PROVE  Step(r, from, to) /\ code' = code /\ recovered' = recovered
BY DEF Proceeds

Coming == {"new"} \cup Running

(* Who has come past the meters, when a request goes on: sampled is counted *)
(* once, and so is operated, unless the options leave it out.               *)
LEMMA SampledGrows ==
    ASSUME MeterInv, NEW r \in Requests, NEW from, NEW to, Proceeds(r, from, to)
    PROVE  /\ from \subseteq Coming /\ to \in Running \cup {"panicked"} =>
                 Sampled' = Sampled /\ Operated' = Operated
           /\ from = Running /\ to = "operated" =>
                 /\ Sampled' = Sampled
                 /\ Operated' = IF name[r] \in Listed THEN Operated \cup {r} ELSE Operated
                 /\ r \notin Operated
           /\ from = {"operated", "recovered"} /\ to = "sampled" =>
                 /\ Sampled' = Sampled \cup {r} /\ r \notin Sampled
                 /\ Operated' = Operated
<1>1. /\ pc[r] \in from /\ pc'[r] = to /\ \A q \in Requests : q # r => pc'[q] = pc[q]
      /\ name' = name /\ recovered' = recovered
  BY ProceedsIsStep, StepKeepsRest DEF MeterInv
<1>2. RecoveredMissed
  BY DEF MeterInv
<1>3. ASSUME from \subseteq Coming, to \in Running \cup {"panicked"}
      PROVE  Sampled' = Sampled /\ Operated' = Operated
  <2>1. \A q \in Requests : IsOperated(q)' <=> IsOperated(q)
    BY <1>1, <1>3 DEF IsOperated, Coming, Running, Counted
  <2>2. Sampled' = Sampled
    BY <1>1, <1>3 DEF Sampled, Coming, Running
  <2> QED
    BY <2>1, <2>2 DEF Operated
<1>4. ASSUME from = Running, to = "operated"
      PROVE  /\ Sampled' = Sampled
             /\ Operated' = IF name[r] \in Listed THEN Operated \cup {r} ELSE Operated
             /\ r \notin Operated
  <2>1. /\ \A q \in Requests : q # r => (IsOperated(q)' <=> IsOperated(q))
        /\ IsOperated(r)' <=> name[r] \in Listed
        /\ ~IsOperated(r)
    BY <1>1, <1>2, <1>4 DEF RecoveredMissed, IsOperated, Running, Counted
  <2>2. Sampled' = Sampled
    BY <1>1, <1>4 DEF Sampled, Running
  <2> QED
    BY <2>1, <2>2 DEF Operated
<1>5. ASSUME from = {"operated", "recovered"}, to = "sampled"
      PROVE  /\ Sampled' = Sampled \cup {r} /\ r \notin Sampled
             /\ Operated' = Operated
  <2>1. \A q \in Requests : IsOperated(q)' <=> IsOperated(q)
    BY <1>1, <1>2, <1>5 DEF RecoveredMissed, IsOperated, Counted
  <2>2. Sampled' = Sampled \cup {r} /\ r \notin Sampled
    BY <1>1, <1>5 DEF Sampled
  <2> QED
    BY <2>1, <2>2 DEF Operated
<1> QED
  BY <1>3, <1>4, <1>5

(* Nobody comes past a meter where no request moves.                        *)
LEMMA NobodyMoves ==
    ASSUME UNCHANGED <<pc, name, recovered, count>>, MeterInv
    PROVE  Sampled' = Sampled /\ Operated' = Operated /\ SamplesAreRequests' /\ RecoveredMissed'
<1>1. \A q \in Requests : IsOperated(q)' <=> IsOperated(q)
  BY DEF IsOperated
<1>2. Sampled' = Sampled /\ Operated' = Operated
  BY <1>1 DEF Sampled, Operated
<1> QED
  BY <1>2 DEF MeterInv, SamplesAreRequests, RecoveredMissed

LEMMA OneMoreOf ==
    ASSUME NEW S \in SUBSET Requests, NEW r \in Requests, r \notin S
    PROVE  Cardinality(S \cup {r}) = Cardinality(S) + 1
BY SetsAreFinite, FS_AddElement

-----------------------------------------------------------------------------
(* The steps of a request.                                                  *)

(* What is left to show of a step of a request, once it is clear what it    *)
(* does to the meters and who is inside.                                    *)
LEMMA RequestStep ==
    ASSUME MeterInv, NEW r \in Requests, NEW from, NEW to, Step(r, from, to),
           to \in {"new", "panicked", "recovered"} \cup Running \cup Counted,
           code' \in [Requests -> Codes \cup {500}], recovered' \subseteq Requests,
           total' \in Totals, count' \in Observations,
           Samples(count', "http") >= Samples(count, "http"),
           Samples(count', "operations") >= Samples(count, "operations"),
           inside' \subseteq Requests, InsideUntilSampled', RecoveredMissed',
           GaugeIsInside', SamplesAreRequests'
    PROVE  MeterInv'
<1>1. /\ pc' = [pc EXCEPT ![r] = to]
      /\ UNCHANGED <<name, recovers, enabled, scraper, seen, entered, unoperated, scrapes>>
  BY DEF Step, scrapeVars
<1>2. TypeOK'
  <2>1. inFlight' \in 0..Cardinality(Requests)
    BY SetsAreFinite DEF GaugeIsInside
  <2>2. pc' \in [Requests -> {"new", "panicked", "recovered"} \cup Running \cup Counted]
    BY <1>1 DEF MeterInv, TypeOK
  <2>3. /\ name' \in [Requests -> Names] /\ recovers' \in BOOLEAN /\ enabled' \in BOOLEAN
        /\ {entered, unoperated}' \subseteq Nat /\ scrapes' \in 0..MaxScrapes
        /\ scraper' \in {"idle", "fields", "inFlight"} \cup Meters
        /\ seen' \in [inFlight : Int, total : Totals, count : Observations]
    BY <1>1 DEF MeterInv, TypeOK
  <2> QED
    BY <2>1, <2>2, <2>3 DEF TypeOK
<1>3. ScrapeKeepsUp'
  <2>1. /\ Samples(count, "http") \in Nat /\ Samples(count', "http") \in Nat
        /\ Samples(count, "operations") \in Nat /\ Samples(count', "operations") \in Nat
        /\ Samples(seen.count, "http") \in Nat /\ Samples(seen.count, "operations") \in Nat
        /\ entered \in Nat /\ unoperated \in Nat /\ seen.inFlight \in Int
    BY SamplesAreNumbers DEF MeterInv, TypeOK, Meters
  <2>2. Samples(seen'.count, "http") = Samples(seen.count, "http")
    BY <1>1
  <2>3. Samples(seen'.count, "operations") = Samples(seen.count, "operations")
    BY <1>1
  <2>4. ScrapeKeepsUp
    BY DEF MeterInv
  <2> QED
    BY <1>1, <2>1, <2>2, <2>3, <2>4 DEF ScrapeKeepsUp
<1> QED
  BY <1>2, <1>3 DEF MeterInv

(* What a step that no panic ends leaves to show, once it is clear what it  *)
(* does to the meters and the gauge.                                        *)
LEMMA ProceedingStep ==
    ASSUME MeterInv, NEW r \in Requests, NEW from, NEW to, Proceeds(r, from, to),
           \/ from = {"new"} /\ to = "entered" /\ inside' = inside \cup {r}
           \/ /\ <<from, to>> \in {<<{"entered"}, "resolved">>, <<Running, "operated">>,
                                   <<Running, "panicked">>,
                                   <<{"operated", "recovered"}, "sampled">>}
              /\ inside' = inside,
           total' \in Totals, count' \in Observations,
           Samples(count', "http") >= Samples(count, "http"),
           Samples(count', "operations") >= Samples(count, "operations"),
           GaugeIsInside', SamplesAreRequests'
    PROVE  MeterInv'
<1>1. /\ Step(r, from, to) /\ code' = code /\ recovered' = recovered
      /\ pc[r] \in from /\ pc'[r] = to /\ \A q \in Requests : q # r => pc'[q] = pc[q]
  BY ProceedsIsStep, StepKeepsRest DEF MeterInv
<1>2. to \in {"panicked"} \cup Running \cup Counted
  BY DEF Running, Counted
<1>3. /\ code' \in [Requests -> Codes \cup {500}] /\ recovered' \subseteq Requests
      /\ inside' \subseteq Requests
  BY <1>1 DEF MeterInv, TypeOK
<1>4. InsideUntilSampled'
  BY <1>1 DEF MeterInv, InsideUntilSampled, Running
<1>5. RecoveredMissed'
  BY <1>1 DEF MeterInv, RecoveredMissed, Running
<1> QED
  BY <1>1, <1>2, <1>3, <1>4, <1>5, RequestStep

LEMMA EnterKeeps ==
    ASSUME MeterInv, NEW r \in Requests, Enter(r) PROVE MeterInv'
<1> USE DEF MeterInv
<1>1. Proceeds(r, {"new"}, "entered") /\ UNCHANGED meterVars
      /\ inside' = inside \cup {r} /\ inFlight' = inFlight + 1
  BY DEF Enter
<1>2. inside \subseteq Requests /\ r \notin inside
  BY <1>1, ProceedsIsStep, StepKeepsRest DEF TypeOK, InsideUntilSampled
<1>3. GaugeIsInside'
  BY <1>1, <1>2, OneMoreOf DEF GaugeIsInside
<1>4. total' \in Totals /\ count' \in Observations /\ count' = count
  BY <1>1 DEF TypeOK, meterVars
<1>5. SamplesAreRequests'
  BY <1>1, <1>4, SampledGrows DEF SamplesAreRequests, Coming, Running
<1>6. Samples(count, "http") \in Nat /\ Samples(count, "operations") \in Nat
  BY SamplesAreNumbers DEF TypeOK, Meters
<1> QED
  BY <1>1, <1>3, <1>4, <1>5, <1>6, ProceedingStep

LEMMA ResolverKeeps ==
    ASSUME MeterInv, NEW r \in Requests, RecordResolver(r) PROVE MeterInv'
<1> USE DEF MeterInv
<1>1. /\ Proceeds(r, {"entered"}, "resolved") /\ Sample("resolvers", r)
      /\ inside' = inside /\ inFlight' = inFlight
  BY DEF RecordResolver
<1>2. /\ total' \in Totals /\ count' \in Observations
      /\ Samples(count', "http") = Samples(count, "http")
      /\ Samples(count', "operations") = Samples(count, "operations")
  BY <1>1, SampleAddsOne DEF Meters
<1>3. SamplesAreRequests'
  BY <1>1, <1>2, SampledGrows DEF SamplesAreRequests, Coming, Running
<1>4. Samples(count, "http") \in Nat /\ Samples(count, "operations") \in Nat
  BY SamplesAreNumbers DEF TypeOK, Meters
<1>5. GaugeIsInside'
  BY <1>1 DEF GaugeIsInside
<1> QED
  BY <1>1, <1>2, <1>3, <1>4, <1>5, ProceedingStep

LEMMA OperationKeeps ==
    ASSUME MeterInv, NEW r \in Requests, RecordOperation(r) PROVE MeterInv'
<1> USE DEF MeterInv
<1>1. /\ Proceeds(r, Running, "operated") /\ inside' = inside /\ inFlight' = inFlight
      /\ IF name[r] \in Listed THEN Sample("operations", r) ELSE UNCHANGED meterVars
  BY DEF RecordOperation
<1>2. /\ Sampled' = Sampled /\ r \notin Operated
      /\ Operated' = IF name[r] \in Listed THEN Operated \cup {r} ELSE Operated
  BY <1>1, SampledGrows
<1>3. /\ total' \in Totals /\ count' \in Observations
      /\ Samples(count', "http") = Samples(count, "http")
      /\ Samples(count', "operations") =
            Samples(count, "operations") + (IF name[r] \in Listed THEN 1 ELSE 0)
  <2>1. CASE name[r] \in Listed
    BY <1>1, <2>1, SampleAddsOne DEF Meters
  <2>2. CASE name[r] \notin Listed
    <3>1. Samples(count, "operations") \in Nat
      BY SamplesAreNumbers DEF TypeOK, Meters
    <3> QED
      BY <1>1, <2>2, <3>1 DEF TypeOK, meterVars
  <2> QED
    BY <2>1, <2>2
<1>4. SamplesAreRequests'
  <2>1. Operated \in SUBSET Requests /\ Cardinality(Operated) \in Nat
    BY SetsAreFinite, FS_CardinalityType DEF Operated
  <2>2. Cardinality(Operated') =
            Cardinality(Operated) + (IF name[r] \in Listed THEN 1 ELSE 0)
    BY <1>2, <2>1, OneMoreOf
  <2> QED
    BY <1>2, <1>3, <2>2 DEF SamplesAreRequests
<1>5. Samples(count, "http") \in Nat /\ Samples(count, "operations") \in Nat
  BY SamplesAreNumbers DEF TypeOK, Meters
<1>6. GaugeIsInside'
  BY <1>1 DEF GaugeIsInside
<1> QED
  BY <1>1, <1>3, <1>4, <1>5, <1>6, ProceedingStep

LEMMA HTTPKeeps ==
    ASSUME MeterInv, NEW r \in Requests, RecordHTTP(r) PROVE MeterInv'
<1> USE DEF MeterInv
<1>1. /\ Proceeds(r, {"operated", "recovered"}, "sampled") /\ Sample("http", r)
      /\ inside' = inside /\ inFlight' = inFlight
  BY DEF RecordHTTP
<1>2. Sampled' = Sampled \cup {r} /\ r \notin Sampled /\ Operated' = Operated
  BY <1>1, SampledGrows
<1>3. /\ total' \in Totals /\ count' \in Observations
      /\ Samples(count', "http") = Samples(count, "http") + 1
      /\ Samples(count', "operations") = Samples(count, "operations")
  BY <1>1, SampleAddsOne DEF Meters
<1>4. SamplesAreRequests'
  <2>1. Sampled \in SUBSET Requests
    BY DEF Sampled
  <2>2. Cardinality(Sampled') = Cardinality(Sampled) + 1
    BY <1>2, <2>1, OneMoreOf
  <2> QED
    BY <1>2, <1>3, <2>2 DEF SamplesAreRequests
<1>5. Samples(count, "http") \in Nat /\ Samples(count, "operations") \in Nat
  BY SamplesAreNumbers DEF TypeOK, Meters
<1>6. GaugeIsInside'
  BY <1>1 DEF GaugeIsInside
<1> QED
  BY <1>1, <1>3, <1>4, <1>5, <1>6, ProceedingStep

(* A panic moves no meter, whether Recover takes it inside of Metrics or    *)
(* outside.                                                                 *)
LEMMA PanicKeeps ==
    ASSUME MeterInv, NEW r \in Requests, Panic(r) PROVE MeterInv'
<1> USE DEF MeterInv
<1>1. /\ inside' = inside /\ inFlight' = inFlight
      /\ total' \in Totals /\ count' \in Observations /\ count' = count
  BY DEF Panic, TypeOK, meterVars
<1>2. Samples(count, "http") \in Nat /\ Samples(count, "operations") \in Nat
  BY SamplesAreNumbers DEF TypeOK, Meters
<1>3. GaugeIsInside'
  BY <1>1 DEF GaugeIsInside
<1>4. CASE Proceeds(r, Running, "panicked")
  <2>1. SamplesAreRequests'
    BY <1>1, <1>4, SampledGrows DEF SamplesAreRequests, Coming, Running
  <2> QED
    BY <1>1, <1>2, <1>3, <1>4, <2>1, ProceedingStep
<1>5. CASE /\ Step(r, Running, "recovered") /\ recovered' = recovered \cup {r}
           /\ \E c \in {code[r], 500} : code' = [code EXCEPT ![r] = c]
  <2>1. /\ pc[r] \in Running /\ pc'[r] = "recovered" /\ name' = name
        /\ \A q \in Requests : q # r => pc'[q] = pc[q]
    BY <1>5, StepKeepsRest
  <2>2. code' \in [Requests -> Codes \cup {500}] /\ recovered' \subseteq Requests
    BY <1>5 DEF TypeOK
  <2>3. inside' \subseteq Requests /\ InsideUntilSampled'
    BY <1>1, <2>1 DEF TypeOK, InsideUntilSampled, Running
  <2>4. RecoveredMissed'
    BY <1>5, <2>1 DEF RecoveredMissed
  <2>5. Sampled' = Sampled /\ Operated' = Operated
    <3>1. \A q \in Requests : IsOperated(q)' <=> IsOperated(q)
      BY <1>5, <2>1 DEF IsOperated, Running, Counted
    <3>2. Sampled' = Sampled
      BY <2>1 DEF Sampled, Running
    <3> QED
      BY <3>1, <3>2 DEF Operated
  <2>6. SamplesAreRequests'
    BY <1>1, <2>5 DEF SamplesAreRequests
  <2> QED
    BY <1>1, <1>2, <1>3, <1>5, <2>2, <2>3, <2>4, <2>6, RequestStep
<1> QED
  BY <1>4, <1>5 DEF Panic

LEMMA LeaveKeeps ==
    ASSUME MeterInv, NEW r \in Requests, Leave(r) PROVE MeterInv'
<1> USE DEF MeterInv
<1>1. /\ r \in inside /\ pc[r] \in {"sampled", "panicked"}
      /\ inside' = inside \ {r} /\ inFlight' = inFlight - 1
      /\ UNCHANGED <<pc, name, code, recovers, recovered, total, count, enabled>>
      /\ UNCHANGED <<scraper, seen, entered, unoperated, scrapes>>
  BY DEF Leave, MayLeave, AfterLeave, meterVars, scrapeVars
<1>2. inside' \subseteq Requests /\ IsFiniteSet(inside)
  BY <1>1, SetsAreFinite DEF TypeOK
<1>3. GaugeIsInside'
  BY <1>1, <1>2, FS_RemoveElement DEF GaugeIsInside
<1>4. inFlight' \in 0..Cardinality(Requests)
  BY <1>2, <1>3, SetsAreFinite DEF GaugeIsInside
<1>5. TypeOK'
  BY <1>1, <1>2, <1>4 DEF TypeOK
<1>6. InsideUntilSampled' /\ RecoveredMissed'
  BY <1>1 DEF InsideUntilSampled, RecoveredMissed, Running
<1>7. SamplesAreRequests' /\ ScrapeKeepsUp'
  BY <1>1, NobodyMoves DEF ScrapeKeepsUp
<1> QED
  BY <1>3, <1>5, <1>6, <1>7

-----------------------------------------------------------------------------
(* The steps of a scrape.                                                   *)

(* A scrape reads, and the requests stand still.                            *)
LEMMA ScrapeStep ==
    ASSUME MeterInv, NEW from, NEW to, Reads(from, to),
           from \in {"idle", "inFlight"} \cup Meters,
           to \in {"idle", "inFlight"} \cup Meters,
           seen' \in [inFlight : Int, total : Totals, count : Observations],
           entered' \in Nat, unoperated' \in Nat, scrapes' \in 0..MaxScrapes, ScrapeKeepsUp'
    PROVE  MeterInv'
<1>1. /\ scraper' = to
      /\ UNCHANGED <<pc, name, code, recovers, recovered, inside, inFlight, total, count, enabled>>
  BY DEF Reads, requestVars, meterVars
<1>2. TypeOK'
  BY <1>1 DEF MeterInv, TypeOK
<1>3. InsideUntilSampled' /\ RecoveredMissed' /\ GaugeIsInside' /\ SamplesAreRequests'
  BY <1>1, NobodyMoves DEF MeterInv, InsideUntilSampled, GaugeIsInside
<1> QED
  BY <1>2, <1>3 DEF MeterInv

(* Who has to be accounted for is inside or has been sampled.               *)
LEMMA AccountableAreSomewhere ==
    ASSUME MeterInv
    PROVE  /\ Cardinality(Accountable) \in Nat
           /\ Cardinality(Accountable) <= inFlight + Samples(count, "http")
<1> USE DEF MeterInv
<1>1. Accountable \subseteq inside \cup Sampled
  BY DEF Accountable, InsideUntilSampled, Sampled, TypeOK, Running, Counted
<1>2. inside \in SUBSET Requests /\ Sampled \in SUBSET Requests
  BY DEF TypeOK, Sampled
<1>3. IsFiniteSet(inside) /\ IsFiniteSet(Sampled) /\ IsFiniteSet(inside \cap Sampled)
  BY <1>2, SetsAreFinite
<1>4. /\ Cardinality(inside) \in Nat /\ Cardinality(Sampled) \in Nat
      /\ Cardinality(inside \cap Sampled) \in Nat
  BY <1>3, FS_CardinalityType
<1>5. /\ IsFiniteSet(inside \cup Sampled)
      /\ Cardinality(inside \cup Sampled) =
            Cardinality(inside) + Cardinality(Sampled) - Cardinality(inside \cap Sampled)
  BY <1>3, FS_Union
<1>6. /\ IsFiniteSet(Accountable)
      /\ Cardinality(Accountable) <= Cardinality(inside \cup Sampled)
  BY <1>1, <1>5, FS_Subset
<1>7. Cardinality(Accountable) \in Nat
  BY <1>6, FS_CardinalityType
<1> QED
  BY <1>4, <1>5, <1>6, <1>7 DEF GaugeIsInside, SamplesAreRequests

(* Whom the HTTP totals count, graphql.Metrics has counted, but for those   *)
(* it must not.                                                             *)
LEMMA SampledAreShown ==
    ASSUME MeterInv
    PROVE  /\ Cardinality(Unoperated) \in Nat
           /\ Samples(count, "http") <= Samples(count, "operations") + Cardinality(Unoperated)
<1>1. Sampled \subseteq Operated \cup Unoperated
  BY DEF Sampled, Operated, IsOperated, Unoperated, Counted
<1>2. Operated \in SUBSET Requests /\ Unoperated \in SUBSET Requests
  BY DEF Operated, Unoperated
<1>3. IsFiniteSet(Operated) /\ IsFiniteSet(Unoperated) /\ IsFiniteSet(Operated \cap Unoperated)
  BY <1>2, SetsAreFinite
<1>4. /\ Cardinality(Operated) \in Nat /\ Cardinality(Unoperated) \in Nat
      /\ Cardinality(Operated \cap Unoperated) \in Nat
  BY <1>3, FS_CardinalityType
<1>5. /\ IsFiniteSet(Operated \cup Unoperated)
      /\ Cardinality(Operated \cup Unoperated) =
            Cardinality(Operated) + Cardinality(Unoperated) - Cardinality(Operated \cap Unoperated)
  BY <1>3, FS_Union
<1>6. IsFiniteSet(Sampled) /\ Cardinality(Sampled) <= Cardinality(Operated \cup Unoperated)
  BY <1>1, <1>5, FS_Subset
<1>7. Cardinality(Sampled) \in Nat
  BY <1>6, FS_CardinalityType
<1> QED
  BY <1>4, <1>5, <1>6, <1>7 DEF MeterInv, SamplesAreRequests

(* What a scrape that reads meter m has seen.                               *)
LEMMA SeenIsRead ==
    ASSUME MeterInv, NEW m \in Meters, seen' = SeenAfter(m)
    PROVE  /\ seen' \in [inFlight : Int, total : Totals, count : Observations]
           /\ seen'.inFlight = seen.inFlight
           /\ Samples(seen'.count, m) = Samples(count, m)
           /\ \A o \in Meters \ {m} : Samples(seen'.count, o) = Samples(seen.count, o)
<1>1. /\ seen \in [inFlight : Int, total : Totals, count : Observations]
      /\ total \in Totals /\ count \in Observations
  BY DEF MeterInv, TypeOK
<1>2. /\ [seen.total EXCEPT ![m] = total[m]] \in Totals
      /\ [seen.count EXCEPT ![m] = count[m]] \in Observations
  BY <1>1 DEF Totals, Observations
<1>3. seen' = [inFlight |-> seen.inFlight,
               total |-> [seen.total EXCEPT ![m] = total[m]],
               count |-> [seen.count EXCEPT ![m] = count[m]]]
  BY <1>1 DEF SeenAfter
<1>4. /\ seen'.count[m] = count[m]
      /\ \A o \in Meters \ {m} : seen'.count[o] = seen.count[o]
  BY <1>1, <1>3 DEF Observations
<1> QED
  BY <1>1, <1>2, <1>3, <1>4 DEF Samples

LEMMA ScrapeKeeps ==
    ASSUME MeterInv,
           ScrapeBegins \/ ScrapeInFlight \/ ScrapeHTTP \/ ScrapeOperations \/ ScrapeResolvers
    PROVE  MeterInv'
<1>1. CASE ScrapeBegins
  <2>1. /\ \E to \in {"idle", "inFlight"} : Reads("idle", to)
        /\ seen' = NothingSeen /\ scrapes' = scrapes + 1 /\ scrapes < MaxScrapes
        /\ entered' = entered /\ unoperated' = unoperated
    BY <1>1 DEF ScrapeBegins
  <2>2. scraper' \in {"idle", "inFlight"}
    BY <2>1 DEF Reads
  <2>3. NoTotals \in Totals /\ NoObservations \in Observations
    BY DEF NoTotals, NoObservations, Totals, Observations
  <2>4. seen' \in [inFlight : Int, total : Totals, count : Observations]
    BY <2>1, <2>3 DEF NothingSeen
  <2>5. scrapes' \in 0..MaxScrapes /\ entered' \in Nat /\ unoperated' \in Nat
    BY <2>1, MeterAssumption DEF MeterInv, TypeOK
  <2>6. ScrapeKeepsUp'
    BY <2>2 DEF ScrapeKeepsUp
  <2> QED
    BY <2>1, <2>4, <2>5, <2>6, ScrapeStep
<1>2. CASE ScrapeInFlight
  <2>1. /\ Reads("inFlight", "http") /\ seen' = [seen EXCEPT !.inFlight = inFlight]
        /\ entered' = Cardinality(Accountable)
        /\ unoperated' = unoperated /\ scrapes' = scrapes
    BY <1>2 DEF ScrapeInFlight
  <2>2. scraper' = "http" /\ count' = count
    BY <2>1 DEF Reads, meterVars
  <2>3. /\ seen' \in [inFlight : Int, total : Totals, count : Observations]
        /\ seen'.inFlight = inFlight
    <3>1. inFlight \in Int /\ seen \in [inFlight : Int, total : Totals, count : Observations]
      BY SetsAreFinite DEF MeterInv, TypeOK
    <3> QED
      BY <2>1, <3>1
  <2>4. ScrapeKeepsUp'
    BY <2>1, <2>2, <2>3, AccountableAreSomewhere DEF ScrapeKeepsUp
  <2> QED
    BY <2>1, <2>3, <2>4, AccountableAreSomewhere, ScrapeStep DEF Meters, MeterInv, TypeOK
<1>3. CASE ScrapeHTTP
  <2>1. /\ Reads("http", "operations") /\ seen' = SeenAfter("http")
        /\ entered' = entered /\ unoperated' = Cardinality(Unoperated) /\ scrapes' = scrapes
    BY <1>3 DEF ScrapeHTTP
  <2>2. scraper = "http" /\ scraper' = "operations" /\ count' = count
    BY <2>1 DEF Reads, meterVars
  <2>3. /\ seen' \in [inFlight : Int, total : Totals, count : Observations]
        /\ seen'.inFlight = seen.inFlight
        /\ Samples(seen'.count, "http") = Samples(count, "http")
    BY <2>1, SeenIsRead DEF Meters
  <2>4. unoperated' \in Nat /\ Samples(count, "http") <= Samples(count, "operations") + unoperated'
    BY <2>1, SampledAreShown
  <2>5. ScrapeKeepsUp'
    BY <2>1, <2>2, <2>3, <2>4 DEF MeterInv, ScrapeKeepsUp
  <2> QED
    BY <2>1, <2>3, <2>4, <2>5, ScrapeStep DEF Meters, MeterInv, TypeOK
<1>4. CASE ScrapeOperations
  <2>1. /\ Reads("operations", "resolvers") /\ seen' = SeenAfter("operations")
        /\ entered' = entered /\ unoperated' = unoperated /\ scrapes' = scrapes
    BY <1>4 DEF ScrapeOperations
  <2>2. scraper = "operations" /\ scraper' = "resolvers" /\ count' = count
    BY <2>1 DEF Reads, meterVars
  <2>3. /\ seen' \in [inFlight : Int, total : Totals, count : Observations]
        /\ seen'.inFlight = seen.inFlight
        /\ Samples(seen'.count, "operations") = Samples(count, "operations")
        /\ Samples(seen'.count, "http") = Samples(seen.count, "http")
    BY <2>1, SeenIsRead DEF Meters
  <2>4. ScrapeKeepsUp'
    BY <2>1, <2>2, <2>3 DEF MeterInv, ScrapeKeepsUp
  <2> QED
    BY <2>1, <2>3, <2>4, ScrapeStep DEF Meters, MeterInv, TypeOK
<1>5. CASE ScrapeResolvers
  <2>1. /\ Reads("resolvers", "idle") /\ seen' = SeenAfter("resolvers")
        /\ entered' = entered /\ unoperated' = unoperated /\ scrapes' = scrapes
    BY <1>5 DEF ScrapeResolvers
  <2>2. scraper' = "idle"
    BY <2>1 DEF Reads
  <2>3. seen' \in [inFlight : Int, total : Totals, count : Observations]
    BY <2>1, SeenIsRead DEF Meters
  <2>4. ScrapeKeepsUp'
    BY <2>2 DEF ScrapeKeepsUp
  <2> QED
    BY <2>1, <2>3, <2>4, ScrapeStep DEF Meters, MeterInv, TypeOK
<1> QED
  BY <1>1, <1>2, <1>3, <1>4, <1>5

LEMMA MeterStep == MeterInv /\ [Next]_vars => MeterInv'
<1> SUFFICES ASSUME MeterInv, [Next]_vars PROVE MeterInv'
  OBVIOUS
<1>1. ASSUME NEW r \in Requests, Enter(r) PROVE MeterInv'
  BY <1>1, EnterKeeps
<1>2. ASSUME NEW r \in Requests, RecordResolver(r) PROVE MeterInv'
  BY <1>2, ResolverKeeps
<1>3. ASSUME NEW r \in Requests, RecordOperation(r) PROVE MeterInv'
  BY <1>3, OperationKeeps
<1>4. ASSUME NEW r \in Requests, RecordHTTP(r) PROVE MeterInv'
  BY <1>4, HTTPKeeps
<1>5. ASSUME NEW r \in Requests, Panic(r) PROVE MeterInv'
  BY <1>5, PanicKeeps
<1>6. ASSUME NEW r \in Requests, Leave(r) PROVE MeterInv'
  BY <1>6, LeaveKeeps
<1>7. CASE Switch
  <2>1. /\ enabled' \in BOOLEAN
        /\ UNCHANGED <<pc, name, code, recovers, recovered, inside, inFlight, total, count>>
        /\ UNCHANGED <<scraper, seen, entered, unoperated, scrapes>>
    BY <1>7 DEF Switch, MeterInv, TypeOK, requestVars, meterVars, scrapeVars
  <2>2. TypeOK'
    BY <2>1 DEF MeterInv, TypeOK
  <2> QED
    BY <2>1, <2>2, NobodyMoves DEF MeterInv, InsideUntilSampled, GaugeIsInside, ScrapeKeepsUp
<1>8. CASE UNCHANGED vars
  <2>1. /\ UNCHANGED <<pc, name, code, recovers, recovered, inside, inFlight, total, count>>
        /\ UNCHANGED <<enabled, scraper, seen, entered, unoperated, scrapes>>
    BY <1>8 DEF vars, requestVars, meterVars, scrapeVars
  <2>2. TypeOK'
    BY <2>1 DEF MeterInv, TypeOK
  <2> QED
    BY <2>1, <2>2, NobodyMoves DEF MeterInv, InsideUntilSampled, GaugeIsInside, ScrapeKeepsUp
<1> QED
  BY <1>1, <1>2, <1>3, <1>4, <1>5, <1>6, <1>7, <1>8, ScrapeKeeps DEF Next

LEMMA MetersAlwaysFit == Spec => []MeterInv
BY MeterInit, MeterStep, PTL DEF Spec

-----------------------------------------------------------------------------

(* A request is in the gauge of a scrape or in the totals it reads next,    *)
(* for Metrics takes it out of the gauge only after recordHTTP, and         *)
(* ScrapeInFlight comes before ScrapeHTTP.                                  *)
THEOREM NoneIsOverlooked == Spec => []NoRequestUnseen
<1>1. MeterInv => NoRequestUnseen
  <2> SUFFICES ASSUME MeterInv, scraper \in {"operations", "resolvers"}
               PROVE  seen.inFlight + Samples(seen.count, "http") >= entered
    BY DEF NoRequestUnseen
  <2>1. /\ Samples(seen.count, "http") \in Nat /\ seen.inFlight \in Int /\ entered \in Nat
    BY SamplesAreNumbers DEF MeterInv, TypeOK, Meters
  <2> QED
    BY <2>1 DEF MeterInv, ScrapeKeepsUp
<1> QED
  BY <1>1, MetersAlwaysFit, PTL

(* A scrape shows no more HTTP requests than operations, untracked requests *)
(* and recovered panics: graphql.Metrics records inside of Metrics, and the *)
(* operations are read after the requests.                                  *)
THEOREM OperationsKeepUp == Spec => []OperationsCoverRequests
<1>1. MeterInv => OperationsCoverRequests
  <2> SUFFICES ASSUME MeterInv, scraper = "resolvers"
               PROVE  Samples(seen.count, "operations") + unoperated >= Samples(seen.count, "http")
    BY DEF OperationsCoverRequests
  <2>1. /\ Samples(seen.count, "http") \in Nat /\ Samples(seen.count, "operations") \in Nat
        /\ unoperated \in Nat
    BY SamplesAreNumbers DEF MeterInv, TypeOK, Meters
  <2> QED
    BY <2>1 DEF MeterInv, ScrapeKeepsUp
<1> QED
  BY <1>1, MetersAlwaysFit, PTL

(* The meters and the gauge of a Server hold what they are declared to.     *)
THEOREM TypeCorrect == Spec => []TypeOK
<1>1. MeterInv => TypeOK
  BY DEF MeterInv
<1> QED
  BY <1>1, MetersAlwaysFit, PTL

-----------------------------------------------------------------------------
(* Looking into a GraphQL body.                                             *)

WholeBody == [tokens |-> body, fails |-> FALSE]

(* A body that came through is there, whole, at every stage; the end of one *)
(* that broke off is still met, unless Metrics reads whole bodies.          *)
LeftToRead ==
    /\ at = "metrics" => rBody = [tokens |-> body, fails |-> broken]
    /\ ~broken => rBody = WholeBody
    /\ Window(cfg) # None => rBody.fails = broken

NothingYet == at = "metrics" => touched = 0

NamedByItself ==
    WindowCovers =>
        {metricOpName, label} \subseteq OwnName

PeekInv ==
    /\ PeekTypeOK /\ LeftToRead /\ NothingYet /\ NamedByItself
    /\ BodyIsRestored /\ WorkIsBounded

LEMMA PrefixFacts ==
    ASSUME NEW T, NEW s \in Seq(T), NEW n \in Nat
    PROVE  /\ Prefix(s, n) \in Seq(T) /\ Len(Prefix(s, n)) \in Nat
           /\ Len(Prefix(s, n)) <= n
           /\ Len(s) <= n => Prefix(s, n) = s
BY DEF Prefix

LEMMA EndsAreMembers ==
    ASSUME NEW S, NEW n \in Nat, S \subseteq 1..n, S # {}
    PROVE  Max(S) \in S /\ Min(S) \in S
<1>1. \E i \in S : \A j \in S : i >= j
  <2>1. PICK i \in S : \A j \in S : j <= i
    BY GreatestOfSome
  <2> QED
    BY <2>1
<1>2. \E i \in S : \A j \in S : i <= j
  <2>1. S \subseteq Nat
    OBVIOUS
  <2> QED
    BY <2>1, LeastOfSome
<1> QED
  BY <1>1, <1>2 DEF Max, Min

(* A name that is found is the value of a token, and in a whole body that   *)
(* of a top-level operationName.                                            *)
LEMMA NameIsOfToken ==
    ASSUME NEW s \in Seq(Token), NEW whole \in BOOLEAN
    PROVE  /\ NameFromPeek(s, whole) \in OpNames \cup {NoName}
           /\ whole => \/ NameFromPeek(s, whole) = NoName
                       \/ \E i \in DOMAIN s : /\ s[i].key = "name"
                                             /\ NameFromPeek(s, whole) = s[i].value
<1> DEFINE keys == IF whole THEN {"name"} ELSE {"name", "inner"}
           found == Having(s, keys)
           k == IF whole THEN Max(found) ELSE Min(found)
<1>1. CASE LooksLikeGraphQL(s) /\ found # {}
  <2>1. found \subseteq 1..Len(s) /\ \A i \in found : s[i].key \in keys
    BY DEF Having
  <2>2. Len(s) \in Nat /\ found # {}
    BY <1>1
  <2> HIDE DEF found
  <2>3. Max(found) \in found /\ Min(found) \in found
    BY <2>1, <2>2, EndsAreMembers
  <2>4. k \in found
    BY <2>3
  <2>5. k \in DOMAIN s /\ s[k] \in Token /\ s[k].key \in keys
    BY <2>1, <2>4
  <2>6. NameFromPeek(s, whole) = s[k].value
    BY <1>1 DEF NameFromPeek, found
  <2>7. s[k].value \in OpNames \cup {NoName}
    BY <2>5 DEF Token
  <2>8. whole => s[k].key = "name"
    BY <2>5
  <2> QED
    BY <2>5, <2>6, <2>7, <2>8
<1>2. CASE ~(LooksLikeGraphQL(s) /\ found # {})
  BY <1>2 DEF NameFromPeek
<1> QED
  BY <1>1, <1>2

LEMMA ConfigFacts ==
    ASSUME PeekTypeOK
    PROVE  /\ cfg.allowed \subseteq OpNames \cup {"anonymous"}
           /\ DefaultPeekWindow \in Nat
           /\ Window(cfg) \in Nat \cup {None}
           /\ body \in Seq(Token)
<1>1. /\ cfg \in [window : Nat \cup {None}, trackOther : BOOLEAN, trackAll : BOOLEAN,
                 allowed : SUBSET (OpNames \cup {"anonymous"})]
      /\ DefaultPeekWindow \in Nat /\ body \in Seq(Token)
  BY PeekAssumption DEF PeekTypeOK
<1> QED
  BY <1>1 DEF Window

LEMMA TrackedType ==
    ASSUME PeekTypeOK, NEW op \in OpNames \cup {NoName}
    PROVE  /\ Tracked(op) \in OpNames \cup {NoName, "anonymous", "other"}
           /\ Tracked(op) \in {op, NoName, "anonymous", "other"}
BY DEF Tracked

(* r.Body ends within the first n tokens, or right after them.             *)
CoveredBy(n) ==
    Len(rBody.tokens) < n \/ (Len(rBody.tokens) = n /\ ~rBody.fails)

LEMMA PeekFacts ==
    ASSUME PeekInv, NEW n \in Nat
    PROVE  /\ Peek(n).left \in [tokens : Seq(Token), fails : BOOLEAN]
           /\ ~rBody.fails => Peek(n).left = rBody
           /\ Peek(n).left.fails = rBody.fails
           /\ Peek(n).ok \in BOOLEAN
           /\ Peek(n).peek \in Seq(Token)
           /\ Peek(n).ok /\ CoveredBy(n) =>
                 Peek(n).peek = rBody.tokens /\ ~rBody.fails
           /\ Len(IF Peek(n).ok THEN Peek(n).peek ELSE rBody.tokens) <= n
<1>1. /\ rBody \in [tokens : Seq(Token), fails : BOOLEAN]
      /\ Len(rBody.tokens) \in Nat /\ <<>> \in Seq(Token)
  BY DEF PeekInv, PeekTypeOK
<1>2. /\ Prefix(rBody.tokens, n) \in Seq(Token)
      /\ Len(Prefix(rBody.tokens, n)) <= n
      /\ Len(rBody.tokens) <= n => Prefix(rBody.tokens, n) = rBody.tokens
  BY <1>1, PrefixFacts
<1>3. CASE rBody.fails /\ Len(rBody.tokens) < n
  <2>1. Peek(n) = [ok |-> FALSE, peek |-> <<>>, left |-> [rBody EXCEPT !.tokens = <<>>]]
    BY <1>3 DEF Peek
  <2>2. [rBody EXCEPT !.tokens = <<>>] = [tokens |-> <<>>, fails |-> rBody.fails]
    BY <1>1
  <2>3. /\ Peek(n).left = [tokens |-> <<>>, fails |-> rBody.fails]
        /\ Peek(n).ok = FALSE /\ Peek(n).peek = <<>>
    BY <2>1, <2>2
  <2>4. [tokens |-> <<>>, fails |-> rBody.fails] \in [tokens : Seq(Token), fails : BOOLEAN]
    BY <1>1
  <2>5. Len(rBody.tokens) <= n
    BY <1>1, <1>3
  <2> QED
    BY <1>1, <1>3, <2>3, <2>4, <2>5 DEF CoveredBy
<1>4. CASE ~(rBody.fails /\ Len(rBody.tokens) < n)
  <2>1. Peek(n) = [ok |-> TRUE, peek |-> Prefix(rBody.tokens, n), left |-> rBody]
    BY <1>4 DEF Peek, Restored
  <2> QED
    BY <1>1, <1>2, <1>4, <2>1 DEF CoveredBy
<1> QED
  BY <1>3, <1>4

(* What a read ahead leaves, and what it has seen.                          *)
LEMMA InspectFacts ==
    ASSUME PeekInv, NEW w \in Nat \cup {None}
    PROVE  /\ Inspect(w).left \in [tokens : Seq(Token), fails : BOOLEAN]
           /\ ~rBody.fails => Inspect(w).left = rBody
           /\ w # None => Inspect(w).left.fails = rBody.fails
           /\ Inspect(w).ok \in BOOLEAN
           /\ Inspect(w).peek \in Seq(Token)
           /\ Inspect(w).ok /\ (w = None \/ CoveredBy(w)) =>
                 Inspect(w).peek = rBody.tokens /\ ~rBody.fails
           /\ w # None =>
                 Len(IF Inspect(w).ok THEN Inspect(w).peek ELSE rBody.tokens) <= w
<1>1. /\ rBody \in [tokens : Seq(Token), fails : BOOLEAN]
      /\ Len(rBody.tokens) \in Nat /\ <<>> \in Seq(Token)
  BY DEF PeekInv, PeekTypeOK
<1>2. CASE w = None
  <2>1. Inspect(w) = IF rBody.fails
           THEN [ok |-> FALSE, peek |-> <<>>, left |-> [tokens |-> <<>>, fails |-> FALSE]]
           ELSE [ok |-> TRUE, peek |-> rBody.tokens, left |-> rBody]
    BY <1>2 DEF Inspect, ReadFull
  <2> QED
    BY <1>1, <1>2, <2>1
<1>3. CASE w # None
  <2>1. Inspect(w) = Peek(w)
    BY <1>3 DEF Inspect
  <2> QED
    BY <1>3, <2>1, PeekFacts
<1> QED
  BY <1>2, <1>3

(* The name that a read ahead finds.                                        *)
LEMMA ExtractedFacts ==
    ASSUME PeekInv, NEW w \in Nat \cup {None}
    PROVE  /\ Extracted(w) \in OpNames \cup {NoName}
           /\ w = None \/ CoveredBy(w) =>
                 \/ Extracted(w) = NoName
                 \/ \E i \in DOMAIN rBody.tokens :
                       /\ rBody.tokens[i].key = "name"
                       /\ Extracted(w) = rBody.tokens[i].value
<1> DEFINE peek == Inspect(w).peek
           whole == peek = rBody.tokens /\ ~rBody.fails
<1>1. /\ Extracted(w) = IF Inspect(w).ok THEN NameFromPeek(peek, whole)
                             ELSE NoName
      /\ whole \in BOOLEAN
  BY DEF Extracted
<1>2. /\ peek \in Seq(Token)
      /\ Inspect(w).ok /\ (w = None \/ CoveredBy(w)) =>
            peek = rBody.tokens /\ whole
  BY InspectFacts
<1> HIDE DEF peek, whole
<1> QED
  BY <1>1, <1>2, NameIsOfToken

LEMMA PeekInitially ==
    PeekInit => PeekInv
<1> SUFFICES ASSUME PeekInit PROVE PeekInv
  OBVIOUS
<1>1. body \in Seq(Token)
  BY PeekAssumption DEF PeekInit
<1>2. supplied \in OpNames \cup {NoName} /\ broken \in BOOLEAN
  BY PeekAssumption DEF PeekInit
<1>3. PeekTypeOK
  BY <1>1, <1>2 DEF PeekInit, PeekTypeOK
<1>4. LeftToRead /\ NothingYet
  BY <1>2 DEF PeekInit, LeftToRead, NothingYet, WholeBody
<1>5. BodyIsRestored
  BY DEF PeekInit, BodyIsRestored
<1>6. WorkIsBounded
  BY <1>3, ConfigFacts DEF PeekInit, WorkIsBounded
<1>7. NamedByItself
  BY DEF PeekInit, NamedByItself, OwnName
<1> QED
  BY <1>3, <1>4, <1>5, <1>6, <1>7 DEF PeekInv

(* A name that is found in a whole body is one of its own.                  *)
LEMMA OwnNames ==
    ASSUME PeekInv, NEW op \in OpNames \cup {NoName},
           op = NoName \/ \E i \in DOMAIN body : body[i].key = "name" /\ op = body[i].value
    PROVE  Tracked(op) \in OwnName
<1>1. op \in OwnName
  BY DEF OwnName, ToSet
<1>2. {NoName, "anonymous", "other"} \subseteq OwnName
  BY DEF OwnName
<1>3. PeekTypeOK
  BY DEF PeekInv
<1> QED
  BY <1>1, <1>2, <1>3, TrackedType

LEMMA QueryName ==
    ASSUME PeekInv
    PROVE  /\ NameInQuery \in OpNames \cup {NoName}
           /\ \/ NameInQuery = NoName
              \/ \E i \in DOMAIN body : body[i].key = "name" /\ NameInQuery = body[i].value
<1> DEFINE found == Having(body, {"name"})
<1>1. body \in Seq(Token)
  BY ConfigFacts DEF PeekInv
<1>2. found \subseteq 1..Len(body) /\ \A i \in found : body[i].key = "name"
  BY <1>1 DEF Having
<1>3. NameInQuery = IF found = {} THEN NoName ELSE body[Min(found)].value
  BY DEF NameInQuery
<1> HIDE DEF found
<1>4. CASE found = {}
  BY <1>3, <1>4
<1>5. CASE found # {}
  <2>1. Min(found) \in found
    <3>1. Len(body) \in Nat /\ found # {}
      BY <1>1, <1>5
    <3> QED
      BY <1>2, <3>1, EndsAreMembers
  <2>2. Min(found) \in DOMAIN body /\ body[Min(found)] \in Token
    <3>1. Min(found) \in 1..Len(body)
      BY <1>2, <2>1
    <3> QED
      BY <1>1, <3>1
  <2>3. body[Min(found)].value \in OpNames \cup {NoName}
    BY <2>2 DEF Token
  <2> QED
    BY <1>2, <1>3, <1>5, <2>1, <2>2, <2>3
<1> QED
  BY <1>4, <1>5

(* Metrics has looked, and calls the next handler.                          *)
LEMMA MetricsPeeksKeeps ==
    ASSUME PeekInv, MetricsPeeks PROVE PeekInv'
<1> USE DEF PeekInv
<1> DEFINE w == Window(cfg)
<1>1. /\ at = "metrics" /\ at' = "middleware"
      /\ UNCHANGED <<cfg, kind, body, broken, supplied, inContext, got, label>>
  BY DEF MetricsPeeks, given
<1>2. w \in Nat \cup {None} /\ body \in Seq(Token)
  BY ConfigFacts
<1>3. /\ rBody = [tokens |-> body, fails |-> broken] /\ touched = 0
      /\ rBody.tokens = body /\ rBody.fails = broken
  BY <1>1 DEF LeftToRead, NothingYet
<1>4. /\ rBody' \in [tokens : Seq(Token), fails : BOOLEAN]
      /\ ~broken => rBody' = WholeBody
      /\ w # None => rBody'.fails = broken
  <2>1. CASE UNCHANGED rBody
    BY <1>3, <2>1 DEF PeekTypeOK, WholeBody
  <2>2. CASE rBody' = Inspect(w).left
    BY <1>2, <1>3, <2>2, InspectFacts DEF WholeBody
  <2> QED
    BY <2>1, <2>2 DEF MetricsPeeks
<1>5. /\ touched' \in Nat
      /\ w # None => touched' <= w
      /\ ~TrackingEnabled => touched' = 0
  <2>1. CASE UNCHANGED touched
    BY <1>2, <1>3, <2>1
  <2>2. CASE /\ TrackingEnabled
             /\ touched' = Len(IF Inspect(w).ok THEN Inspect(w).peek ELSE rBody.tokens)
    <3>1. /\ Inspect(w).peek \in Seq(Token) /\ rBody.tokens \in Seq(Token)
          /\ w # None => touched' <= w
      BY <1>2, <1>3, <2>2, InspectFacts
    <3> QED
      BY <2>2, <3>1
  <2> QED
    BY <2>1, <2>2 DEF MetricsPeeks
<1>6. /\ metricOpName' \in OpNames \cup {NoName, "anonymous", "other"}
      /\ WindowCovers => metricOpName' \in OwnName
  <2>1. CASE UNCHANGED metricOpName
    BY <2>1 DEF PeekTypeOK, NamedByItself
  <2>2. CASE metricOpName' = Tracked(Extracted(w))
    <3>1. WindowCovers => w = None \/ CoveredBy(w)
      BY <1>3 DEF WindowCovers, CoveredBy
    <3> QED
      BY <1>2, <1>3, <2>2, <3>1, ExtractedFacts, TrackedType, OwnNames
  <2>3. CASE metricOpName' = Tracked(NameInQuery)
    BY <2>3, QueryName, TrackedType, OwnNames
  <2>4. CASE metricOpName' = Tracked(NoName)
    BY <2>4, TrackedType, OwnNames
  <2> QED
    BY <2>1, <2>2, <2>3, <2>4 DEF MetricsPeeks
<1>7. PeekTypeOK'
  <2>1. /\ cfg' \in Configs /\ kind' \in {"post", "get", "other"}
        /\ body' \in Bodies /\ broken' \in BOOLEAN
    BY <1>1 DEF PeekTypeOK
  <2>2. /\ {metricOpName, label}' \subseteq OpNames \cup {NoName, "anonymous", "other"}
        /\ {supplied, inContext}' \subseteq OpNames \cup {NoName}
    BY <1>1, <1>6 DEF PeekTypeOK
  <2>3. got' \in [tokens : Seq(Token), fails : BOOLEAN] \cup {None}
    BY <1>1 DEF PeekTypeOK
  <2>4. at' \in {"metrics", "middleware", "handler", "record", "end"}
    BY <1>1
  <2>5. rBody' \in [tokens : Seq(Token), fails : BOOLEAN] /\ touched' \in Nat
    BY <1>4, <1>5, Zenon
  <2> QED
    BY <2>1, <2>2, <2>3, <2>4, <2>5, Zenon DEF PeekTypeOK
<1>8. LeftToRead' /\ NothingYet'
  BY <1>1, <1>4 DEF LeftToRead, NothingYet, WholeBody, Window
<1>9. BodyIsRestored'
  BY <1>1 DEF BodyIsRestored, Window
<1>10. WorkIsBounded'
  <2>1. Window(cfg)' = w
    BY <1>1 DEF Window
  <2>2. TrackingEnabled' <=> TrackingEnabled
    BY <1>1 DEF TrackingEnabled
  <2>3. (Window(cfg) # None => touched <= Window(cfg))'
    BY <1>5, <2>1, Zenon
  <2>4. (~TrackingEnabled => touched = 0)'
    BY <1>5, <2>2, Zenon
  <2> QED
    BY <2>3, <2>4, Zenon DEF WorkIsBounded
<1>11. NamedByItself'
  BY <1>1, <1>6 DEF NamedByItself, WindowCovers, Window, OwnName
<1> QED
  BY <1>7, <1>8, <1>9, <1>10, <1>11

(* What graphql.Middleware and the handler do does not bear on the options, *)
(* the body, or what Metrics has done.                                      *)
LEMMA LaterSteps ==
    ASSUME PeekInv, UNCHANGED <<cfg, kind, body, broken, supplied, metricOpName, touched>>,
           rBody' \in [tokens : Seq(Token), fails : BOOLEAN],
           ~broken => rBody' = WholeBody,
           Window(cfg) # None => rBody'.fails = broken,
           inContext' \in OpNames \cup {NoName},
           got' \in {got, rBody}, label' \in {label, metricOpName},
           at' \in {"handler", "record", "end"}
    PROVE  PeekInv'
<1> USE DEF PeekInv
<1>1. PeekTypeOK'
  <2>1. {metricOpName, label}' \subseteq OpNames \cup {NoName, "anonymous", "other"}
    BY DEF PeekTypeOK
  <2>2. {supplied, inContext}' \subseteq OpNames \cup {NoName}
    BY DEF PeekTypeOK
  <2>3. got' \in [tokens : Seq(Token), fails : BOOLEAN] \cup {None}
    BY DEF PeekTypeOK
  <2>4. cfg' \in Configs /\ kind' \in {"post", "get", "other"} /\ touched' \in Nat
    BY DEF PeekTypeOK
  <2>5. body' \in Bodies /\ broken' \in BOOLEAN
    BY DEF PeekTypeOK
  <2> QED
    BY <2>1, <2>2, <2>3, <2>4, <2>5 DEF PeekTypeOK
<1>2. LeftToRead' /\ NothingYet'
  BY DEF LeftToRead, NothingYet, WholeBody, Window
<1>3. BodyIsRestored'
  <2>1. BodyIsRestored /\ LeftToRead
    OBVIOUS
  <2> QED
    BY <2>1 DEF BodyIsRestored, LeftToRead, WholeBody, Window
<1>4. WorkIsBounded'
  <2>1. WorkIsBounded
    OBVIOUS
  <2> QED
    BY <2>1 DEF WorkIsBounded, Window, TrackingEnabled
<1>5. NamedByItself'
  BY DEF NamedByItself, WindowCovers, Window, OwnName
<1> QED
  BY <1>1, <1>2, <1>3, <1>4, <1>5

LEMMA MiddlewarePeeksKeeps ==
    ASSUME PeekInv, MiddlewarePeeks PROVE PeekInv'
<1>1. /\ at' = "handler"
      /\ UNCHANGED <<cfg, kind, body, broken, supplied, metricOpName, touched, got, label>>
  BY DEF MiddlewarePeeks, given
<1>2. /\ rBody \in [tokens : Seq(Token), fails : BOOLEAN]
      /\ inContext \in OpNames \cup {NoName}
      /\ DefaultPeekWindow \in Nat \cup {None}
  BY ConfigFacts DEF PeekInv, PeekTypeOK
<1>3. /\ ~broken => rBody = WholeBody
      /\ Window(cfg) # None => rBody.fails = broken
      /\ ~broken => ~rBody.fails
  BY DEF PeekInv, LeftToRead, WholeBody
<1>4. CASE UNCHANGED rBody
  <2>1. inContext' \in OpNames \cup {NoName}
    BY <1>2, ExtractedFacts, QueryName DEF MiddlewarePeeks
  <2> QED
    BY <1>1, <1>2, <1>3, <1>4, <2>1, LaterSteps
<1>5. CASE /\ rBody' = Peek(DefaultPeekWindow).left
           /\ inContext' = Extracted(DefaultPeekWindow)
  <2>1. /\ Peek(DefaultPeekWindow).left \in [tokens : Seq(Token), fails : BOOLEAN]
        /\ ~rBody.fails => Peek(DefaultPeekWindow).left = rBody
        /\ Peek(DefaultPeekWindow).left.fails = rBody.fails
    BY PeekFacts, ConfigFacts DEF PeekInv
  <2>2. inContext' \in OpNames \cup {NoName}
    BY <1>2, <1>5, ExtractedFacts
  <2> QED
    BY <1>1, <1>3, <1>5, <2>1, <2>2, LaterSteps
<1> QED
  BY <1>4, <1>5 DEF MiddlewarePeeks

LEMMA PeekStep ==
    PeekInv /\ [PeekNext]_peekVars => PeekInv'
<1> SUFFICES ASSUME PeekInv, [PeekNext]_peekVars PROVE PeekInv'
  OBVIOUS
<1>1. /\ rBody \in [tokens : Seq(Token), fails : BOOLEAN]
      /\ inContext \in OpNames \cup {NoName}
  BY DEF PeekInv, PeekTypeOK
<1>2. /\ ~broken => rBody = WholeBody
      /\ Window(cfg) # None => rBody.fails = broken
  BY DEF PeekInv, LeftToRead
<1>3. CASE HandlerReads
  BY <1>1, <1>2, <1>3, LaterSteps DEF HandlerReads, given
<1>4. CASE Records
  BY <1>1, <1>2, <1>4, LaterSteps DEF Records, given
<1>5. CASE HandlerPanics
  BY <1>1, <1>2, <1>5, LaterSteps DEF HandlerPanics, given
<1>6. CASE Ended \/ UNCHANGED peekVars
  <2>1. /\ UNCHANGED <<cfg, kind, body, broken, supplied>>
        /\ UNCHANGED <<rBody, metricOpName, inContext, touched, got, label, at>>
    BY <1>6 DEF Ended, peekVars, given
  <2> QED
    BY <2>1 DEF PeekInv, PeekTypeOK, LeftToRead, NothingYet, NamedByItself, WholeBody,
                BodyIsRestored, WorkIsBounded, Window, TrackingEnabled,
                WindowCovers, OwnName
<1> QED
  BY <1>3, <1>4, <1>5, <1>6, MetricsPeeksKeeps, MiddlewarePeeksKeeps DEF PeekNext

LEMMA PeeksAlwaysFit ==
    PeekSpec => []PeekInv
<1>1. PeekInit => PeekInv
  BY PeekInitially
<1>2. PeekInv /\ [PeekNext]_peekVars => PeekInv'
  BY PeekStep
<1> QED
  BY <1>1, <1>2, PTL DEF PeekSpec

-----------------------------------------------------------------------------

(* Whatever Metrics and Middleware peek at, one after the other, the        *)
(* handler reads the body that came; and meets the error of one that broke  *)
(* off, unless Metrics reads whole bodies.                                  *)
THEOREM PeeksAreUndone ==
    PeekSpec => []BodyIsRestored
<1>1. PeekInv => BodyIsRestored
  BY DEF PeekInv
<1> QED
  BY <1>1, PeeksAlwaysFit, PTL

(* peekRequestBody reads no more than the window, and ServeHTTP nothing at  *)
(* all when no operation is tracked.                                        *)
THEOREM PeeksStayInWindow ==
    PeekSpec => []WorkIsBounded
<1>1. PeekInv => WorkIsBounded
  BY DEF PeekInv
<1> QED
  BY <1>1, PeeksAlwaysFit, PTL

(* A body that the window covers is parsed, and only its own operationName, *)
(* the last one, can become the label.                                      *)
THEOREM WholeBodiesNameThemselves ==
    PeekSpec => []WholeBodyNamesItself
<1>1. PeekInv => WholeBodyNamesItself
  BY DEF PeekInv, NamedByItself, WholeBodyNamesItself
<1> QED
  BY <1>1, PeeksAlwaysFit, PTL

(* The request of graphql.Metrics stays well formed on its way.             *)
THEOREM PeekTypeCorrect ==
    PeekSpec => []PeekTypeOK
<1>1. PeekInv => PeekTypeOK
  BY DEF PeekInv
<1> QED
  BY <1>1, PeeksAlwaysFit, PTL
=============================================================================
