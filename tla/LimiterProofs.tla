---------------------------- MODULE LimiterProofs ----------------------------
(***************************************************************************)
(* Proofs about Limiter, for every set of requests and of entries and      *)
(* every limit, window and bound of the clock: no attempt is forgotten     *)
(* within its window except through an entry that was deleted while a      *)
(* request held it.                                                        *)
(***************************************************************************)
EXTENDS Limiter, FiniteSetTheorems, TLAPS

-----------------------------------------------------------------------------
(* Counting attempts *)

Histories == [Times -> Nat]

LEMMA Clock == /\ Times \subseteq Nat /\ IsFiniteSet(Times)
               /\ Second \in Nat /\ Second > 0
               /\ Window \in Nat /\ Window > 0 /\ Limit \in Nat /\ Limit > 0
<1>1. IsFiniteSet(0 .. MaxTime)
  BY TimeAssumption, FS_Interval
<1> QED
  BY <1>1, TimeAssumption, LimitAssumption DEF Times

\* What is in the stack of a history.
LEMMA InStack ==
  ASSUME NEW f \in Histories
  PROVE  /\ \A t \in Times : \A n \in Nat : <<t, n>> \in Stack(f) <=> n \in 1 .. f[t]
         /\ \A x \in Stack(f) : \E t \in Times, n \in Nat : n \in 1 .. f[t] /\ x = <<t, n>>
  BY DEF Stack, Histories

LEMMA StackFinite ==
  ASSUME NEW f \in Histories
  PROVE  IsFiniteSet(Stack(f)) /\ Total(f) \in Nat
<1> DEFINE Column(t) == {t} \X (1 .. f[t])
           Columns   == {Column(t) : t \in Times}
           column    == [t \in Times |-> Column(t)]
<1>1. column \in Surjection(Times, Columns)
  BY DEF Surjection
<1>2. IsFiniteSet(Columns)
  BY <1>1, Clock, FS_Surjection
<1>3. ASSUME NEW t \in Times PROVE IsFiniteSet(Column(t))
  <2>1. IsFiniteSet({t})
    BY FS_Singleton
  <2>2. IsFiniteSet(1 .. f[t])
    BY FS_Interval DEF Histories
  <2> QED
    BY <2>1, <2>2, FS_Product
<1>4. IsFiniteSet(UNION Columns)
  BY <1>2, <1>3, FS_UNION
<1> QED
  BY <1>4, FS_CardinalityType DEF Stack, Total

\* What is nowhere more is not more in total, and less if it is less somewhere.
LEMMA FewerAttempts ==
  ASSUME NEW f \in Histories, NEW g \in Histories, \A t \in Times : f[t] <= g[t]
  PROVE  /\ Total(f) <= Total(g)
         /\ \A t \in Times : f[t] < g[t] => Total(f) < Total(g)
<1>1. Stack(f) \subseteq Stack(g)
  <2> SUFFICES ASSUME NEW x \in Stack(f) PROVE x \in Stack(g)
    OBVIOUS
  <2>1. PICK t \in Times, n \in Nat : n \in 1 .. f[t] /\ x = <<t, n>>
    BY InStack
  <2>2. n \in 1 .. g[t]
    BY <2>1 DEF Histories
  <2> QED
    BY <2>1, <2>2, InStack
<1>2. /\ Total(f) <= Total(g)
      /\ Total(f) = Total(g) => Stack(f) = Stack(g)
  BY <1>1, StackFinite, FS_Subset DEF Total
<1>3. ASSUME NEW t \in Times, f[t] < g[t] PROVE Stack(f) # Stack(g)
  <2>1. g[t] \in Nat /\ g[t] \in 1 .. g[t] /\ g[t] \notin 1 .. f[t]
    BY <1>3 DEF Histories
  <2> QED
    BY <2>1, InStack
<1> QED
  BY <1>2, <1>3, StackFinite

LEMMA OneMoreAttempt ==
  ASSUME NEW f \in Histories, NEW t \in Times
  PROVE  /\ [f EXCEPT ![t] = @ + 1] \in Histories
         /\ Total([f EXCEPT ![t] = @ + 1]) = Total(f) + 1
<1> DEFINE g == [f EXCEPT ![t] = @ + 1]
           x == <<t, f[t] + 1>>
<1>1. g \in Histories /\ g[t] = f[t] + 1 /\ \A u \in Times : u # t => g[u] = f[u]
  BY DEF Histories
<1>2. f[t] \in Nat
  BY DEF Histories
<1> HIDE DEF g
<1>3. Stack(g) \subseteq Stack(f) \cup {x}
  <2> SUFFICES ASSUME NEW y \in Stack(g), y # x PROVE y \in Stack(f)
    OBVIOUS
  <2>1. PICK u \in Times, n \in Nat : n \in 1 .. g[u] /\ y = <<u, n>>
    BY <1>1, InStack
  <2>2. n \in 1 .. f[u]
    <3>1. CASE u = t
      BY <1>1, <1>2, <2>1, <3>1
    <3>2. CASE u # t
      BY <1>1, <2>1, <3>2
    <3> QED
      BY <3>1, <3>2
  <2> QED
    BY <2>1, <2>2, InStack
<1>4. Stack(f) \subseteq Stack(g)
  <2> SUFFICES ASSUME NEW y \in Stack(f) PROVE y \in Stack(g)
    OBVIOUS
  <2>1. PICK u \in Times, n \in Nat : n \in 1 .. f[u] /\ y = <<u, n>>
    BY InStack
  <2>2. n \in 1 .. g[u]
    BY <1>1, <1>2, <2>1 DEF Histories
  <2> QED
    BY <1>1, <2>1, <2>2, InStack
<1>5. x \in Stack(g) /\ x \notin Stack(f)
  BY <1>1, <1>2, InStack
<1>6. Stack(g) = Stack(f) \cup {x}
  BY <1>3, <1>4, <1>5
<1>7. Cardinality(Stack(f) \cup {x}) = Cardinality(Stack(f)) + 1
  BY <1>5, StackFinite, FS_AddElement
<1> QED
  BY <1>1, <1>6, <1>7 DEF Total, g

LEMMA NoAttempts == /\ Nothing \in Histories /\ Total(Nothing) = 0
                    /\ \A f \in Histories : Total(f) = 0 => f = Nothing
<1>1. Nothing \in Histories /\ \A t \in Times : Nothing[t] = 0
  BY DEF Nothing, Histories
<1>2. Stack(Nothing) = {}
  BY <1>1, InStack
<1>3. ASSUME NEW f \in Histories, Total(f) = 0 PROVE f = Nothing
  <2>1. Stack(f) = {}
    BY <1>3, StackFinite, FS_EmptySet DEF Total
  <2>2. ASSUME NEW t \in Times PROVE f[t] = 0
    <3>1. f[t] \in Nat /\ <<t, f[t]>> \notin Stack(f)
      BY <2>1 DEF Histories
    <3>2. f[t] \notin 1 .. f[t]
      BY <3>1, InStack
    <3> QED
      BY <3>1, <3>2
  <2> QED
    BY <2>2 DEF Histories, Nothing
<1> QED
  BY <1>1, <1>2, <1>3, FS_EmptySet DEF Total

\* What is covered by two histories is at most their sum.
LEMMA TwoParts ==
  ASSUME NEW f \in Histories, NEW g \in Histories, NEW h \in Histories,
         \A t \in Times : f[t] <= g[t] \/ f[t] <= h[t]
  PROVE  Total(f) <= Total(g) + Total(h)
<1>1. Stack(f) \subseteq Stack(g) \cup Stack(h)
  <2> SUFFICES ASSUME NEW x \in Stack(f) PROVE x \in Stack(g) \/ x \in Stack(h)
    OBVIOUS
  <2>1. PICK t \in Times, n \in Nat : n \in 1 .. f[t] /\ x = <<t, n>>
    BY InStack
  <2>2. n \in 1 .. g[t] \/ n \in 1 .. h[t]
    BY <2>1 DEF Histories
  <2> QED
    BY <2>1, <2>2, InStack
<1>2. /\ IsFiniteSet(Stack(g) \cup Stack(h))
      /\ Cardinality(Stack(g) \cup Stack(h))
           = Total(g) + Total(h) - Cardinality(Stack(g) \cap Stack(h))
  BY StackFinite, FS_Union DEF Total
<1>3. Cardinality(Stack(g) \cap Stack(h)) \in Nat
  BY StackFinite, FS_Intersection, FS_CardinalityType
<1>4. Total(f) <= Cardinality(Stack(g) \cup Stack(h))
  BY <1>1, <1>2, FS_Subset DEF Total
<1>5. Cardinality(Stack(g) \cup Stack(h)) \in Nat
  BY <1>2, FS_CardinalityType
<1> QED
  BY <1>2, <1>3, <1>4, <1>5, StackFinite

-----------------------------------------------------------------------------
(* Entries, and the types *)

\* Forgetting the attempts that have left the window.
LEMMA Forgetting ==
  ASSUME NEW f \in Histories, NEW at \in Nat
  PROVE  /\ Within(f, at) \in Histories
         /\ \A t \in Times : Within(f, at)[t] = IF at < t + Window THEN f[t] ELSE 0
         /\ \A t \in Times : Within(f, at)[t] <= f[t]
         /\ Total(Within(f, at)) <= Total(f)
<1>1. /\ Within(f, at) \in Histories
      /\ \A t \in Times : Within(f, at)[t] = IF at < t + Window THEN f[t] ELSE 0
  BY DEF Within, InWindow, Histories
<1>2. \A t \in Times : Within(f, at)[t] <= f[t]
  BY <1>1 DEF Histories
<1> QED
  BY <1>1, <1>2, FewerAttempts

LEMMA Fresh ==
  ASSUME NEW at \in Nat
  PROVE  /\ NoEntry \in Entry /\ NoEntry.attempts = Nothing
         /\ Created(at) \in Entry /\ Created(at).attempts = Nothing
         /\ Created(at).reset = IF kind = "fixed" THEN at + Window ELSE 0
<1>1. at + Window \in Nat
  BY Clock
<1> QED
  BY <1>1, NoAttempts DEF NoEntry, Created, Entry, Histories

\* What is kept of an entry at a time.
LEMMA Keeping ==
  ASSUME NEW e \in Entry, NEW at \in Nat
  PROVE  /\ Kept(e, at) \in Entry
         /\ \A t \in Times : Kept(e, at).attempts[t] <= e.attempts[t]
         /\ kind = "sliding" => /\ Kept(e, at).attempts = Within(e.attempts, at)
                                /\ Kept(e, at).reset = e.reset
         /\ kind # "sliding" => IF at > e.reset
                                THEN /\ Kept(e, at).attempts = Nothing
                                     /\ Kept(e, at).reset = at + Window
                                ELSE Kept(e, at) = e
<1>1. e.attempts \in Histories /\ e.reset \in Nat
  BY DEF Entry, Histories
<1>2. /\ Pruned(e, at) \in Entry
      /\ Pruned(e, at).attempts = Within(e.attempts, at)
      /\ Pruned(e, at).reset = e.reset
  BY <1>1, Forgetting DEF Pruned, Entry, Histories
<1>3. \A t \in Times : Pruned(e, at).attempts[t] <= e.attempts[t]
  BY <1>1, <1>2, Forgetting
<1>4. at + Window \in Nat /\ Nothing \in Histories /\ \A t \in Times : Nothing[t] = 0
  BY Clock, NoAttempts DEF Nothing
<1>5. CASE at > e.reset
  <2>1. /\ Renewed(e, at) = [attempts |-> Nothing, reset |-> at + Window]
        /\ \A t \in Times : 0 <= e.attempts[t]
    BY <1>1, <1>5 DEF Renewed, Histories
  <2> QED
    BY <1>2, <1>3, <1>4, <1>5, <2>1 DEF Kept, Entry, Histories
<1>6. CASE ~(at > e.reset)
  <2>1. Renewed(e, at) = e /\ \A t \in Times : e.attempts[t] <= e.attempts[t]
    BY <1>1, <1>6 DEF Renewed, Histories
  <2> QED
    BY <1>2, <1>3, <1>6, <2>1 DEF Kept
<1> QED
  BY <1>5, <1>6

\* Collecting entries changes only those that nothing refers to.
LEMMA Collecting ==
  ASSUME NEW es \in [Entries -> Entry]
  PROVE  /\ Collected(es) \in [Entries -> Entry]
         /\ \A e \in Entries : Collected(es)[e] \in {es[e], NoEntry}
         /\ \A e \in Entries : e = current' => Collected(es)[e] = es[e]
<1>1. NoEntry \in Entry
  BY Fresh, TimeAssumption
<1> QED
  BY <1>1 DEF Collected

Past(e) == \A t \in Times : t > now => e.attempts[t] = 0

\* A new attempt in an entry.
LEMMA Recording ==
  ASSUME NEW e \in Entry, now \in Times
  PROVE  /\ [e EXCEPT !.attempts = Recorded(@)] \in Entry
         /\ [e EXCEPT !.attempts = Recorded(@)].attempts = Recorded(e.attempts)
         /\ [e EXCEPT !.attempts = Recorded(@)].reset = e.reset
         /\ Recorded(e.attempts) \in Histories
         /\ Recorded(e.attempts)[now] = e.attempts[now] + 1
         /\ \A t \in Times : t # now => Recorded(e.attempts)[t] = e.attempts[t]
         /\ Total(Recorded(e.attempts)) = Total(e.attempts) + 1
<1>1. e.attempts \in Histories
  BY DEF Entry, Histories
<1>2. Recorded(e.attempts) \in Histories /\ Total(Recorded(e.attempts)) = Total(e.attempts) + 1
  BY <1>1, OneMoreAttempt DEF Recorded
<1> QED
  BY <1>1, <1>2 DEF Recorded, Entry, Histories

-----------------------------------------------------------------------------
(* The invariant *)

\* What a history has of the windows before the one that ends at reset.
Before(h, reset) == [t \in Times |-> IF t + Window < reset THEN h[t] ELSE 0]

\* An entry of the fixed limiter has all attempts since its window began; those
\* that were admitted before were admitted by the window before.
WindowOf(e, h, at) ==
    /\ e.reset <= at + Window
    /\ \A t \in Times : e.attempts[t] > 0 => t <= e.reset
    /\ \A t \in Times : t + Window >= e.reset => h[t] <= e.attempts[t]
    /\ Total(Before(h, e.reset)) <= Limit

EntryLimit == \A e \in Entries : Total(entry[e].attempts) <= Limit
Recent     == \A t \in Times : admitted[t] > 0 => t <= now /\ InWindow(t, now)
Forgotten  == current = None => admitted = Nothing
Sliding    == kind = "sliding" /\ current # None => admitted = Within(entry[current].attempts, now)
Seam       == kind = "fixed" /\ current # None => WindowOf(entry[current], admitted, now)

LimiterInv == TypeOK /\ EntryLimit /\ Recent /\ Forgotten /\ Sliding /\ Seam

LEMMA InitInv == Init => LimiterInv
<1> SUFFICES ASSUME Init PROVE LimiterInv
  OBVIOUS
<1>1. now \in Times /\ NoTime = MaxTime + 1
  BY TimeAssumption DEF Init, Times, NoTime
<1>2. \A t \in Times : Nothing[t] = 0
  BY DEF Nothing
<1>3. \A e \in Entries : entry[e] = NoEntry /\ NoEntry \in Entry /\ NoEntry.attempts = Nothing
  BY Fresh, TimeAssumption DEF Init
<1>4. TypeOK
  BY <1>1, <1>2, <1>3, NoAttempts DEF Init, TypeOK, Histories
<1>5. EntryLimit
  BY <1>3, NoAttempts, Clock DEF EntryLimit
<1> QED
  BY <1>2, <1>4, <1>5 DEF Init, LimiterInv, Recent, Forgotten, Sliding, Seam

\* A step that does not touch the entry of the map, nor the time.
LEMMA SameWindow ==
  ASSUME LimiterInv, UNCHANGED <<kind, now, admitted, current>>,
         current # None => entry'[current] = entry[current]
  PROVE  Recent' /\ Forgotten' /\ Sliding' /\ Seam'
BY DEF LimiterInv, Recent, Forgotten, Sliding, Seam

\* What is kept of the entry of the map still accounts for all that was admitted.
LEMMA KeptWindow ==
  ASSUME LimiterInv, current # None
  PROVE  /\ kind = "sliding" => admitted = Kept(entry[current], now).attempts
         /\ kind = "fixed" => /\ WindowOf(Kept(entry[current], now), admitted, now)
                              /\ now <= Kept(entry[current], now).reset
<1> DEFINE e == entry[current]
           k == Kept(e, now)
<1>1. /\ e \in Entry /\ now \in Nat /\ now \in Times /\ admitted \in Histories
      /\ e.attempts \in Histories /\ e.reset \in Nat
  BY Clock DEF LimiterInv, TypeOK, Entry, Histories
<1>2. CASE kind = "sliding"
  BY <1>1, <1>2, Keeping DEF LimiterInv, Sliding
<1>3. CASE kind = "fixed" /\ now > e.reset
  <2>1. k.attempts = Nothing /\ k.reset = now + Window
    BY <1>1, <1>3, Keeping
  <2>2. /\ WindowOf(e, admitted, now) /\ Total(e.attempts) <= Limit
        /\ Recent
    BY <1>3 DEF LimiterInv, Seam, EntryLimit, TypeOK
  <2>3. \A t \in Times : admitted[t] <= e.attempts[t]
    <3> SUFFICES ASSUME NEW t \in Times PROVE admitted[t] <= e.attempts[t]
      OBVIOUS
    <3>1. CASE admitted[t] = 0
      BY <1>1, <3>1 DEF Histories
    <3>2. CASE admitted[t] > 0
      <4>1. now < t + Window /\ t \in Nat
        BY <2>2, <3>2, Clock DEF Recent, InWindow
      <4>2. t + Window >= e.reset
        BY <1>1, <1>3, <4>1, Clock
      <4> QED
        BY <2>2, <4>2 DEF WindowOf
    <3> QED
      BY <1>1, <3>1, <3>2 DEF Histories
  <2>4. Before(admitted, k.reset) \in Histories
    BY <1>1 DEF Before, Histories
  <2>5. \A t \in Times : Before(admitted, k.reset)[t] <= e.attempts[t]
    BY <1>1, <2>3 DEF Before, Histories
  <2>6. Total(Before(admitted, k.reset)) <= Limit
    BY <1>1, <2>2, <2>4, <2>5, FewerAttempts, StackFinite, Clock
  <2>7. ASSUME NEW t \in Times, t + Window >= now + Window
        PROVE  admitted[t] <= 0
    <3>1. t > e.reset /\ e.attempts[t] = 0
      BY <1>1, <1>3, <2>2, <2>7, Clock DEF WindowOf, Histories
    <3> QED
      BY <2>3, <3>1
  <2>8. \A t \in Times : Nothing[t] = 0
    BY DEF Nothing
  <2> HIDE DEF k
  <2> QED
    BY <1>1, <1>3, <2>1, <2>6, <2>7, <2>8, Clock DEF WindowOf, k
<1>4. CASE kind = "fixed" /\ ~(now > e.reset)
  BY <1>1, <1>4, Keeping DEF LimiterInv, Seam
<1> QED
  BY <1>2, <1>3, <1>4

\* One more attempt, in the entry and in the history.
LEMMA RecordWindow ==
  ASSUME NEW k \in Entry, NEW h \in Histories, now \in Times, WindowOf(k, h, now),
         now <= k.reset
  PROVE  WindowOf([k EXCEPT !.attempts = Recorded(@)], Recorded(h), now)
<1> DEFINE n == [k EXCEPT !.attempts = Recorded(@)]
           g == Recorded(h)
<1>1. /\ n.attempts = Recorded(k.attempts) /\ n.reset = k.reset
      /\ n.attempts[now] = k.attempts[now] + 1
      /\ \A t \in Times : t # now => n.attempts[t] = k.attempts[t]
  BY Recording
<1>2. /\ g[now] = h[now] + 1
      /\ \A t \in Times : t # now => g[t] = h[t]
      /\ g \in Histories
  BY OneMoreAttempt DEF Recorded, Histories
<1>3. now \in Nat /\ k.reset \in Nat /\ k.attempts \in Histories
  BY Clock DEF Entry, Histories
<1>4. Before(g, k.reset) = Before(h, k.reset)
  BY <1>2, <1>3, Clock DEF Before, WindowOf
<1> HIDE DEF n, g
<1>5. \A t \in Times : n.attempts[t] > 0 => t <= n.reset
  BY <1>1 DEF WindowOf
<1>6. \A t \in Times : t + Window >= n.reset => g[t] <= n.attempts[t]
  BY <1>1, <1>2, <1>3 DEF WindowOf, Histories
<1>7. WindowOf(n, g, now)
  BY <1>1, <1>4, <1>5, <1>6 DEF WindowOf
<1> QED
  BY <1>7 DEF n, g

-----------------------------------------------------------------------------
(* Every step keeps it *)

LEMMA LookUpInv ==
  ASSUME LimiterInv, NEW r \in Requests, LookUp(r)
  PROVE  LimiterInv'
<1>1. TypeOK' /\ EntryLimit'
  BY DEF LimiterInv, TypeOK, EntryLimit, LookUp
<1> QED
  BY <1>1, SameWindow DEF LimiterInv, LookUp

LEMMA LookUpNewInv ==
  ASSUME LimiterInv, NEW r \in Requests, NEW e \in Entries, LookUpNew(r, e)
  PROVE  LimiterInv'
<1> USE DEF LookUpNew
<1>1. /\ Created(now) \in Entry /\ Created(now).attempts = Nothing
      /\ kind = "fixed" => Created(now).reset = now + Window
  BY Fresh, Clock DEF LimiterInv, TypeOK
<1>2. /\ entry'[e] = Created(now) /\ current' = e /\ current' # None
      /\ \A d \in Entries : d # e => entry'[d] = entry[d]
  BY NoneAssumption DEF LimiterInv, TypeOK
<1>3. admitted = Nothing /\ now \in Nat /\ \A t \in Times : Nothing[t] = 0
  BY Clock DEF LimiterInv, Forgotten, TypeOK, Nothing
<1>4. TypeOK'
  <2>1. \A d \in Entries, t \in Times : t > now' => entry'[d].attempts[t] = 0
    BY <1>1, <1>2, <1>3 DEF LimiterInv, TypeOK
  <2>2. entry' \in [Entries -> Entry] /\ req' \in [Requests -> Entries \cup {None}]
    BY <1>1 DEF LimiterInv, TypeOK
  <2> QED
    BY <2>1, <2>2 DEF LimiterInv, TypeOK
<1>5. EntryLimit'
  BY <1>1, <1>2, NoAttempts, Clock DEF LimiterInv, EntryLimit
<1>6. Recent' /\ Forgotten'
  BY <1>2, <1>3 DEF Recent, Forgotten
<1>7. Sliding'
  <2>1. Within(Nothing, now) = Nothing
    BY <1>3, NoAttempts, Forgetting DEF Within, Nothing
  <2> QED
    BY <1>1, <1>2, <1>3, <2>1 DEF Sliding
<1>8. Seam'
  <2>1. Before(Nothing, now + Window) = Nothing
    BY <1>3 DEF Before, Nothing
  <2>2. ASSUME kind = "fixed" PROVE WindowOf(Created(now), Nothing, now)
    BY <1>1, <1>3, <2>1, <2>2, NoAttempts, Clock DEF WindowOf
  <2> QED
    BY <1>2, <1>3, <2>2 DEF Seam
<1> QED
  BY <1>4, <1>5, <1>6, <1>7, <1>8 DEF LimiterInv

\* What an attempt, admitted or refused, leaves in the entry it has looked up.
LEMMA EntryAfter ==
  ASSUME LimiterInv, NEW d \in Entries, NEW k \in Entry,
         Total(k.attempts) <= Limit, Past(k),
         entry' = Collected([entry EXCEPT ![d] = k]),
         UNCHANGED <<now, current>>
  PROVE  /\ entry' \in [Entries -> Entry]
         /\ \A e \in Entries, t \in Times : t > now' => entry'[e].attempts[t] = 0
         /\ EntryLimit'
         /\ d = current => entry'[current] = k
         /\ d # current /\ current # None => entry'[current] = entry[current]
<1> DEFINE es == [entry EXCEPT ![d] = k]
<1>1. /\ es \in [Entries -> Entry] /\ es[d] = k
      /\ \A e \in Entries : e # d => es[e] = entry[e]
  BY DEF LimiterInv, TypeOK
<1> HIDE DEF es
<1>2. /\ entry' \in [Entries -> Entry]
      /\ \A e \in Entries : entry'[e] \in {es[e], NoEntry}
      /\ \A e \in Entries : e = current' => entry'[e] = es[e]
  BY <1>1, Collecting DEF es
<1>3. NoEntry.attempts = Nothing /\ \A t \in Times : Nothing[t] = 0
  BY DEF NoEntry, Nothing
<1>4. \A e \in Entries, t \in Times : t > now' => entry'[e].attempts[t] = 0
  <2> SUFFICES ASSUME NEW e \in Entries, NEW t \in Times, t > now
               PROVE  entry'[e].attempts[t] = 0
    OBVIOUS
  <2>1. entry[e].attempts[t] = 0 /\ k.attempts[t] = 0
    BY DEF LimiterInv, TypeOK, Past
  <2>2. es[e].attempts[t] = 0
    BY <1>1, <2>1
  <2> QED
    BY <1>2, <1>3, <2>2
<1>5. EntryLimit'
  <2> SUFFICES ASSUME NEW e \in Entries PROVE Total(entry'[e].attempts) <= Limit
    BY DEF EntryLimit
  <2>1. Total(NoEntry.attempts) <= Limit
    BY <1>3, NoAttempts, Clock
  <2>2. Total(es[e].attempts) <= Limit
    BY <1>1 DEF LimiterInv, EntryLimit
  <2> QED
    BY <1>2, <2>1, <2>2
<1> QED
  BY <1>1, <1>2, <1>4, <1>5 DEF LimiterInv, TypeOK

LEMMA KeptEntry ==
  ASSUME LimiterInv, NEW d \in Entries
  PROVE  /\ Kept(entry[d], now) \in Entry
         /\ Kept(entry[d], now).attempts \in Histories
         /\ Total(Kept(entry[d], now).attempts) \in Nat
         /\ Total(Kept(entry[d], now).attempts) <= Limit
         /\ Past(Kept(entry[d], now))
<1> DEFINE k == Kept(entry[d], now)
<1>1. /\ entry[d] \in Entry /\ entry[d].attempts \in Histories /\ now \in Nat
      /\ Total(entry[d].attempts) <= Limit /\ Past(entry[d])
  BY Clock DEF LimiterInv, TypeOK, EntryLimit, Entry, Histories, Past
<1>2. k \in Entry /\ \A t \in Times : k.attempts[t] <= entry[d].attempts[t]
  BY <1>1, Keeping
<1> HIDE DEF k
<1>3. k.attempts \in Histories
  BY <1>2 DEF Entry, Histories
<1>4. Total(k.attempts) <= Total(entry[d].attempts)
  BY <1>1, <1>2, <1>3, FewerAttempts
<1>5. Past(k)
  BY <1>1, <1>2, <1>3 DEF Past, Histories
<1>6. Total(k.attempts) \in Nat /\ Total(entry[d].attempts) \in Nat
  BY <1>1, <1>3, StackFinite
<1>7. Total(k.attempts) <= Limit
  BY <1>1, <1>4, <1>6, Clock
<1> QED
  BY <1>2, <1>3, <1>5, <1>6, <1>7 DEF k

LEMMA RefuseInv ==
  ASSUME LimiterInv, NEW r \in Requests, Refuse(r)
  PROVE  LimiterInv'
<1> DEFINE d == req[r]
           k == Kept(entry[d], now)
<1>1. /\ d \in Entries
      /\ req' \in [Requests -> Entries \cup {None}]
      /\ entry' = Collected([entry EXCEPT ![d] = k])
      /\ UNCHANGED <<kind, now, current, asked, sweep, admitted>>
  BY DEF Refuse, LimiterInv, TypeOK
<1>2. k \in Entry /\ Total(k.attempts) <= Limit /\ Past(k)
  BY <1>1, KeptEntry
<1> HIDE DEF k, d
<1>3. /\ entry' \in [Entries -> Entry]
      /\ \A e \in Entries, t \in Times : t > now' => entry'[e].attempts[t] = 0
      /\ EntryLimit'
      /\ d = current => entry'[current] = k
      /\ d # current /\ current # None => entry'[current] = entry[current]
  BY <1>1, <1>2, EntryAfter
<1>4. TypeOK'
  BY <1>1, <1>3 DEF LimiterInv, TypeOK
<1>5. CASE d # current
  BY <1>1, <1>3, <1>4, <1>5, SameWindow DEF LimiterInv
<1>6. CASE d = current
  <2>1. current # None /\ entry'[current'] = k /\ now \in Nat
    BY <1>1, <1>3, <1>6, NoneAssumption, Clock DEF LimiterInv, TypeOK
  <2>2. /\ kind = "sliding" => admitted = k.attempts
        /\ kind = "fixed" => WindowOf(k, admitted, now)
    BY <2>1, <1>6, KeptWindow DEF k
  <2>3. Recent' /\ Forgotten'
    BY <1>1, <2>1 DEF LimiterInv, Recent, Forgotten
  <2>4. Sliding'
    <3>1. kind = "sliding" => k.attempts = Within(k.attempts, now)
      <4> SUFFICES ASSUME kind = "sliding" PROVE k.attempts = Within(k.attempts, now)
        OBVIOUS
      <4>1. k.attempts \in Histories /\ entry[d] \in Entry /\ entry[d].attempts \in Histories
        BY <1>1, <1>2 DEF Entry, Histories, LimiterInv, TypeOK
      <4>2. k.attempts = Within(entry[d].attempts, now)
        BY <2>1, <4>1, Keeping DEF k
      <4> QED
        BY <2>1, <4>1, <4>2, Forgetting DEF Histories, Within
    <3> QED
      BY <1>1, <2>1, <2>2, <3>1 DEF Sliding
  <2>5. Seam'
    BY <1>1, <2>1, <2>2 DEF Seam
  <2> QED
    BY <1>3, <1>4, <2>3, <2>4, <2>5 DEF LimiterInv
<1> QED
  BY <1>5, <1>6

LEMMA AdmitInv ==
  ASSUME LimiterInv, NEW r \in Requests, Admit(r)
  PROVE  LimiterInv'
<1> DEFINE d == req[r]
           k == Kept(entry[d], now)
           n == [k EXCEPT !.attempts = Recorded(@)]
<1>1. /\ d \in Entries /\ ~(Total(k.attempts) >= Limit)
      /\ req' \in [Requests -> Entries \cup {None}]
      /\ entry' = Collected([entry EXCEPT ![d] = n])
      /\ UNCHANGED <<kind, now, current, asked, sweep>>
      /\ admitted' = IF d = current THEN Recorded(admitted) ELSE admitted
  BY DEF Admit, Full, LimiterInv, TypeOK
<1>2. /\ k \in Entry /\ Past(k) /\ Total(k.attempts) \in Nat
      /\ now \in Times /\ now \in Nat /\ admitted \in Histories
  BY <1>1, KeptEntry, Clock DEF LimiterInv, TypeOK, Histories
<1> HIDE DEF k, d
<1>3. /\ n \in Entry /\ Total(n.attempts) = Total(k.attempts) + 1
      /\ n.attempts = Recorded(k.attempts)
      /\ \A t \in Times : t # now => n.attempts[t] = k.attempts[t]
  BY <1>2, Recording
<1>4. Total(n.attempts) <= Limit /\ Past(n)
  BY <1>1, <1>2, <1>3, Clock DEF Past
<1> HIDE DEF n
<1>5. /\ entry' \in [Entries -> Entry]
      /\ \A e \in Entries, t \in Times : t > now' => entry'[e].attempts[t] = 0
      /\ EntryLimit'
      /\ d = current => entry'[current] = n
      /\ d # current /\ current # None => entry'[current] = entry[current]
  BY <1>1, <1>3, <1>4, EntryAfter
<1>6. /\ Recorded(admitted) \in Histories /\ Recorded(admitted)[now] = admitted[now] + 1
      /\ \A t \in Times : t # now => Recorded(admitted)[t] = admitted[t]
  BY <1>2, OneMoreAttempt DEF Recorded, Histories
<1>7. TypeOK'
  BY <1>1, <1>5, <1>6 DEF LimiterInv, TypeOK, Histories
<1>8. CASE d # current
  BY <1>1, <1>5, <1>7, <1>8, SameWindow DEF LimiterInv
<1>9. CASE d = current
  <2>1. current # None /\ entry'[current'] = n /\ admitted' = Recorded(admitted)
    BY <1>1, <1>5, <1>9, NoneAssumption
  <2>2. /\ kind = "sliding" => admitted = k.attempts
        /\ kind = "fixed" => WindowOf(k, admitted, now) /\ now <= k.reset
    BY <2>1, <1>9, KeptWindow DEF k
  <2>3. Recent' /\ Forgotten'
    BY <1>1, <1>2, <1>6, <2>1, Clock DEF LimiterInv, Recent, Forgotten, InWindow
  <2>4. Sliding'
    <3> SUFFICES ASSUME kind = "sliding"
                 PROVE  Recorded(admitted) = Within(Recorded(admitted), now)
      BY <1>1, <1>3, <2>1, <2>2 DEF Sliding
    <3>1. ASSUME NEW t \in Times
          PROVE  Recorded(admitted)[t] = Within(Recorded(admitted), now)[t]
      <4>1. CASE t = now
        <5>1. now < now + Window
          BY <1>2, Clock
        <5> QED
          BY <1>2, <1>6, <4>1, <5>1, Forgetting
      <4>2. CASE t # now /\ admitted[t] = 0
        BY <1>2, <1>6, <4>2, Forgetting
      <4>3. CASE t # now /\ admitted[t] > 0
        BY <1>2, <1>6, <4>3, Forgetting DEF LimiterInv, Recent, InWindow
      <4> QED
        BY <1>2, <4>1, <4>2, <4>3 DEF Histories
    <3>2. Within(Recorded(admitted), now) \in Histories
      BY <1>2, <1>6, Forgetting
    <3> QED
      BY <1>6, <3>1, <3>2 DEF Histories
  <2>5. Seam'
    <3>1. kind = "fixed" => WindowOf(n, Recorded(admitted), now)
      BY <1>2, <2>2, RecordWindow DEF n
    <3> QED
      BY <1>1, <2>1, <3>1 DEF Seam
  <2> QED
    BY <1>5, <1>7, <2>3, <2>4, <2>5 DEF LimiterInv
<1> QED
  BY <1>8, <1>9

LEMMA TickInv ==
  ASSUME LimiterInv, Tick
  PROVE  LimiterInv'
<1> DEFINE h == Within(admitted, now + 1)
<1>1. /\ now' = now + 1 /\ now' \in Times /\ now \in Nat /\ admitted' = h
      /\ UNCHANGED <<kind, current, entry, req, asked, sweep>>
      /\ admitted \in Histories
  <2>1. now \in 0 .. MaxTime /\ now < MaxTime /\ now' = now + 1
    BY DEF Tick, Times, LimiterInv, TypeOK
  <2>2. now' \in Times /\ now \in Nat
    BY <2>1, TimeAssumption DEF Times
  <2> QED
    BY <2>1, <2>2 DEF Tick, LimiterInv, TypeOK, Histories
<1>2. /\ h \in Histories
      /\ \A t \in Times : h[t] = IF now + 1 < t + Window THEN admitted[t] ELSE 0
      /\ \A t \in Times : h[t] <= admitted[t]
  BY <1>1, Forgetting
<1> HIDE DEF h
<1>3. TypeOK'
  <2>1. sweep' \in (0 .. now') \cup {NoTime}
    BY <1>1 DEF LimiterInv, TypeOK
  <2>2. \A e \in Entries, t \in Times : t > now' => entry'[e].attempts[t] = 0
    BY <1>1, Clock DEF LimiterInv, TypeOK
  <2> QED
    BY <1>1, <1>2, <2>1, <2>2 DEF LimiterInv, TypeOK, Histories
<1>4. EntryLimit'
  BY <1>1 DEF LimiterInv, EntryLimit
<1>5. Recent'
  BY <1>1, <1>2, Clock DEF LimiterInv, Recent, InWindow
<1>6. Forgotten'
  <2>1. ASSUME admitted = Nothing PROVE h = Nothing
    BY <1>2, <2>1 DEF Nothing, Histories
  <2> QED
    BY <1>1, <2>1 DEF LimiterInv, Forgotten
<1>7. Sliding'
  <2> SUFFICES ASSUME kind = "sliding", current # None
               PROVE  h = Within(entry[current].attempts, now + 1)
    BY <1>1 DEF Sliding
  <2> DEFINE f == entry[current].attempts
  <2>1. f \in Histories /\ admitted = Within(f, now)
    BY DEF LimiterInv, TypeOK, Sliding, Entry, Histories
  <2>2. ASSUME NEW t \in Times PROVE h[t] = Within(f, now + 1)[t]
    <3>1. admitted[t] = IF now < t + Window THEN f[t] ELSE 0
      BY <1>1, <2>1, Forgetting
    <3>2. Within(f, now + 1)[t] = IF now + 1 < t + Window THEN f[t] ELSE 0
      BY <1>1, <2>1, Forgetting
    <3> QED
      BY <1>1, <1>2, <3>1, <3>2, Clock
  <2>3. Within(f, now + 1) \in Histories
    BY <1>1, <2>1, Forgetting
  <2> QED
    BY <1>2, <2>2, <2>3 DEF Histories
<1>8. Seam'
  <2> SUFFICES ASSUME kind = "fixed", current # None
               PROVE  WindowOf(entry[current], h, now + 1)
    BY <1>1 DEF Seam
  <2> DEFINE e == entry[current]
  <2>1. /\ WindowOf(e, admitted, now) /\ e.reset \in Nat
        /\ e.attempts \in Histories
    BY DEF LimiterInv, Seam, TypeOK, Entry, Histories
  <2>2. /\ Before(h, e.reset) \in Histories /\ Before(admitted, e.reset) \in Histories
        /\ \A t \in Times : Before(h, e.reset)[t] <= Before(admitted, e.reset)[t]
    BY <1>1, <1>2 DEF Before, Histories
  <2>3. Total(Before(h, e.reset)) <= Limit
    BY <2>1, <2>2, FewerAttempts, StackFinite, Clock DEF WindowOf
  <2>4. ASSUME NEW t \in Times, t + Window >= e.reset PROVE h[t] <= e.attempts[t]
    <3>1. admitted[t] <= e.attempts[t]
      BY <2>1, <2>4 DEF WindowOf
    <3>2. h[t] \in Nat /\ admitted[t] \in Nat /\ e.attempts[t] \in Nat /\ h[t] <= admitted[t]
      BY <1>1, <1>2, <2>1 DEF Histories
    <3> QED
      BY <3>1, <3>2
  <2> QED
    BY <1>1, <2>1, <2>3, <2>4, Clock DEF WindowOf
<1> QED
  BY <1>3, <1>4, <1>5, <1>6, <1>7, <1>8 DEF LimiterInv

LEMMA CleanupTickInv ==
  ASSUME LimiterInv, CleanupTick
  PROVE  LimiterInv'
<1>1. now \in Nat /\ now \in 0 .. now
  BY Clock DEF LimiterInv, TypeOK
<1>2. TypeOK' /\ EntryLimit'
  BY <1>1 DEF CleanupTick, LimiterInv, TypeOK, EntryLimit
<1> QED
  BY <1>2, SameWindow DEF CleanupTick, LimiterInv

\* An entry that expired, by a clock that was read before, has nothing that was
\* admitted within the window.
LEMMA ExpiredIsForgotten ==
  ASSUME LimiterInv, current # None, sweep # NoTime, Expired(entry[current], sweep)
  PROVE  admitted = Nothing
<1> DEFINE e == entry[current]
<1>1. /\ e \in Entry /\ e.attempts \in Histories /\ e.reset \in Nat /\ admitted \in Histories
      /\ now \in Nat /\ sweep \in Nat /\ sweep <= now
  BY Clock DEF LimiterInv, TypeOK, Entry, Histories
<1>2. \A t \in Times : Nothing[t] = 0
  BY DEF Nothing
<1>3. ASSUME NEW t \in Times PROVE admitted[t] = 0
  <2>1. CASE kind = "sliding"
    <3>1. Within(e.attempts, sweep) = Nothing
      BY <1>1, <2>1, Forgetting, NoAttempts DEF Expired
    <3>2. (IF sweep < t + Window THEN e.attempts[t] ELSE 0) = 0
      BY <1>1, <1>2, <3>1, Forgetting
    <3>3. admitted[t] = IF now < t + Window THEN e.attempts[t] ELSE 0
      <4>1. admitted = Within(e.attempts, now)
        BY <2>1 DEF LimiterInv, Sliding
      <4> QED
        BY <1>1, <4>1, Forgetting
    <3> QED
      BY <1>1, <3>2, <3>3, Clock
  <2>2. CASE kind = "fixed"
    <3>1. sweep > e.reset + Window /\ WindowOf(e, admitted, now)
      BY <2>2 DEF Expired, LimiterInv, Seam
    <3>2. CASE admitted[t] > 0
      <4>1. now < t + Window /\ t \in Nat
        BY <3>2, Clock DEF LimiterInv, Recent, InWindow
      <4>2. t > e.reset
        BY <1>1, <3>1, <4>1, Clock
      <4>3. t + Window >= e.reset
        BY <1>1, <4>1, <4>2, Clock
      <4>4. admitted[t] <= e.attempts[t]
        BY <3>1, <4>3 DEF WindowOf
      <4>5. e.attempts[t] > 0
        BY <1>1, <3>2, <4>4 DEF Histories
      <4>6. t <= e.reset
        BY <3>1, <4>5 DEF WindowOf
      <4> QED
        BY <1>1, <4>1, <4>2, <4>6
    <3> QED
      BY <1>1, <3>2 DEF Histories
  <2> QED
    BY <2>1, <2>2 DEF LimiterInv, TypeOK
<1> QED
  BY <1>1, <1>2, <1>3, NoAttempts DEF Histories

LEMMA CleanupInv ==
  ASSUME LimiterInv, Cleanup
  PROVE  LimiterInv'
<1>1. /\ UNCHANGED <<kind, now, req, asked, admitted>> /\ sweep' = NoTime /\ sweep # NoTime
      /\ entry \in [Entries -> Entry]
  BY DEF Cleanup, LimiterInv, TypeOK
<1>2. now \in Nat /\ sweep \in Nat /\ sweep <= now
  BY <1>1, Clock DEF LimiterInv, TypeOK
<1>3. CASE /\ current # None /\ Expired(entry[current], sweep)
           /\ current' = None /\ entry' = Collected(entry)
  <2>1. /\ entry' \in [Entries -> Entry]
        /\ \A e \in Entries : entry'[e] \in {entry[e], NoEntry}
    BY <1>1, <1>3, Collecting
  <2>2. NoEntry.attempts = Nothing /\ \A t \in Times : Nothing[t] = 0
    BY DEF NoEntry, Nothing
  <2>3. \A e \in Entries, t \in Times : t > now' => entry'[e].attempts[t] = 0
    BY <1>1, <2>1, <2>2 DEF LimiterInv, TypeOK
  <2>4. TypeOK'
    BY <1>1, <1>3, <2>1, <2>3 DEF LimiterInv, TypeOK
  <2>5. EntryLimit'
    <3> SUFFICES ASSUME NEW e \in Entries PROVE Total(entry'[e].attempts) <= Limit
      BY DEF EntryLimit
    <3>1. Total(NoEntry.attempts) <= Limit
      BY <2>2, NoAttempts, Clock
    <3>2. Total(entry[e].attempts) <= Limit
      BY DEF LimiterInv, EntryLimit
    <3> QED
      BY <2>1, <3>1, <3>2
  <2>6. admitted' = Nothing
    BY <1>1, <1>3, ExpiredIsForgotten
  <2> QED
    BY <1>1, <1>3, <2>4, <2>5, <2>6 DEF LimiterInv, Recent, Forgotten, Sliding, Seam
<1>4. CASE /\ current # None /\ kind = "sliding" /\ UNCHANGED current
           /\ entry' = [entry EXCEPT ![current] = Pruned(@, sweep)]
  <2> DEFINE e == entry[current]
             p == Pruned(e, sweep)
  <2>1. /\ current \in Entries /\ e \in Entry /\ e.attempts \in Histories
        /\ Kept(e, sweep) = p
    BY <1>1, <1>4 DEF LimiterInv, TypeOK, Entry, Histories, Kept
  <2>2. /\ p \in Entry /\ p.attempts = Within(e.attempts, sweep)
        /\ \A t \in Times : p.attempts[t] <= e.attempts[t]
        /\ p.attempts \in Histories
    BY <1>2, <1>4, <2>1, Keeping, Forgetting
  <2> HIDE DEF p
  <2>3. /\ entry' \in [Entries -> Entry] /\ entry'[current] = p
        /\ \A d \in Entries : d # current => entry'[d] = entry[d]
    BY <1>1, <1>4, <2>1, <2>2 DEF p
  <2>4. Past(p)
    BY <1>1, <2>1, <2>2 DEF LimiterInv, TypeOK, Past, Histories
  <2>5. TypeOK'
    <3>1. \A d \in Entries, t \in Times : t > now' => entry'[d].attempts[t] = 0
      BY <1>1, <2>3, <2>4 DEF LimiterInv, TypeOK, Past
    <3> QED
      BY <1>1, <1>4, <2>3, <3>1 DEF LimiterInv, TypeOK
  <2>6. EntryLimit'
    <3>1. /\ Total(p.attempts) <= Total(e.attempts) /\ Total(e.attempts) <= Limit
          /\ Total(p.attempts) \in Nat /\ Total(e.attempts) \in Nat
      BY <2>1, <2>2, FewerAttempts, StackFinite DEF LimiterInv, EntryLimit
    <3>2. Total(p.attempts) <= Limit
      BY <3>1, Clock
    <3> QED
      BY <2>3, <3>2 DEF LimiterInv, EntryLimit
  <2>7. Sliding'
    <3>1. ASSUME NEW t \in Times
          PROVE  Within(e.attempts, now)[t] = Within(p.attempts, now)[t]
      <4>1. p.attempts[t] = IF sweep < t + Window THEN e.attempts[t] ELSE 0
        BY <1>2, <2>1, <2>2, Forgetting
      <4>2. Within(e.attempts, now)[t] = IF now < t + Window THEN e.attempts[t] ELSE 0
        BY <1>2, <2>1, Forgetting
      <4>3. Within(p.attempts, now)[t] = IF now < t + Window THEN p.attempts[t] ELSE 0
        BY <1>2, <2>2, Forgetting
      <4> QED
        BY <1>2, <4>1, <4>2, <4>3, Clock
    <3>2. /\ Within(e.attempts, now) \in Histories
          /\ Within(p.attempts, now) \in Histories
      BY <1>2, <2>1, <2>2, Forgetting
    <3>3. Within(e.attempts, now) = Within(p.attempts, now)
      BY <3>1, <3>2 DEF Histories
    <3> QED
      BY <1>1, <1>4, <2>3, <3>3 DEF LimiterInv, Sliding
  <2> QED
    BY <1>1, <1>4, <2>5, <2>6, <2>7 DEF LimiterInv, Recent, Forgotten, Seam
<1>5. CASE UNCHANGED <<entry, current>>
  <2>1. TypeOK' /\ EntryLimit'
    BY <1>1, <1>5 DEF LimiterInv, TypeOK, EntryLimit
  <2> QED
    BY <1>1, <1>5, <2>1, SameWindow DEF LimiterInv
<1> QED
  BY <1>1, <1>3, <1>4, <1>5 DEF Cleanup

LEMMA StatusInv ==
  ASSUME LimiterInv, StatusLookUp \/ StatusRead
  PROVE  LimiterInv'
<1>1. CASE StatusLookUp
  <2>1. TypeOK' /\ EntryLimit'
    BY <1>1 DEF LimiterInv, TypeOK, EntryLimit, StatusLookUp
  <2> QED
    BY <1>1, <2>1, SameWindow DEF LimiterInv, StatusLookUp
<1>2. CASE StatusRead
  <2>1. /\ UNCHANGED <<kind, now, current, req, sweep, admitted>> /\ asked' = None
        /\ entry \in [Entries -> Entry] /\ entry' = Collected(entry)
    BY <1>2 DEF StatusRead, LimiterInv, TypeOK
  <2>2. /\ entry' \in [Entries -> Entry]
        /\ \A e \in Entries : entry'[e] \in {entry[e], NoEntry}
        /\ \A e \in Entries : e = current' => entry'[e] = entry[e]
    BY <2>1, Collecting
  <2>3. NoEntry.attempts = Nothing /\ \A t \in Times : Nothing[t] = 0
    BY DEF NoEntry, Nothing
  <2>4. \A e \in Entries, t \in Times : t > now' => entry'[e].attempts[t] = 0
    BY <2>1, <2>2, <2>3 DEF LimiterInv, TypeOK
  <2>5. TypeOK'
    BY <2>1, <2>2, <2>4 DEF LimiterInv, TypeOK
  <2>6. EntryLimit'
    <3> SUFFICES ASSUME NEW e \in Entries PROVE Total(entry'[e].attempts) <= Limit
      BY DEF EntryLimit
    <3>1. Total(NoEntry.attempts) <= Limit
      BY <2>3, NoAttempts, Clock
    <3>2. Total(entry[e].attempts) <= Limit
      BY DEF LimiterInv, EntryLimit
    <3> QED
      BY <2>2, <3>1, <3>2
  <2>7. current # None => entry'[current] = entry[current]
    BY <2>1, <2>2 DEF LimiterInv, TypeOK
  <2> QED
    BY <2>1, <2>5, <2>6, <2>7, SameWindow DEF LimiterInv
<1> QED
  BY <1>1, <1>2

LEMMA NextInv == LimiterInv /\ [Next]_vars => LimiterInv'
<1> SUFFICES ASSUME LimiterInv, [Next]_vars PROVE LimiterInv'
  OBVIOUS
<1>1. ASSUME NEW r \in Requests, RequestStep(r) PROVE LimiterInv'
  BY <1>1, LookUpInv, LookUpNewInv, AdmitInv, RefuseInv DEF RequestStep
<1>2. CASE UNCHANGED vars
  BY <1>2 DEF vars, LimiterInv, TypeOK, EntryLimit, Recent, Forgotten, Sliding, Seam
<1> QED
  BY <1>1, <1>2, TickInv, CleanupTickInv, CleanupInv, StatusInv DEF Next

LEMMA LimiterInvariant == Spec => []LimiterInv
  BY InitInv, NextInv, PTL DEF Spec

-----------------------------------------------------------------------------
(* What the limiters promise *)

\* All variables stay well typed, and no entry has an attempt of the future, although
\* the cleanup acts by a clock that it read before it got the locks.
THEOREM TypeCorrect == Spec => []TypeOK
<1>1. LimiterInv => TypeOK
  BY DEF LimiterInv
<1> QED
  BY <1>1, LimiterInvariant, PTL

\* In any window the sliding limiter admits at most Limit attempts and the fixed one
\* at most twice as many, whatever the cleanup deletes in between; and every entry
\* keeps to the limit, those that were deleted while a request held them included.
THEOREM WithinLimitCorrect == Spec => []WithinLimit
<1>1. LimiterInv => WithinLimit
  <2> SUFFICES ASSUME LimiterInv PROVE WithinLimit
    OBVIOUS
  <2> DEFINE e == entry[current]
  <2>1. admitted \in Histories /\ now \in Nat
    BY Clock DEF LimiterInv, TypeOK, Histories
  <2>2. CASE current = None
    <3>1. Total(admitted) = 0
      BY <2>2, NoAttempts DEF LimiterInv, Forgotten
    <3> QED
      BY <3>1, Clock DEF LimiterInv, EntryLimit, WithinLimit
  <2>3. CASE current # None
    <3>1. /\ e.attempts \in Histories /\ e.reset \in Nat
          /\ Total(e.attempts) <= Limit
      BY <2>3 DEF LimiterInv, TypeOK, EntryLimit, Entry, Histories
    <3>2. CASE kind = "sliding"
      <4>1. admitted = Within(e.attempts, now)
        BY <2>3, <3>2 DEF LimiterInv, Sliding
      <4>2. Total(admitted) <= Total(e.attempts)
        BY <2>1, <3>1, <4>1, Forgetting
      <4>3. Total(admitted) <= Limit
        BY <2>1, <3>1, <4>2, StackFinite, Clock
      <4> QED
        BY <3>2, <4>3 DEF LimiterInv, EntryLimit, WithinLimit
    <3>3. CASE kind = "fixed"
      <4> DEFINE b == Before(admitted, e.reset)
      <4>1. WindowOf(e, admitted, now)
        BY <2>3, <3>3 DEF LimiterInv, Seam
      <4>2. b \in Histories
        BY <2>1 DEF Before, Histories
      <4>3. ASSUME NEW t \in Times PROVE admitted[t] <= b[t] \/ admitted[t] <= e.attempts[t]
        <5>1. CASE t + Window < e.reset
          BY <2>1, <5>1 DEF Before, Histories
        <5>2. CASE ~(t + Window < e.reset)
          <6>1. t + Window >= e.reset
            BY <3>1, <5>2, Clock
          <6> QED
            BY <4>1, <6>1 DEF WindowOf
        <5> QED
          BY <5>1, <5>2
      <4>4. Total(admitted) <= Total(b) + Total(e.attempts)
        BY <2>1, <3>1, <4>2, <4>3, TwoParts
      <4>5. Total(b) <= Limit
        BY <4>1 DEF WindowOf
      <4>6. Total(b) \in Nat /\ Total(e.attempts) \in Nat /\ Total(admitted) \in Nat
        BY <2>1, <3>1, <4>2, StackFinite
      <4>7. Total(admitted) <= 2 * Limit
        BY <3>1, <4>4, <4>5, <4>6, Clock
      <4> QED
        BY <3>3, <4>7 DEF LimiterInv, EntryLimit, WithinLimit
    <3> QED
      BY <3>2, <3>3 DEF LimiterInv, TypeOK
  <2> QED
    BY <2>2, <2>3
<1> QED
  BY <1>1, LimiterInvariant, PTL

\* The status is what the sliding limiter has admitted, when its entry was not deleted
\* between the look-up and the reading of it.
THEOREM StatusTruthfulCorrect == Spec => []StatusTruthful
<1>1. LimiterInv => StatusTruthful
  BY NoAttempts DEF LimiterInv, Forgotten, Sliding, StatusTruthful, Used
<1> QED
  BY <1>1, LimiterInvariant, PTL

\* A set of times has an earliest one.
LEMMA Earliest ==
  ASSUME NEW S, S \subseteq Times, S # {}
  PROVE  \E t \in S : \A u \in S : t <= u
<1> DEFINE Upto(t) == {u \in Times : u <= t}
           T == {Upto(t) : t \in S}
           R == StrictSubsetOrdering(Times)
<1>1. T \subseteq FiniteSubsetsOf(Times)
  BY Clock, FS_FiniteSubsetsOfFinite
<1>2. IsWellFoundedOn(R, FiniteSubsetsOf(Times))
  BY FS_StrictSubsetOrderingWellFounded
<1>3. T # {}
  OBVIOUS
<1>4. PICK x \in T : \A y \in T : ~(<<y, x>> \in R)
  BY <1>1, <1>2, <1>3, WFMin
<1>5. PICK t \in S : x = Upto(t)
  OBVIOUS
<1>6. ASSUME NEW u \in S, ~(t <= u) PROVE FALSE
  <2>1. /\ t \in Nat /\ u \in Nat /\ t \in Times /\ u \in Times
    BY Clock
  <2>2. \A v \in Times : v \in Nat
    BY Clock
  <2>3. Upto(u) \subseteq Upto(t) /\ Upto(u) # Upto(t)
    <3>1. \A v \in Times : v <= u => v <= t
      BY <1>6, <2>1, <2>2
    <3>2. t \in Upto(t) /\ t \notin Upto(u)
      BY <1>6, <2>1
    <3> QED
      BY <3>1, <3>2
  <2>4. <<Upto(u), Upto(t)>> \in R
    BY <2>3 DEF StrictSubsetOrdering
  <2> QED
    BY <1>4, <1>5, <2>4
<1> QED
  BY <1>6

\* Dropping the fraction of a second.
LEMMA Truncation ==
  ASSUME NEW x \in Nat
  PROVE  Whole(x) \in Nat /\ Whole(x) <= x /\ x < Whole(x) + Second
BY Clock DEF Whole

LEMMA SomeAttempt ==
  ASSUME NEW f \in Histories, Total(f) > 0
  PROVE  {t \in Times : f[t] > 0} # {}
<1>1. f # Nothing
  BY NoAttempts
<1> QED
  BY <1>1 DEF Histories, Nothing

\* When the oldest attempt of a full entry leaves the window, and what is kept before
\* and after.
LEMMA FirstToLeave ==
  ASSUME NEW k \in Entry, Full(k), kind = "sliding", Total(k.attempts) <= Limit,
         now \in Times, \A t \in Times : k.attempts[t] > 0 => InWindow(t, now)
  PROVE  /\ NextAllowed(k) \in Nat /\ now < NextAllowed(k)
         /\ \A u \in Nat : u < NextAllowed(k) => Full(Kept(k, u))
         /\ \A u \in Nat : u >= NextAllowed(k) => ~Full(Kept(k, u))
<1> DEFINE f == k.attempts
           First(t) == f[t] > 0 /\ \A u \in Times : f[u] > 0 => t <= u
           first == CHOOSE t \in Times : First(t)
<1>1. f \in Histories /\ Total(f) >= Limit /\ now \in Nat /\ \A t \in Times : t \in Nat
  BY Clock DEF Entry, Histories, Full
<1>2. {t \in Times : f[t] > 0} # {}
  <2>1. Total(f) > 0
    BY <1>1, StackFinite, Clock
  <2> QED
    BY <1>1, <2>1, SomeAttempt
<1>3. \E t \in Times : First(t)
  BY <1>2, Earliest
<1>4. first \in Times /\ First(first)
  BY <1>3
<1>5. NextAllowed(k) = first + Window
  BY Zenon DEF NextAllowed
<1> HIDE DEF first
<1>6. first + Window \in Nat /\ now < first + Window
  BY <1>1, <1>4, Clock DEF InWindow
<1>7. ASSUME NEW u \in Nat, u < first + Window PROVE Full(Kept(k, u))
  <2>1. \A t \in Times : Within(f, u)[t] = f[t]
    <3> SUFFICES ASSUME NEW t \in Times PROVE Within(f, u)[t] = f[t]
      OBVIOUS
    <3>1. Within(f, u)[t] = IF u < t + Window THEN f[t] ELSE 0
      BY <1>1, Forgetting
    <3>2. CASE f[t] > 0
      <4>1. first <= t
        BY <1>4, <3>2
      <4>2. u < t + Window
        BY <1>1, <1>4, <1>7, <4>1, Clock
      <4> QED
        BY <3>1, <4>2
    <3>3. CASE ~(f[t] > 0)
      BY <1>1, <3>1, <3>3 DEF Histories
    <3> QED
      BY <3>2, <3>3
  <2>2. Within(f, u) = f
    BY <1>1, <2>1, Forgetting DEF Histories
  <2>3. Kept(k, u).attempts = f
    BY <2>2, Keeping
  <2> QED
    BY <1>1, <2>3 DEF Full
<1>8. ASSUME NEW u \in Nat, u >= first + Window PROVE ~Full(Kept(k, u))
  <2> DEFINE g == Within(f, u)
  <2>1. /\ g \in Histories
        /\ \A t \in Times : g[t] <= f[t]
        /\ g[first] = IF u < first + Window THEN f[first] ELSE 0
    BY <1>1, <1>4, Forgetting
  <2>2. g[first] < f[first]
    BY <1>4, <1>6, <1>8, <2>1
  <2> HIDE DEF g
  <2>3. Total(g) < Total(f)
    BY <1>1, <1>4, <2>1, <2>2, FewerAttempts
  <2>4. ~(Total(g) >= Limit)
    BY <1>1, <2>1, <2>3, StackFinite, Clock
  <2>5. Kept(k, u).attempts = g
    BY Keeping DEF g
  <2> QED
    BY <2>4, <2>5 DEF Full
<1> QED
  BY <1>5, <1>6, <1>7, <1>8

\* The times that a refused request is told to come back at are never later than needed
\* and less than a second too early.
THEOREM RetryWorksCorrect == Spec => []RetryWorks
<1>1. LimiterInv => RetryWorks
  <2> SUFFICES ASSUME LimiterInv, kind = "sliding", NEW e \in Entries,
                      Full(Kept(entry[e], now)), NEW t \in Told(Kept(entry[e], now))
               PROVE  /\ \A u \in now .. MaxTime : u < t => Full(Kept(Kept(entry[e], now), u))
                      /\ ~Full(Kept(Kept(entry[e], now), t + Second))
    BY DEF RetryWorks
  <2> DEFINE k == Kept(entry[e], now)
             next == NextAllowed(k)
  <2>1. /\ k \in Entry /\ Total(k.attempts) <= Limit
        /\ now \in Times /\ now \in Nat
        /\ entry[e] \in Entry /\ entry[e].attempts \in Histories
    BY KeptEntry, Clock DEF LimiterInv, TypeOK, Entry, Histories
  <2>2. \A s \in Times : k.attempts[s] > 0 => InWindow(s, now)
    <3>1. k.attempts = Within(entry[e].attempts, now)
      BY <2>1, Keeping
    <3> QED
      BY <2>1, <3>1, Forgetting DEF InWindow
  <2> HIDE DEF k
  <2>3. /\ next \in Nat /\ now < next
        /\ \A u \in Nat : u < next => Full(Kept(k, u))
        /\ \A u \in Nat : u >= next => ~Full(Kept(k, u))
    BY <2>1, <2>2, FirstToLeave DEF k
  <2>4. t \in {Whole(next), now + Whole(next - now)}
    BY DEF Told, k
  <2> HIDE DEF next
  <2>5. t \in Nat /\ t <= next /\ next < t + Second
    <3>1. next - now \in Nat
      BY <2>1, <2>3
    <3>2. CASE t = Whole(next)
      BY <2>3, <3>2, Truncation
    <3>3. CASE t = now + Whole(next - now)
      <4>1. /\ Whole(next - now) \in Nat /\ Whole(next - now) <= next - now
            /\ next - now < Whole(next - now) + Second
        BY <3>1, Truncation
      <4> QED
        BY <2>1, <2>3, <3>3, <4>1, Clock
    <3> QED
      BY <2>4, <3>2, <3>3
  <2>6. ASSUME NEW u \in now .. MaxTime, u < t PROVE Full(Kept(k, u))
    <3>1. u \in Nat /\ u < next
      BY <2>1, <2>3, <2>5, <2>6, TimeAssumption
    <3> QED
      BY <2>3, <3>1
  <2>7. ~Full(Kept(k, t + Second))
    <3>1. t + Second \in Nat /\ t + Second >= next
      BY <2>3, <2>5, Clock
    <3> QED
      BY <2>3, <3>1
  <2> QED
    BY <2>6, <2>7 DEF k
<1> QED
  BY <1>1, LimiterInvariant, PTL
=============================================================================
