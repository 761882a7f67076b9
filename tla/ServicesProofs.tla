---------------------------- MODULE ServicesProofs ----------------------------
(***************************************************************************)
(* Theorems about the services of MCServices that keep no state in common: *)
(* UsageBudget and Storefront, with the sums they rest on,                 *)
(* GoogleConnections, GithubPublications, WebsiteStudio and the page of    *)
(* AssistantWorkspace, each for all its requests, keys, limits and         *)
(* projects.                                                               *)
(***************************************************************************)
EXTENDS WebsiteStudio, GithubPublications, GoogleConnections, UsageBudget, Storefront,
        AssistantWorkspace, Functions, FiniteSetTheorems, WellFoundedInduction, TLAPS

-----------------------------------------------------------------------------
(* Sums over finite sets *)

\* Induction over the natural numbers, for a set of them: no least number is left out.
LEMMA AllNumbers ==
  ASSUME NEW N, 0 \in N, \A n \in Nat : n \in N => n + 1 \in N
  PROVE  Nat \subseteq N
<1> DEFINE Others == Nat \ N
<1> SUFFICES ASSUME Others # {} PROVE FALSE
  OBVIOUS
<1>1. PICK n \in Others : \A m \in Others : ~ (<<m, n>> \in OpToRel(<, Nat))
  <2>1. IsWellFoundedOn(OpToRel(<, Nat), Nat)
    BY NatLessThanWellFounded
  <2>2. Others \subseteq Nat
    OBVIOUS
  <2> HIDE DEF Others
  <2> QED
    BY <2>1, <2>2, WFMin
<1>2. n \in Nat /\ n # 0
  OBVIOUS
<1>3. n - 1 \in Nat /\ n - 1 < n /\ (n - 1) + 1 = n
  BY <1>2
<1>4. n - 1 \notin N
  BY <1>3
  
<1>5. <<n - 1, n>> \in OpToRel(<, Nat)
  BY <1>2, <1>3 DEF OpToRel
<1>6. n - 1 \in Others
  BY <1>3, <1>4
<1> QED
  BY <1>1, <1>5, <1>6

Choice(s) == CHOOSE x \in s : TRUE

Adds(w, g, s) == IF s = {} THEN 0 ELSE w[Choice(s)] + g[s \ {Choice(s)}]

IsSum(w, g, S) == g = [s \in SUBSET S |-> Adds(w, g, s)]

Weights(w, S) == \A x \in S : w[x] \in Nat

LEMMA SumUnfolds ==
  ASSUME NEW w, NEW S
  PROVE  SumFunctionOnSet(w, S) = (CHOOSE g : IsSum(w, g, S))[S]
  BY DEF SumFunctionOnSet, FoldFunctionOnSet, MapThenFoldSet, IsSum, Adds, Choice

LEMMA Chosen == ASSUME NEW s, s # {} PROVE Choice(s) \in s
  BY DEF Choice

\* Sizes of the sets that a sum is taken over.
LEMMA SizeLess ==
  ASSUME NEW S, IsFiniteSet(S), NEW s \in SUBSET S
  PROVE  /\ Cardinality(s) \in Nat
         /\ Cardinality(s) = 0 <=> s = {}
         /\ \A x \in s : s \ {x} \in SUBSET S /\ Cardinality(s) = Cardinality(s \ {x}) + 1
<1>1. IsFiniteSet(s)
  BY FS_Subset
<1>2. Cardinality(s) \in Nat /\ (Cardinality(s) = 0 <=> s = {})
  BY <1>1, FS_CardinalityType, FS_EmptySet
<1>3. ASSUME NEW x \in s PROVE Cardinality(s) = Cardinality(s \ {x}) + 1
  <2>1. Cardinality(s \ {x}) = Cardinality(s) - 1
    BY <1>1, FS_RemoveElement
  <2> QED
    BY <1>2, <2>1
<1> QED
  BY <1>2, <1>3

LEMMA SumExists ==
  ASSUME NEW S, IsFiniteSet(S), NEW w
  PROVE  \E g : IsSum(w, g, S)
<1> DEFINE SumsUpTo(g, n) == \A s \in SUBSET S : Cardinality(s) <= n => g[s] = Adds(w, g, s)
           N == {n \in Nat : \E g : SumsUpTo(g, n)}
<1>1. 0 \in N
  <2>1. SumsUpTo([s \in SUBSET S |-> 0], 0)
    BY SizeLess DEF Adds
  <2> QED
    BY <2>1
<1>2. ASSUME NEW n \in Nat, n \in N PROVE n + 1 \in N
  <2>1. PICK g : SumsUpTo(g, n)
    BY <1>2
  <2> DEFINE h == [s \in SUBSET S |-> IF Cardinality(s) = n + 1 THEN Adds(w, g, s) ELSE g[s]]
  <2>2. ASSUME NEW s \in SUBSET S, Cardinality(s) <= n + 1 PROVE h[s] = Adds(w, h, s)
    <3>1. CASE s = {}
      <4>1. Cardinality(s) = 0
        BY <3>1, SizeLess
      <4>2. Adds(w, h, s) = 0 /\ Adds(w, g, s) = 0
        BY <3>1 DEF Adds
      <4>3. g[s] = Adds(w, g, s)
        BY <2>1, <4>1
      <4> QED
        BY <4>2, <4>3
    <3>2. CASE s # {}
      <4> DEFINE t == s \ {Choice(s)}
      <4>1. t \in SUBSET S /\ Cardinality(s) = Cardinality(t) + 1 /\ Cardinality(t) \in Nat /\ Cardinality(s) \in Nat
        BY <3>2, SizeLess, Chosen
      <4>2. Adds(w, h, s) = Adds(w, g, s)
        <5>1. Cardinality(t) # n + 1
          <6> HIDE DEF t
          <6> QED
            BY <2>2, <4>1
        <5>2. h[t] = g[t]
          BY <4>1, <5>1
        <5> QED
          BY <3>2, <5>2 DEF Adds
      <4>3. h[s] = Adds(w, g, s)
        <5>1. CASE Cardinality(s) = n + 1
          BY <5>1
        <5>2. CASE Cardinality(s) <= n
          BY <2>1, <5>2
        <5> HIDE DEF h
        <5> QED
          BY <2>2, <4>1, <5>1, <5>2
      <4> HIDE DEF h
      <4> QED
        BY <4>2, <4>3
    <3> QED
      BY <3>1, <3>2
  <2>3. \E f : \A s \in SUBSET S : Cardinality(s) <= n + 1 => f[s] = Adds(w, f, s)
    <3> HIDE DEF h
    <3> QED
      BY <2>2
  <2> QED
    BY <2>3
<1> HIDE DEF N
<1>3. Cardinality(S) \in N
  BY <1>1, <1>2, AllNumbers, SizeLess
<1>4. PICK g : SumsUpTo(g, Cardinality(S))
  BY <1>3 DEF N
<1>5. \A s \in SUBSET S : Cardinality(s) <= Cardinality(S)
  BY FS_Subset
<1> DEFINE h == [s \in SUBSET S |-> g[s]]
<1>6. ASSUME NEW s \in SUBSET S PROVE h[s] = Adds(w, h, s)
  <2>1. g[s] = Adds(w, g, s)
    BY <1>4, <1>5
  <2>2. s # {} => s \ {Choice(s)} \in SUBSET S
    OBVIOUS
  <2> QED
    BY <2>1, <2>2 DEF Adds
<1>7. IsSum(w, h, S)
  <2>1. h = [s \in SUBSET S |-> Adds(w, h, s)]
    BY <1>6
  <2> QED
    BY <2>1 DEF IsSum
<1> QED
  BY <1>7

-----------------------------------------------------------------------------
(* What a sum does not depend on, and what it adds up *)

LEMMA SumsAgree ==
  ASSUME NEW S, IsFiniteSet(S), NEW T, IsFiniteSet(T), NEW w, NEW v, NEW g, NEW h,
         IsSum(w, g, S), IsSum(v, h, T),
         NEW s \in SUBSET S, s \in SUBSET T, \A x \in s : w[x] = v[x]
  PROVE  g[s] = h[s]
<1> DEFINE N == {n \in Nat : \A u \in SUBSET s : Cardinality(u) = n => g[u] = h[u]}
<1>1. \A u \in SUBSET s : u \in SUBSET S /\ u \in SUBSET T
  OBVIOUS
<1>2. \A u \in SUBSET s : g[u] = Adds(w, g, u) /\ h[u] = Adds(v, h, u)
  BY <1>1 DEF IsSum
<1>3. 0 \in N
  <2>1. \A u \in SUBSET s : Cardinality(u) = 0 => u = {}
    BY SizeLess
  <2> QED
    BY <1>2, <2>1 DEF Adds
<1>4. ASSUME NEW n \in Nat, n \in N PROVE n + 1 \in N
  <2>1. ASSUME NEW u \in SUBSET s, Cardinality(u) = n + 1 PROVE g[u] = h[u]
    <3>1. u # {}
      BY <2>1, SizeLess
    <3> DEFINE c == Choice(u)
    <3>2. c \in u
      BY <3>1, Chosen
    <3> HIDE DEF c
    <3>3. Cardinality(u) = Cardinality(u \ {c}) + 1 /\ Cardinality(u \ {c}) \in Nat
      BY <3>2, SizeLess
    <3>4. Cardinality(u \ {c}) = n
      BY <2>1, <3>3
    <3>5. g[u \ {c}] = h[u \ {c}]
      BY <1>4, <3>4
    <3>6. w[c] = v[c]
      BY <3>2
    <3> QED
      BY <1>2, <3>1, <3>5, <3>6 DEF Adds, c
  <2> QED
    BY <2>1
<1> HIDE DEF N
<1>5. Cardinality(s) \in N
  BY <1>3, <1>4, AllNumbers, SizeLess
<1> QED
  BY <1>5 DEF N

LEMMA SumsAreNumbers ==
  ASSUME NEW S, IsFiniteSet(S), NEW w, Weights(w, S), NEW g, IsSum(w, g, S)
  PROVE  g[{}] = 0 /\ \A s \in SUBSET S : g[s] \in Nat
<1>1. \A s \in SUBSET S : g[s] = Adds(w, g, s)
  BY DEF IsSum
<1>2. g[{}] = 0
  BY <1>1 DEF Adds
<1> DEFINE N == {n \in Nat : \A s \in SUBSET S : Cardinality(s) = n => g[s] \in Nat}
<1>3. 0 \in N
  <2>1. \A s \in SUBSET S : Cardinality(s) = 0 => s = {}
    BY SizeLess
  <2> QED
    BY <1>2, <2>1
<1>4. ASSUME NEW n \in Nat, n \in N PROVE n + 1 \in N
  <2>1. ASSUME NEW s \in SUBSET S, Cardinality(s) = n + 1 PROVE g[s] \in Nat
    <3>1. s # {}
      BY <2>1, SizeLess
    <3>2. PICK c \in s : g[s] = w[c] + g[s \ {c}]
      BY <1>1, <3>1, Chosen DEF Adds
    <3>3. s \ {c} \in SUBSET S /\ Cardinality(s) = Cardinality(s \ {c}) + 1 /\ Cardinality(s \ {c}) \in Nat
      BY SizeLess
    <3>4. g[s \ {c}] \in Nat
      BY <1>4, <2>1, <3>3
    <3>5. w[c] \in Nat
      BY DEF Weights
    <3> QED
      BY <3>2, <3>4, <3>5
  <2> QED
    BY <2>1
<1> HIDE DEF N
<1>5. ASSUME NEW s \in SUBSET S PROVE g[s] \in Nat
  <2>1. Cardinality(s) \in N
    BY <1>3, <1>4, AllNumbers, SizeLess
  <2> QED
    BY <2>1 DEF N
<1> QED
  BY <1>2, <1>5

\* It does not matter which element is taken out first.
LEMMA SumAdds ==
  ASSUME NEW S, IsFiniteSet(S), NEW w, Weights(w, S), NEW g, IsSum(w, g, S)
  PROVE  \A s \in SUBSET S : \A x \in s : g[s] = w[x] + g[s \ {x}]
<1>1. \A s \in SUBSET S : g[s] = Adds(w, g, s) /\ g[s] \in Nat
  BY SumsAreNumbers DEF IsSum
<1> DEFINE Right(s) == \A x \in s : g[s] = w[x] + g[s \ {x}]
           N == {n \in Nat : \A s \in SUBSET S : Cardinality(s) = n => Right(s)}
<1>2. 0 \in N
  <2>1. ASSUME NEW s \in SUBSET S, Cardinality(s) = 0 PROVE Right(s)
    BY <2>1, SizeLess
  <2> QED
    BY <2>1
<1>3. ASSUME NEW n \in Nat, n \in N PROVE n + 1 \in N
  <2>1. ASSUME NEW s \in SUBSET S, Cardinality(s) = n + 1 PROVE Right(s)
    <3>1. s # {}
      BY <2>1, SizeLess
    <3>2. PICK c \in s : g[s] = w[c] + g[s \ {c}]
      BY <1>1, <3>1, Chosen DEF Adds
    <3>3. ASSUME NEW x \in s PROVE Right(s \ {x})
      <4>1. s \ {x} \in SUBSET S /\ Cardinality(s) = Cardinality(s \ {x}) + 1 /\ Cardinality(s \ {x}) \in Nat
        BY SizeLess
      <4>2. Cardinality(s \ {x}) = n
        BY <2>1, <4>1
      <4> HIDE DEF Right
      <4> QED
        BY <1>3, <4>1, <4>2
    <3>4. ASSUME NEW x \in s, x # c PROVE g[s] = w[x] + g[s \ {x}]
      <4>1. x \in s \ {c} /\ c \in s \ {x}
        BY <3>4
      <4>2. g[s \ {c}] = w[x] + g[(s \ {c}) \ {x}]
        BY <3>3, <4>1
      <4>3. g[s \ {x}] = w[c] + g[(s \ {c}) \ {x}]
        <5>1. (s \ {c}) \ {x} = (s \ {x}) \ {c}
          OBVIOUS
        <5> QED
          BY <3>3, <4>1, <5>1
      <4>4. g[(s \ {c}) \ {x}] \in Nat /\ w[x] \in Nat /\ w[c] \in Nat
        BY <1>1 DEF Weights
      <4> QED
        BY <3>2, <4>2, <4>3, <4>4
    <3> QED
      BY <3>2, <3>4
  <2> QED
    BY <2>1
<1> HIDE DEF N
<1>4. ASSUME NEW s \in SUBSET S PROVE Right(s)
  <2>1. Cardinality(s) \in N
    BY <1>2, <1>3, AllNumbers, SizeLess
  <2> QED
    BY <2>1 DEF N
<1> QED
  BY <1>4
-----------------------------------------------------------------------------
(* SumFunctionOnSet *)

LEMMA SumOfAll ==
  ASSUME NEW S, IsFiniteSet(S), NEW w
  PROVE  \E g : IsSum(w, g, S) /\ \A T \in SUBSET S : SumFunctionOnSet(w, T) = g[T]
<1>1. PICK g : IsSum(w, g, S)
  BY SumExists
<1>2. ASSUME NEW T \in SUBSET S PROVE SumFunctionOnSet(w, T) = g[T]
  <2>1. IsFiniteSet(T)
    BY FS_Subset
  <2>2. PICK h : IsSum(w, h, T) /\ SumFunctionOnSet(w, T) = h[T]
    <3>1. \E h : IsSum(w, h, T)
      BY <2>1, SumExists
    <3> QED
      BY <3>1, SumUnfolds
  <2>3. h[T] = g[T]
    BY <1>1, <2>1, <2>2, SumsAgree
  <2> QED
    BY <2>2, <2>3
<1> QED
  BY <1>1, <1>2

LEMMA SumIsNumber ==
  ASSUME NEW S, IsFiniteSet(S), NEW w, Weights(w, S)
  PROVE  SumFunctionOnSet(w, S) \in Nat
<1>1. PICK g : IsSum(w, g, S) /\ \A T \in SUBSET S : SumFunctionOnSet(w, T) = g[T]
  BY SumOfAll
<1> QED
  BY <1>1, SumsAreNumbers

LEMMA SumTakes ==
  ASSUME NEW S, IsFiniteSet(S), NEW w, Weights(w, S), NEW x \in S
  PROVE  SumFunctionOnSet(w, S) = w[x] + SumFunctionOnSet(w, S \ {x})
<1>1. PICK g : IsSum(w, g, S) /\ \A T \in SUBSET S : SumFunctionOnSet(w, T) = g[T]
  BY SumOfAll
<1>2. g[S] = w[x] + g[S \ {x}]
  BY <1>1, SumAdds
<1> QED
  BY <1>1, <1>2

LEMMA SumOfNone == ASSUME NEW w PROVE SumFunctionOnSet(w, {}) = 0
<1>1. IsFiniteSet({})
  BY FS_EmptySet
<1>2. PICK g : IsSum(w, g, {}) /\ \A T \in SUBSET {} : SumFunctionOnSet(w, T) = g[T]
  BY <1>1, SumOfAll
<1>3. Weights(w, {})
  BY DEF Weights
<1> QED
  BY <1>1, <1>2, <1>3, SumsAreNumbers

LEMMA SumSame ==
  ASSUME NEW S, IsFiniteSet(S), NEW w, NEW v, \A x \in S : w[x] = v[x]
  PROVE  SumFunctionOnSet(w, S) = SumFunctionOnSet(v, S)
<1>1. PICK g : IsSum(w, g, S) /\ \A T \in SUBSET S : SumFunctionOnSet(w, T) = g[T]
  BY SumOfAll
<1>2. PICK h : IsSum(v, h, S) /\ \A T \in SUBSET S : SumFunctionOnSet(v, T) = h[T]
  BY SumOfAll
<1>3. g[S] = h[S]
  BY <1>1, <1>2, SumsAgree
<1> QED
  BY <1>1, <1>2, <1>3

\* What x adds to a sum over T.
Share(w, T, x) == IF x \in T THEN w[x] ELSE 0

\* A sum changes by what changes in one place.
LEMMA SumMoves ==
  ASSUME NEW S, IsFiniteSet(S), NEW T, IsFiniteSet(T), NEW w, Weights(w, S), NEW v, Weights(v, T),
         NEW x, S \ {x} = T \ {x}, \A y \in S \ {x} : w[y] = v[y]
  PROVE  /\ SumFunctionOnSet(w, S) \in Nat /\ SumFunctionOnSet(v, T) \in Nat
         /\ Share(w, S, x) \in Nat /\ Share(v, T, x) \in Nat
         /\ SumFunctionOnSet(w, S) + Share(v, T, x) = SumFunctionOnSet(v, T) + Share(w, S, x)
<1> DEFINE rest == SumFunctionOnSet(w, S \ {x})
<1>1. IsFiniteSet(S \ {x}) /\ Weights(w, S \ {x})
  BY FS_RemoveElement DEF Weights
<1>2. rest \in Nat /\ rest = SumFunctionOnSet(v, T \ {x})
  BY <1>1, SumIsNumber, SumSame
<1>3. /\ Share(w, S, x) \in Nat /\ Share(v, T, x) \in Nat
      /\ SumFunctionOnSet(w, S) \in Nat /\ SumFunctionOnSet(v, T) \in Nat
  BY SumIsNumber DEF Share, Weights
<1>4. SumFunctionOnSet(w, S) = Share(w, S, x) + rest
  <2>1. CASE x \in S
    BY <2>1, SumTakes DEF Share
  <2>2. CASE x \notin S
    <3>1. S \ {x} = S
      BY <2>2
    <3>2. Share(w, S, x) = 0 /\ rest = SumFunctionOnSet(w, S)
      BY <2>2, <3>1 DEF Share
    <3> QED
      BY <1>3, <3>2
  <2> QED
    BY <2>1, <2>2
<1>5. SumFunctionOnSet(v, T) = Share(v, T, x) + rest
  <2>1. CASE x \in T
    BY <1>2, <2>1, SumTakes DEF Share
  <2>2. CASE x \notin T
    <3>1. T \ {x} = T
      BY <2>2
    <3>2. Share(v, T, x) = 0 /\ rest = SumFunctionOnSet(v, T)
      BY <1>2, <2>2, <3>1 DEF Share
    <3> QED
      BY <1>3, <3>2
  <2> QED
    BY <2>1, <2>2
<1> HIDE DEF rest
<1> QED
  BY <1>2, <1>3, <1>4, <1>5

-----------------------------------------------------------------------------
(* The inductive invariant of UsageBudget *)

\* The phases of a reservation in progress, which has the lock; one that takes tool calls
\* has it, too.
Counting == {"sumUsage", "sumReserved", "insert"}
Locking == Counting \cup {"meter"}

\* What a request knows of itself, and that it has reserved when it calls the provider.
RequestFits(r) ==
  /\ requests[r].at \in {"idle"} \cup Locking => reservations[r].status = "none"
  /\ requests[r].at \in {"idle"} \cup Counting =>
       requests[r].tries = 0 /\ requests[r].tokens = 0 /\ requests[r].spent = 0
  /\ requests[r].at \in Counting => requests[r].attempts # 0
  /\ requests[r].at = "provider" =>
       /\ requests[r].tries < requests[r].attempts
       /\ requests[r].tokens <= requests[r].tries * AttemptCost
  /\ requests[r].at \in {"provider", "record"} => requests[r].tokens = requests[r].spent
  /\ (requests[r].at = "release" /\ requests[r].outcome = "succeeded") \/ requests[r].at = "answered" =>
       charged[r] = requests[r].spent

\* What the lock keeps true of the sums a request has read.
LockFits(r) ==
  /\ requests[r].at \in Locking => entered = r
  /\ requests[r].at \in Counting => Cardinality(Recent) < Rate[plan]
  /\ requests[r].at = "insert" /\ r \notin Admins =>
       requests[r].read + Held(r) + Most(r) <= Budget[plan]
  /\ requests[r].at = "meter" => requests[r].read = SumFunctionOnSet(units, Requests)

UsageInv ==
  /\ UsageTypeOK
  /\ \A r \in Requests : RequestFits(r)
  /\ \A r \in Requests : LockFits(r)

LEMMA InitUsageInv == UsageInit => UsageInv
<1> SUFFICES ASSUME UsageInit PROVE UsageInv
  OBVIOUS
<1> USE DEF UsageInit
<1>1. MaxAttempts \in Nat /\ AttemptCost \in Nat /\ MaxCost \in Nat
  BY UsageAssumption DEF MaxCost
<1>2. NewRequest \in Request
  BY <1>1 DEF NewRequest, Request
<1>3. NewReservation \in Reservation
  BY <1>1 DEF NewReservation, Reservation, Ages
<1>4. UsageTypeOK
  <2>1. charged \in [Requests -> 0 .. MaxCost] /\ units \in [Requests -> 0 .. 1]
    BY <1>1
  <2> QED
    BY <1>2, <1>3, <2>1 DEF UsageTypeOK
<1>5. ASSUME NEW r \in Requests PROVE RequestFits(r) /\ LockFits(r)
  BY DEF RequestFits, LockFits, Locking, Counting, NewRequest, NewReservation
<1> QED
  BY <1>4, <1>5 DEF UsageInv

-----------------------------------------------------------------------------
(* The sums of the reservations *)

Maxima(book) == [q \in Requests |-> book[q].maximum]
Holding(book, lapsed) == {q \in Requests \ lapsed : book[q].status = "active"}

LEMMA HeldIs == ASSUME NEW r PROVE Held(r) = SumFunctionOnSet(Maxima(reservations), Holding(reservations, requests[r].lapsed))
  BY DEF Held, Maxima, Holding

LEMMA HoldingIs ==
  ASSUME NEW book \in [Requests -> Reservation], NEW lapsed
  PROVE  IsFiniteSet(Holding(book, lapsed)) /\ Weights(Maxima(book), Holding(book, lapsed))
<1>1. MaxCost \in Nat
  BY UsageAssumption DEF MaxCost
<1>2. Holding(book, lapsed) \in SUBSET Requests
  BY DEF Holding
<1>3. \A q \in Requests : Maxima(book)[q] \in Nat
  BY <1>1 DEF Maxima, Reservation
<1> QED
  BY <1>2, <1>3, FS_Subset, UsageAssumption DEF Weights

LEMMA SumsHold ==
  ASSUME UsageTypeOK
  PROVE  /\ \A r : Held(r) \in Nat
         /\ SumFunctionOnSet(charged, Requests) \in Nat
         /\ SumFunctionOnSet(units, Requests) \in Nat
<1>1. MaxCost \in Nat
  BY UsageAssumption DEF MaxCost
<1>2. Weights(charged, Requests) /\ Weights(units, Requests)
  BY <1>1 DEF Weights, UsageTypeOK
<1>3. ASSUME NEW r PROVE Held(r) \in Nat
  <2>1. SumFunctionOnSet(Maxima(reservations), Holding(reservations, requests[r].lapsed)) \in Nat
    BY HoldingIs, SumIsNumber DEF UsageTypeOK
  <2> QED
    BY <2>1, HeldIs
<1> QED
  BY <1>2, <1>3, SumIsNumber, UsageAssumption

LEMMA RecentIs == Recent \in SUBSET Requests /\ IsFiniteSet(Recent) /\ Cardinality(Recent) \in Nat
  BY UsageAssumption, FS_Subset, FS_CardinalityType DEF Recent

-----------------------------------------------------------------------------
(* A step that only moves one request *)

LEMMA RequestMoves ==
  ASSUME UsageInv, NEW r \in Requests, NEW x \in Request,
         requests' = [requests EXCEPT ![r] = x],
         entered' \in Requests \cup {None},
         UNCHANGED <<plan, reservations, charged, units>>,
         entered' = entered \/ \A q \in Requests \ {r} : requests[q].at \notin Locking,
         RequestFits(r)', LockFits(r)'
  PROVE  UsageInv'
<1>1. UsageTypeOK /\ requests \in [Requests -> Request]
  BY DEF UsageInv, UsageTypeOK
<1>2. UsageTypeOK'
  BY <1>1 DEF UsageTypeOK
<1>3. \A q \in Requests \ {r} : requests'[q] = requests[q]
  BY <1>1
<1>4. Recent' = Recent /\ Maxima(reservations') = Maxima(reservations)
  BY DEF Recent, Maxima
<1>5. ASSUME NEW q \in Requests, q # r PROVE RequestFits(q)' /\ LockFits(q)'
  <2>1. RequestFits(q)'
    BY <1>3, <1>5 DEF UsageInv, RequestFits
  <2>2. LockFits(q) /\ requests'[q] = requests[q]
    BY <1>3, <1>5 DEF UsageInv
  <2>3. Held(q)' = Held(q) /\ Most(q)' = Most(q)
    <3>1. Held(q)' = SumFunctionOnSet(Maxima(reservations'), Holding(reservations', requests[q].lapsed))
      BY <2>2 DEF Held, Maxima, Holding
    <3>2. Holding(reservations', requests[q].lapsed) = Holding(reservations, requests[q].lapsed)
      BY <2>2 DEF Holding
    <3> QED
      BY <1>4, <2>2, <3>1, <3>2, HeldIs DEF Most
  <2>4. entered' = entered \/ requests[q].at \notin Locking
    BY <1>5
  <2>5. CASE requests[q].at \notin Locking
    <3>1. requests'[q].at \notin {"sumUsage", "sumReserved", "insert", "meter"}
      BY <2>2, <2>5 DEF Locking, Counting
    <3> QED
      BY <2>1, <3>1 DEF LockFits, Locking, Counting
  <2>6. CASE entered' = entered
    BY <1>4, <2>1, <2>2, <2>3, <2>6 DEF LockFits
  <2> QED
    BY <2>1, <2>4, <2>5, <2>6
<1> QED
  BY <1>2, <1>5 DEF UsageInv

LEMMA NobodyLocks ==
  ASSUME UsageInv, NEW r \in Requests, entered = None \/ entered = r
  PROVE  \A q \in Requests \ {r} : requests[q].at \notin Locking
  BY UsageAssumption DEF UsageInv, LockFits

-----------------------------------------------------------------------------
(* The steps of a reservation up to its row, and of a tool call *)

LEMMA RequestIs ==
  ASSUME UsageInv, NEW r \in Requests
  PROVE  /\ requests[r] \in Request /\ requests \in [Requests -> Request]
         /\ UsageTypeOK /\ RequestFits(r) /\ LockFits(r)
         /\ entered \in Requests \cup {None}
  BY DEF UsageInv, UsageTypeOK

LEMMA OverIsRequest ==
  [NewRequest EXCEPT !.at = "over"] \in Request /\ [NewRequest EXCEPT !.at = "over"].at = "over"
<1>1. MaxAttempts \in Nat /\ MaxCost \in Nat
  BY UsageAssumption DEF MaxCost
<1> QED
  BY <1>1 DEF NewRequest, Request

\* A request that is over claims nothing.
LEMMA EndsFits ==
  ASSUME UsageInv, NEW r \in Requests, Ends(r),
         entered' \in Requests \cup {None},
         UNCHANGED <<plan, reservations, charged, units>>,
         entered' = entered \/ \A q \in Requests \ {r} : requests[q].at \notin Locking
  PROVE  UsageInv'
<1>1. PICK x : x = [NewRequest EXCEPT !.at = "over"]
  OBVIOUS
<1>2. x \in Request /\ x.at = "over"
  BY <1>1, OverIsRequest
<1>3. requests' = [requests EXCEPT ![r] = x] /\ requests'[r] = x
  BY <1>1, RequestIs DEF Ends
<1>4. RequestFits(r)' /\ LockFits(r)'
  BY <1>2, <1>3 DEF RequestFits, LockFits, Locking, Counting
<1> QED
  BY <1>2, <1>3, <1>4, RequestMoves

LEMMA EnterFits ==
  ASSUME UsageInv, NEW r \in Requests, Enter(r)
  PROVE  UsageInv'
<1>1. /\ requests[r].at = "idle" /\ entered = None
      /\ UNCHANGED <<plan, reservations, charged, units>>
      /\ requests[r] \in Request /\ RequestFits(r)
  BY RequestIs DEF Enter, MayEnter, RowUnchanged
<1>2. \A q \in Requests \ {r} : requests[q].at \notin Locking
  BY <1>1, NobodyLocks
<1>3. CASE Ends(r) /\ entered' = None
  BY <1>1, <1>2, <1>3, EndsFits
<1>4. CASE Cardinality(Recent) < Rate[plan] /\ entered' = r
           /\ \E attempts \in 1 .. MaxAttempts :
                requests' = [requests EXCEPT ![r].at = "sumUsage", ![r].attempts = attempts,
                                             ![r].lapsed = Lapsed]
  <2>1. PICK attempts \in 1 .. MaxAttempts :
               requests' = [requests EXCEPT ![r].at = "sumUsage", ![r].attempts = attempts,
                                            ![r].lapsed = Lapsed]
    BY <1>4
  <2>2. PICK lapsed \in SUBSET Requests : lapsed = Lapsed
    BY DEF Lapsed
  <2>3. PICK x : x = [requests[r] EXCEPT !.at = "sumUsage", !.attempts = attempts, !.lapsed = lapsed]
    OBVIOUS
  <2>4. attempts \in 0 .. MaxAttempts /\ attempts # 0
    BY UsageAssumption
  <2>5. x \in Request /\ x.at = "sumUsage" /\ x.attempts # 0
    BY <1>1, <2>3, <2>4 DEF Request
  <2>6. x.tries = 0 /\ x.tokens = 0 /\ x.spent = 0
    BY <1>1, <2>3 DEF Request, RequestFits
  <2>7. requests' = [requests EXCEPT ![r] = x] /\ requests'[r] = x
    BY <2>1, <2>2, <2>3, RequestIs
  <2>8. RequestFits(r)'
    BY <1>1, <2>5, <2>6, <2>7 DEF RequestFits, Locking, Counting
  <2>9. LockFits(r)'
    BY <1>1, <1>4, <2>5, <2>7 DEF LockFits, Locking, Counting, Recent
  <2> QED
    BY <1>1, <1>2, <1>4, <2>5, <2>7, <2>8, <2>9, RequestMoves
<1> QED
  BY <1>3, <1>4 DEF Enter

LEMMA SumUsageFits ==
  ASSUME UsageInv, NEW r \in Requests, SumUsage(r)
  PROVE  UsageInv'
<1>1. /\ requests[r].at = "sumUsage" /\ entered' = entered /\ entered = r
      /\ UNCHANGED <<plan, reservations, charged, units>>
      /\ requests[r] \in Request /\ RequestFits(r) /\ LockFits(r)
  BY RequestIs DEF SumUsage, RowUnchanged, LockFits, Locking, Counting
<1>2. PICK n \in Nat : n = SumFunctionOnSet(charged, Requests)
  BY SumsHold, RequestIs
<1>3. PICK x : x = [requests[r] EXCEPT !.at = "sumReserved", !.read = n]
  OBVIOUS
<1>4. /\ x \in Request /\ x.at = "sumReserved" /\ x.attempts = requests[r].attempts
      /\ x.tries = requests[r].tries /\ x.tokens = requests[r].tokens /\ x.spent = requests[r].spent
  BY <1>1, <1>3 DEF Request
<1>5. requests' = [requests EXCEPT ![r] = x] /\ requests'[r] = x
  BY <1>2, <1>3, RequestIs DEF SumUsage
<1>6. RequestFits(r)'
  BY <1>1, <1>4, <1>5 DEF RequestFits, Locking, Counting
<1>7. LockFits(r)'
  BY <1>1, <1>4, <1>5 DEF LockFits, Locking, Counting, Recent
<1> QED
  BY <1>1, <1>4, <1>5, <1>6, <1>7, RequestMoves

LEMMA SumReservedFits ==
  ASSUME UsageInv, NEW r \in Requests, SumReserved(r)
  PROVE  UsageInv'
<1>1. /\ requests[r].at = "sumReserved" /\ entered = r
      /\ UNCHANGED <<plan, reservations, charged, units>>
      /\ requests[r] \in Request /\ RequestFits(r) /\ LockFits(r)
  BY RequestIs DEF SumReserved, RowUnchanged, LockFits, Locking, Counting
<1>2. \A q \in Requests \ {r} : requests[q].at \notin Locking
  BY <1>1, NobodyLocks
<1>3. CASE Ends(r) /\ entered' = None
  BY <1>1, <1>2, <1>3, EndsFits
<1>4. CASE /\ r \in Admins \/ requests[r].read + Held(r) + Most(r) <= Budget[plan]
           /\ entered' = entered /\ Goes(r, "insert")
  <2>1. PICK x : x = [requests[r] EXCEPT !.at = "insert"]
    OBVIOUS
  <2>2. /\ x \in Request /\ x.at = "insert" /\ x.attempts = requests[r].attempts
        /\ x.tries = requests[r].tries /\ x.tokens = requests[r].tokens /\ x.spent = requests[r].spent
        /\ x.read = requests[r].read /\ x.lapsed = requests[r].lapsed
    BY <1>1, <2>1 DEF Request
  <2>3. requests' = [requests EXCEPT ![r] = x] /\ requests'[r] = x
    BY <1>4, <2>1, RequestIs DEF Goes
  <2>4. RequestFits(r)'
    BY <1>1, <2>2, <2>3 DEF RequestFits, Locking, Counting
  <2>5. Held(r)' = Held(r) /\ Most(r)' = Most(r)
    <3>1. Held(r)' = SumFunctionOnSet(Maxima(reservations'), Holding(reservations', requests[r].lapsed))
      BY <2>2, <2>3 DEF Held, Maxima, Holding
    <3>2. Holding(reservations', requests[r].lapsed) = Holding(reservations, requests[r].lapsed) /\ Maxima(reservations') = Maxima(reservations)
      BY <1>1, <2>2, <2>3 DEF Holding, Maxima
    <3> QED
      BY <2>2, <2>3, <3>1, <3>2, HeldIs DEF Most
  <2>6. LockFits(r)'
    BY <1>1, <1>4, <2>2, <2>3, <2>5 DEF LockFits, Locking, Counting, Recent
  <2> QED
    BY <1>1, <1>4, <2>2, <2>3, <2>4, <2>6, RequestMoves
<1> QED
  BY <1>3, <1>4 DEF SumReserved

LEMMA EnterMeterFits ==
  ASSUME UsageInv, NEW r \in Requests, EnterMeter(r)
  PROVE  UsageInv'
<1>1. /\ requests[r].at = "idle" /\ entered = None /\ entered' = r
      /\ UNCHANGED <<plan, reservations, charged, units>>
      /\ requests[r] \in Request /\ RequestFits(r)
  BY RequestIs DEF EnterMeter, MayEnter, RowUnchanged
<1>2. \A q \in Requests \ {r} : requests[q].at \notin Locking
  BY <1>1, NobodyLocks
<1>3. PICK n \in Nat : n = SumFunctionOnSet(units, Requests)
  BY SumsHold, RequestIs
<1>4. PICK x : x = [requests[r] EXCEPT !.at = "meter", !.read = n]
  OBVIOUS
<1>5. x \in Request /\ x.at = "meter" /\ x.read = n
  BY <1>1, <1>4 DEF Request
<1>6. requests' = [requests EXCEPT ![r] = x] /\ requests'[r] = x
  BY <1>3, <1>4, RequestIs DEF EnterMeter
<1>7. RequestFits(r)'
  BY <1>1, <1>5, <1>6 DEF RequestFits, Locking, Counting
<1>8. LockFits(r)'
  BY <1>1, <1>3, <1>5, <1>6 DEF LockFits, Locking, Counting
<1> QED
  BY <1>1, <1>2, <1>5, <1>6, <1>7, <1>8, RequestMoves

LEMMA DieFits ==
  ASSUME UsageInv, NEW r \in Requests, Die(r)
  PROVE  UsageInv'
  BY EndsFits, RequestIs DEF Die, RowUnchanged

-----------------------------------------------------------------------------
(* A call of the provider *)

LEMMA OneMoreCall ==
  ASSUME NEW tries \in Nat, NEW attempts \in 0 .. MaxAttempts, tries < attempts,
         NEW tokens \in Nat, tokens <= tries * AttemptCost, NEW cost \in {0, AttemptCost}
  PROVE  /\ tries + 1 \in 0 .. MaxAttempts
         /\ tokens + cost \in 0 .. MaxCost
         /\ tokens + cost <= (tries + 1) * AttemptCost
<1>1. MaxAttempts \in Nat /\ AttemptCost \in Nat /\ cost \in Nat /\ cost <= AttemptCost
  BY UsageAssumption
<1>2. (tries + 1) * AttemptCost = tries * AttemptCost + AttemptCost /\ tries * AttemptCost \in Nat
  BY <1>1
<1>3. PICK rest \in Nat : MaxAttempts = (tries + 1) + rest
  <2>1. MaxAttempts - (tries + 1) \in Nat
    BY <1>1
  <2>2. MaxAttempts = (tries + 1) + (MaxAttempts - (tries + 1))
    BY <1>1
  <2> QED
    BY <2>1, <2>2
<1>4. MaxAttempts * AttemptCost = (tries + 1) * AttemptCost + rest * AttemptCost /\ rest * AttemptCost \in Nat
  BY <1>1, <1>3
<1>5. tries + 1 \in 0 .. MaxAttempts
  BY <1>1
<1>6. tokens + cost <= (tries + 1) * AttemptCost
  BY <1>1, <1>2
<1>7. (tries + 1) * AttemptCost <= MaxCost /\ MaxCost \in Nat
  BY <1>1, <1>2, <1>4 DEF MaxCost
<1>8. tokens + cost \in 0 .. MaxCost
  BY <1>1, <1>2, <1>6, <1>7
<1> QED
  BY <1>5, <1>6, <1>8

LEMMA FailedIsRequest ==
  Failed \in Request /\ Failed.at = "release" /\ Failed.outcome = "failed"
<1>1. MaxAttempts \in Nat /\ MaxCost \in Nat
  BY UsageAssumption DEF MaxCost
<1>2. NewRequest \in Request
  BY <1>1 DEF NewRequest, Request
<1> QED
  BY <1>2 DEF Failed, Request

\* After a call the request calls again, records, or gives up.
LEMMA CallProviderMoves ==
  ASSUME UsageInv, NEW r \in Requests, CallProvider(r)
  PROVE  \E x \in Request :
           /\ requests' = [requests EXCEPT ![r] = x]
           /\ x.at \in {"provider", "record", "release"}
           /\ x.at = "provider" => x.tries < x.attempts /\ x.tokens <= x.tries * AttemptCost
           /\ x.at \in {"provider", "record"} => x.tokens = x.spent
           /\ x.at = "release" => x.outcome = "failed"
<1>1. /\ requests[r].at = "provider" /\ requests[r] \in Request /\ RequestFits(r)
      /\ requests[r].tries \in Nat /\ requests[r].attempts \in 0 .. MaxAttempts
      /\ requests[r].tries < requests[r].attempts
      /\ requests[r].tokens <= requests[r].tries * AttemptCost
      /\ requests[r].tokens = requests[r].spent /\ requests[r].tokens \in Nat
  <2>1. MaxAttempts \in Nat /\ MaxCost \in Nat
    BY UsageAssumption DEF MaxCost
  <2> QED
    BY <2>1, RequestIs DEF CallProvider, RequestFits, Request
<1>2. PICK outcome \in {"succeeded", "invalid", "failed"} :
        LET cost == IF outcome = "failed" THEN 0 ELSE AttemptCost
            called == [requests[r] EXCEPT !.tries = @ + 1, !.outcome = outcome,
                                          !.tokens = Aggregate(@, cost), !.spent = @ + cost]
            next == IF ~ShouldSettle(outcome, called.tries, called.attempts) THEN {called}
                    ELSE {[called EXCEPT !.at = "record", !.tries = 0, !.attempts = 0,
                                         !.lapsed = Lapsed \cap {r}],
                          Failed}
        IN \E n \in next : requests' = [requests EXCEPT ![r] = n]
  BY DEF CallProvider
<1>3. PICK cost \in {0, AttemptCost} : cost = IF outcome = "failed" THEN 0 ELSE AttemptCost
  OBVIOUS
<1>4. PICK tries, tokens : tries = requests[r].tries + 1 /\ tokens = requests[r].tokens + cost
  OBVIOUS
<1>5. tries \in 0 .. MaxAttempts /\ tokens \in 0 .. MaxCost /\ tokens <= tries * AttemptCost
  BY <1>1, <1>4, OneMoreCall
<1>6. PICK called : called = [requests[r] EXCEPT !.tries = tries, !.outcome = outcome,
                                                 !.tokens = tokens, !.spent = tokens]
  OBVIOUS
<1>7. /\ called \in Request /\ called.at = "provider" /\ called.tries = tries
      /\ called.attempts = requests[r].attempts /\ called.tokens = tokens /\ called.spent = tokens
  BY <1>1, <1>5, <1>6 DEF Request
<1>8. called = [requests[r] EXCEPT !.tries = @ + 1, !.outcome = outcome,
                                   !.tokens = Aggregate(@, cost), !.spent = @ + cost]
  <2>1. requests[r].spent + cost = tokens /\ Aggregate(requests[r].tokens, cost) = tokens
    BY <1>1, <1>4 DEF Aggregate
  <2> QED
    BY <1>4, <1>6, <2>1
<1>9. PICK settled : settled = [called EXCEPT !.at = "record", !.tries = 0, !.attempts = 0,
                                              !.lapsed = Lapsed \cap {r}]
  OBVIOUS
<1>10. /\ settled \in Request /\ settled.at = "record"
       /\ settled.tokens = tokens /\ settled.spent = tokens
  <2>1. 0 \in 0 .. MaxAttempts /\ Lapsed \cap {r} \in SUBSET Requests
    BY UsageAssumption
  <2> QED
    BY <1>7, <1>9, <2>1 DEF Request
<1>11. \/ ~ ShouldSettle(outcome, tries, called.attempts) /\ requests' = [requests EXCEPT ![r] = called]
       \/ requests' = [requests EXCEPT ![r] = settled]
       \/ requests' = [requests EXCEPT ![r] = Failed]
  BY <1>2, <1>3, <1>7, <1>8, <1>9
<1>12. ~ ShouldSettle(outcome, tries, called.attempts) => tries < called.attempts
  BY <1>1, <1>5, <1>7 DEF ShouldSettle
<1> QED
  BY <1>5, <1>7, <1>10, <1>11, <1>12, FailedIsRequest

LEMMA CallProviderFits ==
  ASSUME UsageInv, NEW r \in Requests, CallProvider(r)
  PROVE  UsageInv'
<1>1. PICK x \in Request :
           /\ requests' = [requests EXCEPT ![r] = x]
           /\ x.at \in {"provider", "record", "release"}
           /\ x.at = "provider" => x.tries < x.attempts /\ x.tokens <= x.tries * AttemptCost
           /\ x.at \in {"provider", "record"} => x.tokens = x.spent
           /\ x.at = "release" => x.outcome = "failed"
  BY CallProviderMoves
<1>2. requests'[r] = x
  BY <1>1, RequestIs
<1>3. RequestFits(r)'
  BY <1>1, <1>2 DEF RequestFits, Locking, Counting
<1>4. LockFits(r)'
  BY <1>1, <1>2 DEF LockFits, Locking, Counting
<1> QED
  BY <1>1, <1>3, <1>4, RequestMoves, RequestIs DEF CallProvider, RowUnchanged

-----------------------------------------------------------------------------
(* A row that is given back, or ages, holds no more and is no more recent *)

LEMMA RowMoves ==
  ASSUME UsageInv, NEW r \in Requests,
         NEW v \in Reservation, reservations' = [reservations EXCEPT ![r] = v],
         reservations[r].status # "none", v.status # "none",
         v.status = "active" => reservations[r].status = "active" /\ v.maximum = reservations[r].maximum,
         v.age = 0 => reservations[r].age = 0,
         NEW x \in Request, requests' = [requests EXCEPT ![r] = x], x.at \notin Locking,
         charged' \in [Requests -> 0 .. MaxCost], \A q \in Requests \ {r} : charged'[q] = charged[q],
         UNCHANGED <<plan, entered, units>>,
         RequestFits(r)'
  PROVE  UsageInv'
<1>1. /\ UsageTypeOK /\ requests \in [Requests -> Request] /\ reservations \in [Requests -> Reservation]
      /\ plan \in Plans
  BY DEF UsageInv, UsageTypeOK
<1>2. UsageTypeOK'
  BY <1>1 DEF UsageTypeOK
<1>3. /\ \A q \in Requests \ {r} : requests'[q] = requests[q] /\ reservations'[q] = reservations[q]
      /\ requests'[r] = x /\ reservations'[r] = v /\ reservations' \in [Requests -> Reservation]
  BY <1>1
<1>4. Cardinality(Recent') <= Cardinality(Recent) /\ Cardinality(Recent) \in Nat /\ Cardinality(Recent') \in Nat
  <2>1. Recent' \in SUBSET Recent
    BY <1>3 DEF Recent
  <2>2. IsFiniteSet(Recent)
    BY RecentIs
  <2> QED
    BY <2>1, <2>2, FS_Subset, FS_CardinalityType
<1>5. ASSUME NEW q \in Requests, q # r PROVE RequestFits(q)' /\ LockFits(q)'
  <2>1. RequestFits(q)'
    BY <1>3, <1>5 DEF UsageInv, RequestFits
  <2>2. LockFits(q) /\ requests'[q] = requests[q] /\ requests[q] \in Request
    BY <1>1, <1>3, <1>5 DEF UsageInv
  <2>3. Held(q)' <= Held(q) /\ Held(q) \in Nat /\ Held(q)' \in Nat
    <3>1. PICK lapsed : lapsed = requests[q].lapsed
      OBVIOUS
    <3> DEFINE before == SumFunctionOnSet(Maxima(reservations), Holding(reservations, lapsed))
               after == SumFunctionOnSet(Maxima(reservations'), Holding(reservations', lapsed))
               given == Share(Maxima(reservations), Holding(reservations, lapsed), r)
               ceded == Share(Maxima(reservations'), Holding(reservations', lapsed), r)
    <3>2. Held(q) = before /\ Held(q)' = after
      <4>1. Held(q)' = SumFunctionOnSet(Maxima(reservations'), Holding(reservations', requests'[q].lapsed))
        BY DEF Held, Maxima, Holding
      <4> QED
        BY <2>2, <3>1, <4>1, HeldIs
    <3>3. /\ Holding(reservations, lapsed) \ {r} = Holding(reservations', lapsed) \ {r}
          /\ \A p \in Holding(reservations, lapsed) \ {r} : Maxima(reservations)[p] = Maxima(reservations')[p]
      BY <1>3 DEF Holding, Maxima
    <3>4. /\ before \in Nat /\ after \in Nat /\ given \in Nat /\ ceded \in Nat
          /\ before + ceded = after + given
      <4>1. /\ IsFiniteSet(Holding(reservations, lapsed))
            /\ Weights(Maxima(reservations), Holding(reservations, lapsed))
        BY <1>1, HoldingIs
      <4>2. /\ IsFiniteSet(Holding(reservations', lapsed))
            /\ Weights(Maxima(reservations'), Holding(reservations', lapsed))
        BY <1>3, HoldingIs
      <4>3. PICK S, T, w, u : /\ S = Holding(reservations, lapsed) /\ T = Holding(reservations', lapsed)
                              /\ w = Maxima(reservations) /\ u = Maxima(reservations')
        OBVIOUS
      <4>4. /\ IsFiniteSet(S) /\ IsFiniteSet(T) /\ Weights(w, S) /\ Weights(u, T)
            /\ S \ {r} = T \ {r} /\ \A p \in S \ {r} : w[p] = u[p]
        BY <3>3, <4>1, <4>2, <4>3
      <4>5. /\ SumFunctionOnSet(w, S) \in Nat /\ SumFunctionOnSet(u, T) \in Nat
            /\ Share(w, S, r) \in Nat /\ Share(u, T, r) \in Nat
            /\ SumFunctionOnSet(w, S) + Share(u, T, r) = SumFunctionOnSet(u, T) + Share(w, S, r)
        BY <4>4, SumMoves
      <4> QED
        BY <4>3, <4>5
    <3>5. ceded = 0 \/ ceded = given
      BY <1>3 DEF Share, Holding, Maxima
    <3> HIDE DEF before, after, given, ceded
    <3> QED
      BY <3>2, <3>4, <3>5
  <2>4. Most(q)' = Most(q) /\ Most(q) \in Nat
    <3>1. MaxAttempts \in Nat /\ AttemptCost \in Nat
      BY UsageAssumption
    <3>2. requests[q].attempts \in Nat
      BY <2>2, <3>1 DEF Request
    <3> QED
      BY <2>2, <3>1, <3>2 DEF Most
  <2>5. Rate[plan] \in Nat /\ Budget[plan] \in Nat /\ requests[q].read \in Nat
    BY <1>1, <2>2, UsageAssumption DEF Request
  <2>6. requests[q].at \in Counting => Cardinality(Recent') < Rate[plan]
    BY <1>4, <2>2, <2>5 DEF LockFits
  <2>7. requests[q].at = "insert" /\ q \notin Admins =>
          requests[q].read + Held(q)' + Most(q)' <= Budget[plan]
    BY <2>2, <2>3, <2>4, <2>5 DEF LockFits
  <2>8. LockFits(q)'
    BY <2>2, <2>6, <2>7 DEF LockFits
  <2> QED
    BY <2>1, <2>8
<1>6. LockFits(r)'
  BY <1>3 DEF LockFits, Locking, Counting
<1> QED
  BY <1>2, <1>5, <1>6 DEF UsageInv

LEMMA RecordFits ==
  ASSUME UsageInv, NEW r \in Requests, Record(r)
  PROVE  UsageInv'
<1>1. /\ requests[r].at = "record" /\ requests[r] \in Request /\ RequestFits(r)
      /\ UNCHANGED <<plan, entered, units>> /\ entered \in Requests \cup {None}
      /\ reservations[r] \in Reservation
      /\ reservations \in [Requests -> Reservation] /\ charged \in [Requests -> 0 .. MaxCost]
  BY RequestIs DEF Record, UsageTypeOK
<1>2. CASE ~ Chargeable(r) /\ requests' = [requests EXCEPT ![r] = Failed] /\ UNCHANGED <<charged, reservations>>
  <2>1. requests'[r] = Failed
    BY <1>2, RequestIs
  <2>2. RequestFits(r)' /\ LockFits(r)'
    BY <2>1, FailedIsRequest DEF RequestFits, LockFits, Locking, Counting
  <2> QED
    BY <1>1, <1>2, <2>2, FailedIsRequest, RequestMoves
<1>3. CASE /\ Chargeable(r)
           /\ charged' = [charged EXCEPT ![r] = requests[r].tokens]
           /\ reservations' = [reservations EXCEPT ![r] = Ended(r, "released")]
           /\ \E n \in {[requests[r] EXCEPT !.at = "release", !.tokens = 0], Failed} :
                requests' = [requests EXCEPT ![r] = n]
  <2>1. 0 \in 0 .. MaxCost
    BY UsageAssumption DEF MaxCost
  <2>2. PICK v : v = Ended(r, "released")
    OBVIOUS
  <2>3. /\ v \in Reservation /\ v.status = "released" /\ v.age = reservations[r].age
        /\ reservations[r].status = "active"
    BY <1>1, <1>3, <2>1, <2>2 DEF Ended, Reservation, Chargeable
  <2>4. /\ charged' \in [Requests -> 0 .. MaxCost] /\ \A q \in Requests \ {r} : charged'[q] = charged[q]
        /\ charged'[r] = requests[r].tokens /\ requests[r].tokens = requests[r].spent
    BY <1>1, <1>3 DEF Request, RequestFits
  <2>5. PICK settled : settled = [requests[r] EXCEPT !.at = "release", !.tokens = 0]
    OBVIOUS
  <2>6. settled \in Request /\ settled.at = "release" /\ settled.spent = requests[r].spent
    BY <1>1, <2>1, <2>5 DEF Request
  <2>7. PICK x \in {settled, Failed} : requests' = [requests EXCEPT ![r] = x]
    BY <1>3, <2>5
  <2>8. x \in Request /\ x.at = "release" /\ requests'[r] = x
    BY <2>6, <2>7, FailedIsRequest, RequestIs
  <2>9. RequestFits(r)'
    <3>1. x.outcome = "succeeded" => x.spent = requests[r].spent
      BY <2>6, <2>7, FailedIsRequest
    <3> QED
      BY <2>4, <2>8, <3>1 DEF RequestFits, Locking, Counting
  <2>10. /\ v.status # "none" /\ v.status # "active" /\ reservations[r].status # "none"
         /\ v.age = 0 => reservations[r].age = 0
         /\ x.at \notin Locking /\ reservations' = [reservations EXCEPT ![r] = v]
    BY <1>3, <2>2, <2>3, <2>8 DEF Locking, Counting
  <2> QED
    BY <1>1, <2>3, <2>4, <2>7, <2>8, <2>9, <2>10, RowMoves
<1> QED
  BY <1>2, <1>3 DEF Record

\* What Release makes of the request.
LEMMA ReleaseMoves ==
  ASSUME UsageInv, NEW r \in Requests, Release(r)
  PROVE  \E x \in Request :
           /\ requests' = [requests EXCEPT ![r] = x] /\ requests'[r] = x
           /\ x.at \in {"answered", "over"}
           /\ x.at = "answered" => charged[r] = x.spent
<1>1. requests[r].at = "release" /\ requests[r] \in Request /\ RequestFits(r)
  BY RequestIs DEF Release
<1>2. CASE requests[r].outcome = "succeeded"
  <2>1. PICK x : x = [requests[r] EXCEPT !.at = "answered"]
    OBVIOUS
  <2>2. x \in Request /\ x.at = "answered" /\ x.spent = requests[r].spent
    BY <1>1, <2>1 DEF Request
  <2>3. requests' = [requests EXCEPT ![r] = x] /\ requests'[r] = x
    BY <1>2, <2>1, RequestIs DEF Release, Goes
  <2> QED
    BY <1>1, <1>2, <2>2, <2>3 DEF RequestFits
<1>3. CASE requests[r].outcome # "succeeded"
  <2>1. PICK x : x = [NewRequest EXCEPT !.at = "over"]
    OBVIOUS
  <2>2. x \in Request /\ x.at = "over"
    BY <2>1, OverIsRequest
  <2>3. requests' = [requests EXCEPT ![r] = x] /\ requests'[r] = x
    BY <1>3, <2>1, RequestIs DEF Release, Ends
  <2> QED
    BY <2>2, <2>3
<1> QED
  BY <1>2, <1>3

LEMMA ReleaseFits ==
  ASSUME UsageInv, NEW r \in Requests, Release(r)
  PROVE  UsageInv'
<1>1. /\ UNCHANGED <<plan, entered, charged, units>> /\ entered \in Requests \cup {None}
      /\ reservations[r] \in Reservation
      /\ reservations \in [Requests -> Reservation] /\ charged \in [Requests -> 0 .. MaxCost]
  BY RequestIs DEF Release, UsageTypeOK
<1>2. PICK x \in Request :
        /\ requests' = [requests EXCEPT ![r] = x] /\ requests'[r] = x
        /\ x.at \in {"answered", "over"}
        /\ x.at = "answered" => charged[r] = x.spent
  BY ReleaseMoves
<1>3. RequestFits(r)' /\ LockFits(r)' /\ x.at \notin Locking
  BY <1>1, <1>2 DEF RequestFits, LockFits, Locking, Counting
<1>4. CASE UNCHANGED reservations
  BY <1>1, <1>2, <1>3, <1>4, RequestMoves
<1>5. CASE /\ reservations[r].status = "active"
           /\ LET status == IF reservations[r].age = 2 THEN "expired" ELSE "released"
              IN reservations' = [reservations EXCEPT ![r] = Ended(r, status)]
  <2>1. 0 \in 0 .. MaxCost
    BY UsageAssumption DEF MaxCost
  <2>2. PICK v : \E status \in {"expired", "released"} :
                   v = Ended(r, status) /\ reservations' = [reservations EXCEPT ![r] = v]
    BY <1>5
  <2>3. PICK status \in {"expired", "released"} : v = Ended(r, status)
    BY <2>2
  <2>4. v \in Reservation /\ v.status \in {"expired", "released"} /\ v.age = reservations[r].age
    BY <1>1, <2>1, <2>3 DEF Ended, Reservation
  <2>5. /\ v.status # "none" /\ v.status # "active" /\ reservations[r].status # "none"
        /\ v.age = 0 => reservations[r].age = 0
        /\ reservations' = [reservations EXCEPT ![r] = v]
        /\ charged' \in [Requests -> 0 .. MaxCost] /\ \A q \in Requests \ {r} : charged'[q] = charged[q]
    BY <1>1, <1>5, <2>2, <2>4
  <2> QED
    BY <1>1, <1>2, <1>3, <2>4, <2>5, RowMoves
<1> QED
  BY <1>4, <1>5 DEF Release

LEMMA GrowFits ==
  ASSUME UsageInv, NEW r \in Requests, Grow(r)
  PROVE  UsageInv'
<1>1. /\ UNCHANGED <<plan, entered, charged, units, requests>>
      /\ reservations[r] \in Reservation /\ requests[r] \in Request /\ RequestFits(r)
      /\ reservations \in [Requests -> Reservation] /\ charged \in [Requests -> 0 .. MaxCost]
      /\ reservations[r].status # "none"
  BY RequestIs DEF Grow, UsageTypeOK
<1>2. PICK v : v = [reservations[r] EXCEPT !.age = reservations[r].age + 1]
  OBVIOUS
<1>3. reservations' = [reservations EXCEPT ![r] = v]
  BY <1>2 DEF Grow
<1>4. reservations[r].age + 1 \in Ages /\ reservations[r].age \in Nat /\ reservations[r].age + 1 # 0
  BY <1>1 DEF Grow, Reservation, Ages
<1>5. /\ v \in Reservation /\ v.status = reservations[r].status /\ v.maximum = reservations[r].maximum
      /\ v.age # 0
  BY <1>1, <1>2, <1>4 DEF Reservation
<1>6. /\ requests' = [requests EXCEPT ![r] = requests[r]] /\ requests[r].at \notin Locking
      /\ charged' \in [Requests -> 0 .. MaxCost] /\ \A q \in Requests \ {r} : charged'[q] = charged[q]
  BY <1>1, RequestIs DEF RequestFits
<1>7. RequestFits(r)'
  <2>1. reservations'[r] = v
    BY <1>1, <1>3
  <2> QED
    BY <1>1, <1>5, <2>1 DEF RequestFits, Locking, Counting
<1> QED
  BY <1>1, <1>3, <1>5, <1>6, <1>7, RowMoves

-----------------------------------------------------------------------------
(* The steps that give the lock back *)

\* With the lock given back, nobody claims anything of the sums.
LEMMA UnlockedFits ==
  ASSUME NEW r \in Requests, requests'[r].at \notin Locking
  PROVE  LockFits(r)'
  BY DEF LockFits, Locking, Counting

LEMMA MostIs ==
  ASSUME UsageInv, NEW r \in Requests
  PROVE  Most(r) \in 0 .. MaxCost
<1>1. /\ MaxAttempts \in Nat /\ AttemptCost \in Nat
      /\ requests[r].attempts \in Nat /\ requests[r].attempts <= MaxAttempts
  BY UsageAssumption, RequestIs DEF Request
<1>2. PICK rest \in Nat : MaxAttempts = requests[r].attempts + rest
  <2>1. MaxAttempts - requests[r].attempts \in Nat
    BY <1>1
  <2>2. MaxAttempts = requests[r].attempts + (MaxAttempts - requests[r].attempts)
    BY <1>1
  <2> QED
    BY <2>1, <2>2
<1>3. PICK attempts \in Nat : attempts = requests[r].attempts
  BY <1>1
<1>4. MaxAttempts * AttemptCost = attempts * AttemptCost + rest * AttemptCost
  BY <1>1, <1>2, <1>3
<1>5. attempts * AttemptCost \in Nat /\ rest * AttemptCost \in Nat
  BY <1>1, <1>2, <1>3
<1>6. MaxCost \in Nat /\ attempts * AttemptCost <= MaxCost
  BY <1>1, <1>4, <1>5 DEF MaxCost
<1> QED
  BY <1>3, <1>5, <1>6 DEF Most

\* What Insert makes of the book.
LEMMA InsertRows ==
  ASSUME UsageInv, NEW r \in Requests, Insert(r)
  PROVE  /\ reservations' \in [Requests -> Reservation]
         /\ reservations'[r] = [status |-> "active", age |-> 0, maximum |-> Most(r)]
         /\ \A q \in Requests \ {r} :
              \/ q \notin Swept /\ reservations'[q] = reservations[q]
              \/ /\ q \in Swept /\ reservations'[q] = Ended(q, "expired")
                 /\ reservations'[q].status = "expired" /\ reservations'[q].age = reservations[q].age
                 /\ reservations[q].status = "active"
<1>1. \A q \in Requests : reservations[q] \in Reservation
  BY RequestIs DEF UsageTypeOK
<1>2. 0 \in 0 .. MaxCost /\ Most(r) \in 0 .. MaxCost
  BY UsageAssumption, MostIs DEF MaxCost
<1>3. \A q \in Requests :
        /\ Ended(q, "expired") \in Reservation
        /\ Ended(q, "expired").status = "expired" /\ Ended(q, "expired").age = reservations[q].age
  BY <1>1, <1>2 DEF Ended, Reservation
<1>4. [status |-> "active", age |-> 0, maximum |-> Most(r)] \in Reservation
  BY <1>2 DEF Reservation, Ages
<1>5. reservations' = [q \in Requests |->
         IF q = r THEN [status |-> "active", age |-> 0, maximum |-> Most(r)]
         ELSE IF q \in Swept THEN Ended(q, "expired")
         ELSE reservations[q]]
  BY DEF Insert
<1>6. \A q \in Swept : reservations[q].status = "active"
  BY DEF Swept
<1>7. reservations' \in [Requests -> Reservation]
  BY <1>1, <1>3, <1>4, <1>5
<1> QED
  BY <1>3, <1>5, <1>6, <1>7

LEMMA InsertedRow ==
  ASSUME UsageInv, NEW r \in Requests, Insert(r)
  PROVE  /\ reservations'[r].status = "active" /\ reservations'[r].age = 0
         /\ reservations'[r].maximum = Most(r)
<1>1. reservations'[r] = [status |-> "active", age |-> 0, maximum |-> Most(r)]
  BY InsertRows
<1> QED
  BY <1>1

LEMMA InsertFits ==
  ASSUME UsageInv, NEW r \in Requests, Insert(r)
  PROVE  UsageInv'
<1>1. /\ requests[r].at = "insert" /\ entered = r /\ entered' = None
      /\ UNCHANGED <<plan, charged, units>>
      /\ requests[r] \in Request /\ RequestFits(r) /\ UsageTypeOK
  BY RequestIs DEF Insert, LockFits, Locking, Counting
<1>2. PICK x : x = [requests[r] EXCEPT !.at = "provider", !.lapsed = {}, !.read = 0]
  OBVIOUS
<1>3. /\ x \in Request /\ x.at = "provider" /\ x.attempts = requests[r].attempts
      /\ x.tries = requests[r].tries /\ x.tokens = requests[r].tokens /\ x.spent = requests[r].spent
  BY <1>1, <1>2 DEF Request
<1>4. requests' = [requests EXCEPT ![r] = x]
  BY <1>2, RequestIs DEF Insert
<1>5. /\ requests'[r] = x /\ requests' \in [Requests -> Request]
      /\ \A q \in Requests \ {r} : requests'[q] = requests[q]
  BY <1>3, <1>4, RequestIs
<1>6. UsageTypeOK'
  BY <1>1, <1>5, InsertRows DEF UsageTypeOK
<1>7. ASSUME NEW q \in Requests \ {r} PROVE RequestFits(q)' /\ LockFits(q)'
  <2>1. requests[q].at \notin Locking /\ requests'[q] = requests[q] /\ RequestFits(q)
    BY <1>1, <1>5, NobodyLocks, RequestIs
  <2>2. reservations[q].status = "none" => reservations'[q].status = "none"
    BY InsertRows
  <2>3. charged'[q] = charged[q]
    BY <1>1
  <2> QED
    BY <2>1, <2>2, <2>3, UnlockedFits DEF RequestFits
<1>8. RequestFits(r)'
  <2>1. x.tries = 0 /\ x.tokens = 0 /\ x.spent = 0 /\ x.attempts \in Nat /\ x.attempts # 0
    BY <1>1, <1>3, UsageAssumption DEF RequestFits, Counting, Request
  <2>2. x.tokens <= x.tries * AttemptCost /\ x.tries < x.attempts
    BY <2>1, UsageAssumption
  <2> QED
    BY <1>3, <1>5, <2>1, <2>2 DEF RequestFits, Locking, Counting
<1>9. LockFits(r)'
  BY <1>3, <1>5, UnlockedFits DEF Locking, Counting
<1> QED
  BY <1>6, <1>7, <1>8, <1>9 DEF UsageInv

LEMMA MeterFits ==
  ASSUME UsageInv, NEW r \in Requests, Meter(r)
  PROVE  UsageInv'
<1>1. /\ requests[r].at = "meter" /\ entered = r /\ entered' = None
      /\ UNCHANGED <<plan, reservations, charged>> /\ Ends(r) /\ UsageTypeOK
  BY RequestIs DEF Meter, LockFits, Locking
<1>2. PICK x : x = [NewRequest EXCEPT !.at = "over"]
  OBVIOUS
<1>3. x \in Request /\ x.at = "over"
  BY <1>2, OverIsRequest
<1>4. requests' = [requests EXCEPT ![r] = x]
  BY <1>1, <1>2 DEF Ends
<1>5. /\ requests'[r] = x /\ requests' \in [Requests -> Request]
      /\ \A q \in Requests \ {r} : requests'[q] = requests[q]
  BY <1>3, <1>4, RequestIs
<1>6. UsageTypeOK'
  BY <1>1, <1>5 DEF UsageTypeOK, Meter
<1>7. ASSUME NEW q \in Requests \ {r} PROVE RequestFits(q)' /\ LockFits(q)'
  <2>1. requests[q].at \notin Locking /\ requests'[q] = requests[q] /\ RequestFits(q)
    BY <1>1, <1>5, NobodyLocks, RequestIs
  <2>2. reservations'[q] = reservations[q] /\ charged'[q] = charged[q]
    BY <1>1
  <2> QED
    BY <2>1, <2>2, UnlockedFits DEF RequestFits
<1>8. RequestFits(r)' /\ LockFits(r)'
  BY <1>3, <1>5, UnlockedFits DEF RequestFits, Locking, Counting
<1> QED
  BY <1>6, <1>7, <1>8 DEF UsageInv

LEMMA ChangePlanFits ==
  ASSUME UsageInv, NEW p \in Plans, ChangePlan(p)
  PROVE  UsageInv'
<1>1. /\ entered = None /\ plan' = p
      /\ UNCHANGED <<entered, requests, reservations, charged, units>> /\ UsageTypeOK
  BY DEF ChangePlan, RowUnchanged, UsageInv
<1>2. UsageTypeOK'
  BY <1>1 DEF UsageTypeOK
<1>3. ASSUME NEW r \in Requests PROVE RequestFits(r)' /\ LockFits(r)'
  <2>1. RequestFits(r)'
    BY <1>1, RequestIs DEF RequestFits
  <2>2. requests'[r].at \notin Locking
    BY <1>1, RequestIs, UsageAssumption DEF LockFits
  <2> QED
    BY <2>1, <2>2, UnlockedFits
<1> QED
  BY <1>2, <1>3 DEF UsageInv

LEMMA NextUsageInv == UsageInv /\ [UsageNext]_usageVars => UsageInv'
<1> SUFFICES ASSUME UsageInv, [UsageNext]_usageVars PROVE UsageInv'
  OBVIOUS
<1>1. CASE UNCHANGED usageVars
  BY <1>1 DEF usageVars, UsageInv, UsageTypeOK, RequestFits, LockFits, Held, Most, Recent
<1>2. ASSUME NEW r \in Requests,
             \/ Enter(r) \/ SumUsage(r) \/ SumReserved(r) \/ Insert(r)
             \/ CallProvider(r) \/ Record(r) \/ Release(r) \/ Die(r)
             \/ EnterMeter(r) \/ Meter(r)
             \/ Grow(r)
      PROVE  UsageInv'
  BY <1>2, EnterFits, SumUsageFits, SumReservedFits, InsertFits, CallProviderFits, RecordFits,
     ReleaseFits, DieFits, EnterMeterFits, MeterFits, GrowFits
<1>3. ASSUME NEW p \in Plans, ChangePlan(p) PROVE UsageInv'
  BY <1>3, ChangePlanFits
<1> QED
  BY <1>1, <1>2, <1>3 DEF UsageNext

\* In every reachable state the invariant of the usage control holds.
LEMMA UsageInvariant == UsageSpec => []UsageInv
  BY InitUsageInv, NextUsageInv, PTL DEF UsageSpec

\* Nothing is answered whose provider calls were not charged in full, whatever fails in
\* between (record_tenant_ai_usage, assistant-usage-sink).
THEOREM UsageIsSafe == UsageSpec => []UsageSafe
<1>1. UsageInv => UsageSafe
  BY DEF UsageInv, UsageSafe, OutputIsCharged, RequestFits
<1> QED
  BY <1>1, UsageInvariant, PTL

-----------------------------------------------------------------------------
(* What a step never does *)

\* Only the insert of a reservation makes a row active.
LEMMA OnlyInsertGrants ==
  ASSUME UsageInv, [UsageNext]_usageVars, NEW r \in Requests, Granted(r)
  PROVE  Insert(r)
<1>1. reservations \in [Requests -> Reservation]
  BY RequestIs DEF UsageTypeOK
<1>2. reservations' # reservations
  BY DEF Granted
<1>3. PICK q \in Requests : Insert(q) \/ Record(q) \/ Release(q) \/ Grow(q)
  BY <1>2 DEF UsageNext, usageVars, Enter, SumUsage, SumReserved, CallProvider, Die, EnterMeter,
     Meter, ChangePlan, RowUnchanged
<1>4. CASE Record(q)
  <2>1. reservations' = [reservations EXCEPT ![q] = Ended(q, "released")]
    BY <1>2, <1>4 DEF Record
  <2>2. Ended(q, "released").status # "active"
    BY <1>1 DEF Ended, Reservation
  <2> QED
    BY <1>1, <2>1, <2>2 DEF Granted
<1>5. CASE Release(q)
  <2>1. PICK status \in {"expired", "released"} :
               reservations' = [reservations EXCEPT ![q] = Ended(q, status)]
    BY <1>2, <1>5 DEF Release
  <2>2. Ended(q, status).status # "active"
    BY <1>1 DEF Ended, Reservation
  <2> QED
    BY <1>1, <2>1, <2>2 DEF Granted
<1>6. CASE Grow(q)
  <2>1. /\ reservations' = [reservations EXCEPT ![q].age = @ + 1]
        /\ reservations[q].status # "none"
    BY <1>6 DEF Grow
  <2> QED
    BY <1>1, <2>1 DEF Granted
<1>7. CASE Insert(q)
  <2>1. q = r
    BY <1>7, InsertRows DEF Granted
  <2> QED
    BY <1>7, <2>1
<1> QED
  BY <1>3, <1>4, <1>5, <1>6, <1>7

\* The reservation that is inserted is all that is added to those that were counted.
LEMMA InsertAdds ==
  ASSUME UsageInv, NEW r \in Requests, Insert(r)
  PROVE  Held(r)' = Held(r) + Most(r)
<1>1. /\ requests[r].at = "insert" /\ entered = r /\ requests[r] \in Request /\ RequestFits(r)
      /\ reservations \in [Requests -> Reservation] /\ requests \in [Requests -> Request]
  BY RequestIs DEF Insert, LockFits, Locking, Counting, UsageTypeOK
<1>2. reservations[r].status = "none"
  BY <1>1 DEF RequestFits, Locking, Counting
<1>3. requests'[r].lapsed = {}
  BY <1>1 DEF Insert, Request
<1>4. PICK lapsed : lapsed = requests[r].lapsed
  OBVIOUS
<1>5. PICK S, T, w, u : /\ S = Holding(reservations, lapsed) /\ T = Holding(reservations', {})
                        /\ w = Maxima(reservations) /\ u = Maxima(reservations')
  OBVIOUS
<1>6. Held(r) = SumFunctionOnSet(w, S)
  BY <1>4, <1>5, HeldIs
<1>7. Held(r)' = SumFunctionOnSet(u, T)
  <2>1. Held(r)' = SumFunctionOnSet(Maxima(reservations'), Holding(reservations', requests'[r].lapsed))
    BY DEF Held, Maxima, Holding
  <2> QED
    BY <1>3, <1>5, <2>1
<1>8. reservations' \in [Requests -> Reservation]
  BY InsertRows
<1>9. IsFiniteSet(S) /\ IsFiniteSet(T) /\ Weights(w, S) /\ Weights(u, T)
  BY <1>1, <1>5, <1>8, HoldingIs
<1>10. \A q \in Requests : q \in Swept <=> reservations[q].status = "active" /\ q \in lapsed
  BY <1>1, <1>4, UsageAssumption DEF Swept
<1>11. \A q \in Requests \ {r} : q \in S <=> q \in T
  BY <1>5, <1>10, InsertRows DEF Holding
<1>12. S \ {r} = T \ {r}
  <2>1. S \in SUBSET Requests /\ T \in SUBSET Requests
    BY <1>5 DEF Holding
  <2> QED
    BY <1>11, <2>1
<1>13. \A q \in S \ {r} : w[q] = u[q]
  <2>1. \A q \in S \ {r} : q \in Requests \ {r} /\ q \notin lapsed
    BY <1>5 DEF Holding
  <2>2. \A q \in S \ {r} : reservations'[q] = reservations[q]
    BY <1>10, <2>1, InsertRows
  <2> QED
    BY <1>5, <2>1, <2>2 DEF Maxima
<1>14. Share(w, S, r) = 0
  BY <1>2, <1>5 DEF Share, Holding
<1>15. Share(u, T, r) = Most(r)
  <2>1. reservations'[r].status = "active" /\ reservations'[r].maximum = Most(r)
    BY InsertedRow
  <2> QED
    BY <1>5, <2>1 DEF Share, Holding, Maxima
<1>16. /\ SumFunctionOnSet(w, S) \in Nat /\ SumFunctionOnSet(u, T) \in Nat
       /\ Share(w, S, r) \in Nat /\ Share(u, T, r) \in Nat
       /\ SumFunctionOnSet(w, S) + Share(u, T, r) = SumFunctionOnSet(u, T) + Share(w, S, r)
  BY <1>9, <1>12, <1>13, SumMoves
<1> QED
  BY <1>6, <1>7, <1>14, <1>15, <1>16

LEMMA GrantFits ==
  ASSUME UsageInv, [UsageNext]_usageVars, NEW r \in Requests \ Admins, Granted(r)
  PROVE  requests[r].read + Held(r)' <= Budget[plan]
<1>1. Insert(r)
  BY OnlyInsertGrants
<1>2. requests[r].read + Held(r) + Most(r) <= Budget[plan]
  BY <1>1, RequestIs DEF Insert, LockFits
<1>3. requests[r].read \in Nat /\ Held(r) \in Nat /\ Most(r) \in Nat
  <2>1. Most(r) \in 0 .. MaxCost
    BY MostIs
  <2>2. requests[r].read \in Nat
    BY RequestIs DEF Request
  <2> QED
    BY <2>1, <2>2, SumsHold, RequestIs
<1>4. Held(r)' = Held(r) + Most(r)
  BY <1>1, InsertAdds
<1>5. PICK n, h, m : n = requests[r].read /\ h = Held(r) /\ m = Most(r)
  OBVIOUS
<1>6. n + (h + m) = n + h + m
  BY <1>3, <1>5
<1> QED
  BY <1>2, <1>4, <1>5, <1>6

LEMMA RateFits ==
  ASSUME UsageInv, [UsageNext]_usageVars, NEW r \in Requests, Granted(r)
  PROVE  Cardinality({q \in Requests : reservations'[q].status # "none"
                                       /\ reservations'[q].age = 0}) <= Rate[plan]
<1>1. Insert(r)
  BY OnlyInsertGrants
<1>2. Cardinality(Recent) < Rate[plan] /\ Rate[plan] \in Nat
  <2>1. plan \in Plans
    BY RequestIs DEF UsageTypeOK
  <2> QED
    BY <1>1, <2>1, RequestIs, UsageAssumption DEF Insert, LockFits, Counting
<1>3. PICK now : now = {q \in Requests : reservations'[q].status # "none" /\ reservations'[q].age = 0}
  OBVIOUS
<1>4. \A q \in Requests \ {r} : q \in now <=> q \in Recent
  BY <1>1, <1>3, InsertRows DEF Recent
<1>5. r \in now /\ r \notin Recent
  <2>1. reservations'[r].status = "active" /\ reservations'[r].age = 0
    BY <1>1, InsertedRow
  <2> QED
    BY <1>3, <2>1 DEF Recent, Granted
<1>6. now = Recent \cup {r}
  BY <1>3, <1>4, <1>5 DEF Recent
<1>7. Cardinality(now) = Cardinality(Recent) + 1
  BY <1>5, <1>6, RecentIs, FS_AddElement
<1> QED
  BY <1>2, <1>3, <1>7, RecentIs

LEMMA AllowanceFits ==
  ASSUME UsageInv, [UsageNext]_usageVars, NEW r \in Requests \ Admins, units[r] = 0, units'[r] = 1
  PROVE  SumFunctionOnSet(units', Requests) <= ToolLimit[plan]
<1>1. units \in [Requests -> 0 .. 1] /\ plan \in Plans /\ units' # units
  BY RequestIs DEF UsageTypeOK
<1>2. PICK q \in Requests : Meter(q)
  BY <1>1 DEF UsageNext, usageVars, Enter, SumUsage, SumReserved, CallProvider, Die, EnterMeter,
     ChangePlan, RowUnchanged, Insert, Record, Release, Grow
<1>3. units' = [units EXCEPT ![q] = 1] /\ q = r
  BY <1>1, <1>2 DEF Meter
<1>4. requests[r].read + 1 <= ToolLimit[plan]
  BY <1>1, <1>2, <1>3 DEF Meter
<1>5. requests[r].read = SumFunctionOnSet(units, Requests)
  BY <1>2, <1>3, RequestIs DEF Meter, LockFits
<1>6. PICK u : u = units'
  OBVIOUS
<1>7. Weights(units, Requests) /\ Weights(u, Requests) /\ \A p \in Requests \ {r} : units[p] = u[p]
  BY <1>1, <1>3, <1>6 DEF Weights
<1>8. Share(units, Requests, r) = 0 /\ Share(u, Requests, r) = 1
  BY <1>6 DEF Share
<1>9. PICK R : R = Requests
  OBVIOUS
<1>10. /\ SumFunctionOnSet(units, R) \in Nat /\ SumFunctionOnSet(u, R) \in Nat
       /\ SumFunctionOnSet(units, R) + Share(u, R, r) = SumFunctionOnSet(u, R) + Share(units, R, r)
  BY <1>7, <1>9, SumMoves, UsageAssumption
<1>11. SumFunctionOnSet(u, R) = SumFunctionOnSet(units, R) + 1
  BY <1>8, <1>9, <1>10
<1> QED
  BY <1>4, <1>5, <1>6, <1>9, <1>11

LEMMA ReturnedStays ==
  ASSUME UsageInv, [UsageNext]_usageVars, NEW r \in Requests,
         reservations[r].status \in {"released", "expired"}
  PROVE  reservations'[r].status = reservations[r].status /\ charged'[r] = charged[r]
<1>1. /\ reservations \in [Requests -> Reservation] /\ charged \in [Requests -> 0 .. MaxCost]
  BY RequestIs DEF UsageTypeOK
<1>2. CASE UNCHANGED <<reservations, charged>>
  BY <1>2
<1>3. ASSUME NEW q \in Requests, Record(q)
      PROVE  reservations'[r].status = reservations[r].status /\ charged'[r] = charged[r]
  <2>1. CASE q = r
    BY <1>3, <2>1 DEF Record, Chargeable
  <2>2. CASE q # r
    BY <1>1, <1>3, <2>2 DEF Record
  <2> QED
    BY <2>1, <2>2
<1>4. ASSUME NEW q \in Requests, Release(q)
      PROVE  reservations'[r].status = reservations[r].status /\ charged'[r] = charged[r]
  <2>1. CASE q = r
    BY <1>4, <2>1 DEF Release
  <2>2. CASE q # r
    BY <1>1, <1>4, <2>2 DEF Release
  <2> QED
    BY <2>1, <2>2
<1>5. ASSUME NEW q \in Requests, Grow(q)
      PROVE  reservations'[r].status = reservations[r].status /\ charged'[r] = charged[r]
  <2>1. reservations' = [reservations EXCEPT ![q].age = @ + 1] /\ charged' = charged
    BY <1>5 DEF Grow
  <2> QED
    BY <1>1, <2>1 DEF Reservation
<1>6. ASSUME NEW q \in Requests, Insert(q)
      PROVE  reservations'[r].status = reservations[r].status /\ charged'[r] = charged[r]
  <2>1. charged' = charged /\ q # r
    BY <1>6, RequestIs DEF Insert, RequestFits, Locking, Counting
  <2> QED
    BY <1>6, <2>1, InsertRows
<1>7. \/ UNCHANGED <<reservations, charged>>
      \/ \E q \in Requests : Insert(q) \/ Record(q) \/ Release(q) \/ Grow(q)
  BY DEF UsageNext, usageVars, Enter, SumUsage, SumReserved, CallProvider, Die, EnterMeter,
     Meter, ChangePlan, RowUnchanged
<1> QED
  BY <1>2, <1>3, <1>4, <1>5, <1>6, <1>7

\* Two requests never both take the last of the budget, of the rate or of the tool
\* allowance, and what was given back is not taken again
\* (reserve_tenant_usage_budget, consume_tenant_metered_allowance).
THEOREM BudgetIsHeld == UsageSpec => BudgetHeld
<1> DEFINE Grants == \A r \in Requests \ Admins :
                       Granted(r) => requests[r].read + Held(r)' <= Budget[plan]
           Rates == \A r \in Requests :
                      Granted(r) => Cardinality({q \in Requests : reservations'[q].status # "none"
                                                   /\ reservations'[q].age = 0}) <= Rate[plan]
           Allots == \A r \in Requests \ Admins :
                       units[r] = 0 /\ units'[r] = 1
                         => SumFunctionOnSet(units', Requests) <= ToolLimit[plan]
           Stays == \A r \in Requests :
                      reservations[r].status \in {"released", "expired"}
                        => /\ reservations'[r].status = reservations[r].status
                           /\ charged'[r] = charged[r]
<1>1. UsageInv /\ [UsageNext]_usageVars => [Grants]_usageVars
  BY GrantFits
<1>2. UsageInv /\ [UsageNext]_usageVars => [Rates]_usageVars
  BY RateFits
<1>3. UsageInv /\ [UsageNext]_usageVars => [Allots]_usageVars
  BY AllowanceFits
<1>4. UsageInv /\ [UsageNext]_usageVars => [Stays]_usageVars
  BY ReturnedStays
<1>5. UsageSpec => [][Grants]_usageVars /\ [][Rates]_usageVars /\ [][Allots]_usageVars /\ [][Stays]_usageVars
  BY <1>1, <1>2, <1>3, <1>4, UsageInvariant, PTL DEF UsageSpec
<1> QED
  BY <1>5 DEF BudgetHeld, GrantsWithinBudget, RateHeld, AllowanceHeld, ReturnedIsReturned

-----------------------------------------------------------------------------
(* The inductive invariant of Storefront *)

\* The checkouts that are past their reservation, refused ones included.
Placed(cs) == {o \in Orders : cs[o].at \in {"check", "insert", "over"}}

\* Units counted as sold for an order, a checkout and a cancellation.
OrderUnits(row, s) == IF row.status = "open" /\ s \in row.reserved THEN row.items[s] ELSE 0
CheckoutUnits(c, s) == IF c.at \in {"check", "insert"} /\ s \in Tracked(c) THEN c.items[s] ELSE 0
OwnerUnits(book, w, s) ==
  IF s \in w.left /\ s \in book[w.order].reserved THEN book[w.order].items[s] ELSE 0

\* The three sums of the ledger, of any tables.
OrdersWeigh(book, s) == [o \in Orders |-> book[o].items[s]]
OrdersWith(book, s) == {o \in Orders : book[o].status = "open" /\ s \in book[o].reserved}
CheckoutsWeigh(cs, s) == [o \in Orders |-> cs[o].items[s]]
CheckoutsWith(cs, s) == {o \in Orders : cs[o].at \in {"check", "insert"} /\ s \in Tracked(cs[o])}
OwnersWeigh(book, ws, s) == [w \in Owners |-> book[ws[w].order].items[s]]
OwnersWith(book, ws, s) == {w \in Owners : s \in ws[w].left /\ s \in book[ws[w].order].reserved}

Counted(s) == InOrders(s) + InCheckouts(s) + Returning(s)

\* A checkout that has an order is over, and it has read no more stock than was published.
CheckoutFits(o) ==
  /\ checkouts[o].at # "over" => orders[o].status = "none"
  /\ \A s \in Skus : checkouts[o].limits[s] # Untracked => checkouts[o].limits[s] <= peak[s]

\* An owner's request that is under way is about an order there is.
OwnerFits(w) ==
  /\ owners[w].at # "restock" => owners[w].left = {}
  /\ owners[w].at # "idle" => owners[w].order \in Orders /\ orders[owners[w].order].status # "none"
  /\ owners[w].at = "update" => owners[w].to # "none"

\* The ledger of one product.
SoldFits(s) ==
  /\ sold[s] <= peak[s]
  /\ sold[s] <= MaxQuantity * Cardinality(Placed(checkouts))
  /\ stock[s] # Untracked => stock[s] <= peak[s]
  /\ ledger # "broken" => Counted(s) <= sold[s]
  /\ ledger = "exact" => sold[s] <= Counted(s)

StoreTypes ==
  /\ stock \in [Skus -> Published]
  /\ sold \in [Skus -> Nat]
  /\ orders \in [Orders -> Order]
  /\ checkouts \in [Orders -> Checkout]
  /\ owners \in [Owners -> Owner]
  /\ peak \in [Skus -> Stocks]
  /\ ledger \in {"exact", "leaky", "broken"}

StoreInv ==
  /\ StoreTypes
  /\ \A o \in Orders : CheckoutFits(o)
  /\ \A w \in Owners : OwnerFits(w)
  /\ \A s \in Skus : SoldFits(s)

-----------------------------------------------------------------------------
(* The three sums change where a table changes *)

LEMMA QuantityIsNumber == \A q \in Quantities : q \in Nat /\ q <= MaxQuantity
  BY StoreAssumption DEF Quantities

LEMMA OrdersMove ==
  ASSUME NEW book \in [Orders -> Order], NEW after \in [Orders -> Order], NEW s \in Skus,
         NEW o \in Orders, \A p \in Orders \ {o} : after[p] = book[p]
  PROVE  /\ SumFunctionOnSet(OrdersWeigh(book, s), OrdersWith(book, s)) \in Nat
         /\ SumFunctionOnSet(OrdersWeigh(after, s), OrdersWith(after, s)) \in Nat
         /\ OrderUnits(book[o], s) \in Nat /\ OrderUnits(after[o], s) \in Nat
         /\ SumFunctionOnSet(OrdersWeigh(book, s), OrdersWith(book, s)) + OrderUnits(after[o], s)
              = SumFunctionOnSet(OrdersWeigh(after, s), OrdersWith(after, s)) + OrderUnits(book[o], s)
<1>1. PICK S, T, w, v : /\ S = OrdersWith(book, s) /\ T = OrdersWith(after, s)
                        /\ w = OrdersWeigh(book, s) /\ v = OrdersWeigh(after, s)
  OBVIOUS
<1>2. S \in SUBSET Orders /\ T \in SUBSET Orders
  BY <1>1 DEF OrdersWith
<1>3. IsFiniteSet(S) /\ IsFiniteSet(T)
  BY <1>2, FS_Subset, StoreAssumption
<1>4. \A p \in Orders : book[p].items[s] \in Nat /\ after[p].items[s] \in Nat
  BY QuantityIsNumber DEF Order
<1>5. Weights(w, S) /\ Weights(v, T)
  BY <1>1, <1>2, <1>4 DEF Weights, OrdersWeigh
<1>6. S \ {o} = T \ {o} /\ \A p \in S \ {o} : w[p] = v[p]
  BY <1>1 DEF OrdersWith, OrdersWeigh
<1>7. Share(w, S, o) = OrderUnits(book[o], s) /\ Share(v, T, o) = OrderUnits(after[o], s)
  BY <1>1 DEF Share, OrderUnits, OrdersWith, OrdersWeigh
<1> QED
  BY <1>1, <1>3, <1>5, <1>6, <1>7, SumMoves

LEMMA CheckoutsMove ==
  ASSUME NEW cs \in [Orders -> Checkout], NEW after \in [Orders -> Checkout], NEW s \in Skus,
         NEW o \in Orders, \A p \in Orders \ {o} : after[p] = cs[p]
  PROVE  /\ SumFunctionOnSet(CheckoutsWeigh(cs, s), CheckoutsWith(cs, s)) \in Nat
         /\ SumFunctionOnSet(CheckoutsWeigh(after, s), CheckoutsWith(after, s)) \in Nat
         /\ CheckoutUnits(cs[o], s) \in Nat /\ CheckoutUnits(after[o], s) \in Nat
         /\ SumFunctionOnSet(CheckoutsWeigh(cs, s), CheckoutsWith(cs, s)) + CheckoutUnits(after[o], s)
              = SumFunctionOnSet(CheckoutsWeigh(after, s), CheckoutsWith(after, s)) + CheckoutUnits(cs[o], s)
<1>1. PICK S, T, w, v : /\ S = CheckoutsWith(cs, s) /\ T = CheckoutsWith(after, s)
                        /\ w = CheckoutsWeigh(cs, s) /\ v = CheckoutsWeigh(after, s)
  OBVIOUS
<1>2. S \in SUBSET Orders /\ T \in SUBSET Orders
  BY <1>1 DEF CheckoutsWith
<1>3. IsFiniteSet(S) /\ IsFiniteSet(T)
  BY <1>2, FS_Subset, StoreAssumption
<1>4. \A p \in Orders : cs[p].items[s] \in Nat /\ after[p].items[s] \in Nat
  BY QuantityIsNumber DEF Checkout
<1>5. Weights(w, S) /\ Weights(v, T)
  BY <1>1, <1>2, <1>4 DEF Weights, CheckoutsWeigh
<1>6. S \ {o} = T \ {o} /\ \A p \in S \ {o} : w[p] = v[p]
  BY <1>1 DEF CheckoutsWith, CheckoutsWeigh
<1>7. Share(w, S, o) = CheckoutUnits(cs[o], s) /\ Share(v, T, o) = CheckoutUnits(after[o], s)
  BY <1>1 DEF Share, CheckoutUnits, CheckoutsWith, CheckoutsWeigh
<1> QED
  BY <1>1, <1>3, <1>5, <1>6, <1>7, SumMoves

\* Only w moves; the orders may change, too, but not for the cancellations under way.
OnlyMoves(book, after, ws, next, w) ==
  /\ book \in [Orders -> Order] /\ after \in [Orders -> Order]
  /\ \A u \in Owners \ {w} : next[u] = ws[u]
  /\ \A u \in Owners : ws[u].left # {} => ws[u].order \in Orders
  /\ \A u \in Owners : next[u].left # {} => next[u].order \in Orders
  /\ \A u \in Owners \ {w} : ws[u].left # {} =>
       /\ after[ws[u].order].items = book[ws[u].order].items
       /\ after[ws[u].order].reserved = book[ws[u].order].reserved

LEMMA OwnersMove ==
  ASSUME NEW book, NEW after, NEW ws, NEW next, NEW s \in Skus, NEW w \in Owners,
         OnlyMoves(book, after, ws, next, w)
  PROVE  /\ SumFunctionOnSet(OwnersWeigh(book, ws, s), OwnersWith(book, ws, s)) \in Nat
         /\ SumFunctionOnSet(OwnersWeigh(after, next, s), OwnersWith(after, next, s)) \in Nat
         /\ OwnerUnits(book, ws[w], s) \in Nat /\ OwnerUnits(after, next[w], s) \in Nat
         /\ SumFunctionOnSet(OwnersWeigh(book, ws, s), OwnersWith(book, ws, s)) + OwnerUnits(after, next[w], s)
              = SumFunctionOnSet(OwnersWeigh(after, next, s), OwnersWith(after, next, s))
                  + OwnerUnits(book, ws[w], s)
<1> USE DEF OnlyMoves
<1>1. PICK S, T, f, g : /\ S = OwnersWith(book, ws, s) /\ T = OwnersWith(after, next, s)
                        /\ f = OwnersWeigh(book, ws, s) /\ g = OwnersWeigh(after, next, s)
  OBVIOUS
<1>2. S \in SUBSET Owners /\ T \in SUBSET Owners
  BY <1>1 DEF OwnersWith
<1>3. IsFiniteSet(S) /\ IsFiniteSet(T)
  BY <1>2, FS_Subset, StoreAssumption
<1>4. \A p \in Orders : book[p].items[s] \in Nat /\ after[p].items[s] \in Nat
  BY QuantityIsNumber DEF Order
<1>5. /\ \A u \in S : u \in Owners /\ ws[u].left # {} /\ ws[u].order \in Orders
      /\ \A u \in T : u \in Owners /\ next[u].left # {} /\ next[u].order \in Orders
  BY <1>1 DEF OwnersWith
<1>6. Weights(f, S) /\ Weights(g, T)
  BY <1>1, <1>4, <1>5 DEF Weights, OwnersWeigh
<1>7. \A u \in Owners \ {w} : u \in S <=> u \in T
  BY <1>1 DEF OwnersWith
<1>8. S \ {w} = T \ {w}
  BY <1>2, <1>7
<1>9. \A u \in S \ {w} : f[u] = g[u]
  BY <1>1, <1>5 DEF OwnersWeigh
<1>10. Share(f, S, w) = OwnerUnits(book, ws[w], s) /\ Share(g, T, w) = OwnerUnits(after, next[w], s)
  BY <1>1 DEF Share, OwnerUnits, OwnersWith, OwnersWeigh
<1> QED
  BY <1>1, <1>3, <1>6, <1>8, <1>9, <1>10, SumMoves

LEMMA InOrdersIs ==
  ASSUME NEW s
  PROVE  /\ InOrders(s) = SumFunctionOnSet(OrdersWeigh(orders, s), OrdersWith(orders, s))
         /\ InOrders(s)' = SumFunctionOnSet(OrdersWeigh(orders', s), OrdersWith(orders', s))
  BY DEF InOrders, OrdersWeigh, OrdersWith

LEMMA InCheckoutsIs ==
  ASSUME NEW s
  PROVE  /\ InCheckouts(s) = SumFunctionOnSet(CheckoutsWeigh(checkouts, s), CheckoutsWith(checkouts, s))
         /\ InCheckouts(s)' = SumFunctionOnSet(CheckoutsWeigh(checkouts', s), CheckoutsWith(checkouts', s))
  BY DEF InCheckouts, CheckoutsWeigh, CheckoutsWith

LEMMA ReturningIs ==
  ASSUME NEW s
  PROVE  /\ Returning(s) = SumFunctionOnSet(OwnersWeigh(orders, owners, s), OwnersWith(orders, owners, s))
         /\ Returning(s)' = SumFunctionOnSet(OwnersWeigh(orders', owners', s), OwnersWith(orders', owners', s))
  BY DEF Returning, OwnersWeigh, OwnersWith

LEMMA StoreIs ==
  ASSUME StoreInv
  PROVE  /\ StoreTypes /\ \A o \in Orders : CheckoutFits(o)
         /\ \A w \in Owners : OwnerFits(w)
         /\ \A s \in Skus : SoldFits(s)
         /\ \A o \in Orders : checkouts[o] \in Checkout /\ orders[o] \in Order
         /\ \A w \in Owners : owners[w] \in Owner /\ (owners[w].left # {} => owners[w].order \in Orders)
         /\ \A s \in Skus : stock[s] \in Published /\ sold[s] \in Nat /\ peak[s] \in Nat
         /\ orders \in [Orders -> Order] /\ checkouts \in [Orders -> Checkout]
         /\ owners \in [Owners -> Owner]
<1>1. StoreTypes /\ \A w \in Owners : OwnerFits(w)
  BY DEF StoreInv
<1>2. \A s \in Skus : stock[s] \in Published /\ sold[s] \in Nat /\ peak[s] \in Nat
  BY <1>1, StoreAssumption DEF StoreTypes
<1>3. \A w \in Owners : owners[w] \in Owner /\ (owners[w].left # {} => owners[w].order \in Orders)
  BY <1>1 DEF StoreTypes, OwnerFits
<1> QED
  BY <1>1, <1>2, <1>3 DEF StoreInv, StoreTypes

LEMMA CountsAreNumbers ==
  ASSUME StoreInv, NEW s \in Skus
  PROVE  InOrders(s) \in Nat /\ InCheckouts(s) \in Nat /\ Returning(s) \in Nat
<1>1. \A o \in Orders : orders[o].items[s] \in Nat /\ checkouts[o].items[s] \in Nat
  BY StoreIs, QuantityIsNumber DEF Order, Checkout
<1>2. /\ OrdersWith(orders, s) \in SUBSET Orders /\ CheckoutsWith(checkouts, s) \in SUBSET Orders
      /\ OwnersWith(orders, owners, s) \in SUBSET Owners
  BY DEF OrdersWith, CheckoutsWith, OwnersWith
<1>3. /\ IsFiniteSet(OrdersWith(orders, s)) /\ IsFiniteSet(CheckoutsWith(checkouts, s))
      /\ IsFiniteSet(OwnersWith(orders, owners, s))
  BY <1>2, FS_Subset, StoreAssumption
<1>4. Weights(OrdersWeigh(orders, s), OrdersWith(orders, s))
  BY <1>1, <1>2 DEF Weights, OrdersWeigh
<1>5. Weights(CheckoutsWeigh(checkouts, s), CheckoutsWith(checkouts, s))
  BY <1>1, <1>2 DEF Weights, CheckoutsWeigh
<1>6. \A w \in OwnersWith(orders, owners, s) : w \in Owners /\ owners[w].order \in Orders
  BY StoreIs DEF OwnersWith
<1>7. Weights(OwnersWeigh(orders, owners, s), OwnersWith(orders, owners, s))
  BY <1>1, <1>6 DEF Weights, OwnersWeigh
<1> QED
  BY <1>3, <1>4, <1>5, <1>7, SumIsNumber, InOrdersIs, InCheckoutsIs, ReturningIs

LEMMA InitStoreInv == StoreInit => StoreInv
<1> SUFFICES ASSUME StoreInit PROVE StoreInv
  OBVIOUS
<1>1. /\ stock \in [Skus -> Stocks] /\ sold = [s \in Skus |-> 0] /\ peak = stock /\ ledger = "exact"
      /\ orders = [o \in Orders |-> [status |-> "none", items |-> NoItems, reserved |-> {},
                                     recent |-> FALSE]]
      /\ checkouts = [o \in Orders |-> NewCheckout] /\ owners = [w \in Owners |-> IdleOwner]
  BY DEF StoreInit
<1>2. NoItems \in [Skus -> Quantities] /\ NoItems \in [Skus -> Published \cup {0}]
  BY StoreAssumption DEF NoItems, Quantities
<1>3. NewCheckout \in Checkout /\ IdleOwner \in Owner
  BY <1>2 DEF NewCheckout, Checkout, IdleOwner, Owner
<1>4. [status |-> "none", items |-> NoItems, reserved |-> {}, recent |-> FALSE] \in Order
  BY <1>2 DEF Order
<1>5. StoreTypes
  <2>1. stock \in [Skus -> Published] /\ sold \in [Skus -> Nat]
    BY <1>1 DEF Published
  <2> QED
    BY <1>1, <1>3, <1>4, <2>1 DEF StoreTypes
<1>6. ASSUME NEW o \in Orders PROVE CheckoutFits(o)
  <2>1. orders[o].status = "none"
    BY <1>1
  <2>2. checkouts[o].limits = NoItems
    BY <1>1 DEF NewCheckout
  <2>3. \A s \in Skus : NoItems[s] = 0 /\ peak[s] \in Nat
    BY <1>1, StoreAssumption DEF NoItems
  <2> QED
    BY <2>1, <2>2, <2>3 DEF CheckoutFits
<1>7. \A w \in Owners : OwnerFits(w)
  BY <1>1 DEF OwnerFits, IdleOwner
<1>8. ASSUME NEW s \in Skus PROVE SoldFits(s)
  <2>1. OrdersWith(orders, s) = {} /\ CheckoutsWith(checkouts, s) = {} /\ OwnersWith(orders, owners, s) = {}
    BY <1>1 DEF OrdersWith, CheckoutsWith, OwnersWith, NewCheckout, IdleOwner
  <2>2. InOrders(s) = 0 /\ InCheckouts(s) = 0 /\ Returning(s) = 0
    BY <2>1, InOrdersIs, InCheckoutsIs, ReturningIs, SumOfNone
  <2>3. sold[s] = 0 /\ peak[s] \in Nat /\ peak[s] = stock[s]
    BY <1>1, StoreAssumption
  <2>4. MaxQuantity * Cardinality(Placed(checkouts)) \in Nat
    <3>1. Placed(checkouts) \in SUBSET Orders
      BY DEF Placed
    <3>2. Cardinality(Placed(checkouts)) \in Nat
      BY <3>1, FS_Subset, FS_CardinalityType, StoreAssumption
    <3> QED
      BY <3>2, StoreAssumption
  <2>5. Counted(s) = 0
    BY <2>2 DEF Counted
  <2> QED
    BY <2>3, <2>4, <2>5 DEF SoldFits
<1> QED
  BY <1>5, <1>6, <1>7, <1>8 DEF StoreInv

-----------------------------------------------------------------------------
(* The steps of a checkout *)

LEMMA PlacedIs ==
  ASSUME NEW cs
  PROVE  /\ Placed(cs) \in SUBSET Orders /\ IsFiniteSet(Placed(cs)) /\ Cardinality(Placed(cs)) \in Nat
         /\ Cardinality(Placed(cs)) <= Cardinality(Orders) /\ Cardinality(Orders) \in Nat
<1>1. Placed(cs) \in SUBSET Orders
  BY DEF Placed
<1> QED
  BY <1>1, FS_Subset, FS_CardinalityType, StoreAssumption

LEMMA Scales ==
  ASSUME NEW m \in Nat, NEW a \in Nat, NEW b \in Nat, a <= b
  PROVE  m * a \in Nat /\ m * b \in Nat /\ m * a <= m * b
<1>1. PICK rest \in Nat : b = a + rest
  <2>1. b - a \in Nat /\ b = a + (b - a)
    OBVIOUS
  <2> QED
    BY <2>1
<1>2. m * b = m * a + m * rest
  BY <1>1
<1>3. m * a \in Nat /\ m * rest \in Nat
  BY <1>1
<1> QED
  BY <1>2, <1>3

LEMMA CheckoutRowMoves ==
  ASSUME StoreInv, NEW o \in Orders, NEW c \in Checkout, checkouts' = [checkouts EXCEPT ![o] = c],
         NEW s \in Skus
  PROVE  /\ InCheckouts(s) \in Nat /\ InCheckouts(s)' \in Nat
         /\ CheckoutUnits(checkouts[o], s) \in Nat /\ CheckoutUnits(c, s) \in Nat
         /\ InCheckouts(s) + CheckoutUnits(c, s) = InCheckouts(s)' + CheckoutUnits(checkouts[o], s)
<1>1. PICK before, after : before = checkouts /\ after = checkouts'
  OBVIOUS
<1>2. /\ before \in [Orders -> Checkout] /\ after \in [Orders -> Checkout] /\ after[o] = c
      /\ \A p \in Orders \ {o} : after[p] = before[p]
  BY <1>1, StoreIs
<1>3. /\ SumFunctionOnSet(CheckoutsWeigh(before, s), CheckoutsWith(before, s)) \in Nat
      /\ SumFunctionOnSet(CheckoutsWeigh(after, s), CheckoutsWith(after, s)) \in Nat
      /\ CheckoutUnits(before[o], s) \in Nat /\ CheckoutUnits(after[o], s) \in Nat
      /\ SumFunctionOnSet(CheckoutsWeigh(before, s), CheckoutsWith(before, s)) + CheckoutUnits(after[o], s)
           = SumFunctionOnSet(CheckoutsWeigh(after, s), CheckoutsWith(after, s)) + CheckoutUnits(before[o], s)
  BY <1>2, CheckoutsMove
<1> QED
  BY <1>1, <1>2, <1>3, InCheckoutsIs

\* What is sold and what is counted of a checkout change alike.
LEMMA CheckoutMoves ==
  ASSUME StoreInv, NEW o \in Orders, NEW c \in Checkout,
         checkouts' = [checkouts EXCEPT ![o] = c], checkouts[o].at # "over",
         UNCHANGED <<stock, orders, owners, peak>>,
         \A s \in Skus : c.limits[s] # Untracked => c.limits[s] <= peak[s],
         sold' \in [Skus -> Nat],
         \A s \in Skus : /\ sold'[s] <= peak[s]
                         /\ sold'[s] <= MaxQuantity * Cardinality(Placed(checkouts')),
         ledger' \in {"exact", "leaky", "broken"},
         ledger' # "broken" => ledger # "broken",
         ledger' = "exact" => ledger = "exact",
         \A s \in Skus :
           /\ ledger' # "broken" =>
                sold[s] + CheckoutUnits(c, s) <= sold'[s] + CheckoutUnits(checkouts[o], s)
           /\ ledger' = "exact" =>
                sold'[s] + CheckoutUnits(checkouts[o], s) <= sold[s] + CheckoutUnits(c, s)
  PROVE  StoreInv'
<1>1. /\ checkouts' \in [Orders -> Checkout] /\ checkouts'[o] = c
      /\ \A p \in Orders \ {o} : checkouts'[p] = checkouts[p]
  BY StoreIs
<1>2. StoreTypes'
  BY <1>1, StoreIs DEF StoreTypes
<1>3. ASSUME NEW p \in Orders PROVE CheckoutFits(p)'
  <2>1. CASE p = o
    BY <1>1, <2>1, StoreIs DEF CheckoutFits
  <2>2. CASE p # o
    BY <1>1, <2>2, StoreIs DEF CheckoutFits
  <2> QED
    BY <2>1, <2>2
<1>4. ASSUME NEW w \in Owners PROVE OwnerFits(w)'
  BY StoreIs DEF OwnerFits
<1>5. ASSUME NEW s \in Skus PROVE SoldFits(s)'
  <2>1. InOrders(s)' = InOrders(s) /\ Returning(s)' = Returning(s)
    BY InOrdersIs, ReturningIs
  <2>2. /\ InCheckouts(s) \in Nat /\ InCheckouts(s)' \in Nat
        /\ CheckoutUnits(checkouts[o], s) \in Nat /\ CheckoutUnits(c, s) \in Nat
        /\ InCheckouts(s) + CheckoutUnits(c, s) = InCheckouts(s)' + CheckoutUnits(checkouts[o], s)
    BY CheckoutRowMoves
  <2>3. InOrders(s) \in Nat /\ Returning(s) \in Nat
    BY CountsAreNumbers
  <2>4. Counted(s) = InOrders(s) + InCheckouts(s) + Returning(s)
    BY DEF Counted
  <2>5. Counted(s)' = InOrders(s) + InCheckouts(s)' + Returning(s)
    BY <2>1 DEF Counted
  <2>6. sold[s] \in Nat /\ sold'[s] \in Nat
    BY <1>2, StoreIs DEF StoreTypes
  <2>7. /\ ledger # "broken" => Counted(s) <= sold[s]
        /\ ledger = "exact" => sold[s] <= Counted(s)
        /\ stock'[s] # Untracked => stock'[s] <= peak'[s]
    BY StoreIs DEF SoldFits
  <2>8. ledger' # "broken" => Counted(s)' <= sold'[s]
    BY <2>2, <2>3, <2>4, <2>5, <2>6, <2>7
  <2>9. ledger' = "exact" => sold'[s] <= Counted(s)'
    BY <2>2, <2>3, <2>4, <2>5, <2>6, <2>7
  <2>10. sold'[s] <= peak'[s] /\ sold'[s] <= MaxQuantity * Cardinality(Placed(checkouts'))
    OBVIOUS
  <2> QED
    BY <2>7, <2>8, <2>9, <2>10 DEF SoldFits
<1> QED
  BY <1>2, <1>3, <1>4, <1>5 DEF StoreInv

\* What BeginCheckout, Reserve, CheckRate and AbandonCheckout leave of a checkout that ends.
LEMMA OverIs ==
  ASSUME NEW c, c = [NewCheckout EXCEPT !.at = "over"]
  PROVE  c \in Checkout /\ c.at = "over" /\ c.limits = NoItems /\ \A s : CheckoutUnits(c, s) = 0
<1>1. NoItems \in [Skus -> Quantities] /\ NoItems \in [Skus -> Published \cup {0}]
  BY StoreAssumption DEF NoItems, Quantities
<1>2. NewCheckout \in Checkout /\ NewCheckout.limits = NoItems
  BY <1>1 DEF NewCheckout, Checkout
<1>3. c \in Checkout /\ c.at = "over" /\ c.limits = NoItems
  BY <1>2 DEF Checkout
<1> QED
  BY <1>3 DEF CheckoutUnits

LEMMA NoItemsFit ==
  ASSUME StoreInv
  PROVE  \A s \in Skus : NoItems[s] <= peak[s]
  BY StoreIs DEF NoItems

\* A checkout that goes from one phase to another keeps its place among those that reserved.
LEMMA PlacedSame ==
  ASSUME StoreInv, NEW o \in Orders, NEW c, checkouts' = [checkouts EXCEPT ![o] = c],
         c.at \in {"check", "insert", "over"} <=> checkouts[o].at \in {"check", "insert", "over"}
  PROVE  Placed(checkouts') = Placed(checkouts)
<1>1. checkouts'[o] = c /\ \A p \in Orders \ {o} : checkouts'[p] = checkouts[p]
  BY StoreIs
<1> QED
  BY <1>1 DEF Placed

LEMMA BeginCheckoutFits ==
  ASSUME StoreInv, NEW o \in Orders, BeginCheckout(o)
  PROVE  StoreInv'
<1>1. checkouts[o].at = "idle" /\ UNCHANGED <<stock, sold, orders, owners, peak, ledger>>
  BY DEF BeginCheckout
<1>2. PICK items \in [Skus -> Quantities] :
        LET limits == [s \in Skus |-> IF s \in Lines(items) THEN stock[s] ELSE 0]
        IN checkouts' = [checkouts EXCEPT
                           ![o] = [at |-> "reserve", items |-> items, limits |-> limits]]
  BY DEF BeginCheckout
<1>3. PICK limits : limits = [s \in Skus |-> IF s \in Lines(items) THEN stock[s] ELSE 0]
  OBVIOUS
<1>4. PICK c : c = [at |-> "reserve", items |-> items, limits |-> limits]
  OBVIOUS
<1>5. limits \in [Skus -> Published \cup {0}]
  BY <1>3, StoreIs
<1>6. c \in Checkout /\ c.at = "reserve" /\ c.limits = limits
  BY <1>4, <1>5 DEF Checkout
<1>7. checkouts' = [checkouts EXCEPT ![o] = c]
  BY <1>2, <1>3, <1>4
<1>8. ASSUME NEW s \in Skus, c.limits[s] # Untracked PROVE c.limits[s] <= peak[s]
  <2>1. stock[s] # Untracked => stock[s] <= peak[s]
    BY StoreIs DEF SoldFits
  <2>2. peak[s] \in Nat /\ c.limits[s] \in {stock[s], 0}
    BY <1>3, <1>6, StoreIs
  <2> QED
    BY <1>8, <2>1, <2>2
<1>9. Placed(checkouts') = Placed(checkouts)
  BY <1>1, <1>6, <1>7, PlacedSame
<1>10. sold' \in [Skus -> Nat] /\ ledger' \in {"exact", "leaky", "broken"}
  BY <1>1, StoreIs DEF StoreTypes
<1>11. \A s \in Skus : sold'[s] <= peak[s] /\ sold'[s] <= MaxQuantity * Cardinality(Placed(checkouts'))
  BY <1>1, <1>9, StoreIs DEF SoldFits
<1>12. \A s \in Skus : CheckoutUnits(checkouts[o], s) = 0 /\ CheckoutUnits(c, s) = 0
  BY <1>1, <1>6 DEF CheckoutUnits
<1>13. \A s \in Skus : sold'[s] = sold[s] /\ sold[s] \in Nat
  BY <1>1, StoreIs
<1>14. \A s \in Skus :
         /\ ledger' # "broken" =>
              sold[s] + CheckoutUnits(c, s) <= sold'[s] + CheckoutUnits(checkouts[o], s)
         /\ ledger' = "exact" =>
              sold'[s] + CheckoutUnits(checkouts[o], s) <= sold[s] + CheckoutUnits(c, s)
  BY <1>12, <1>13
<1>15. checkouts[o].at # "over" /\ ledger' = ledger
  BY <1>1
<1> QED
  BY <1>1, <1>6, <1>7, <1>8, <1>10, <1>11, <1>14, <1>15, CheckoutMoves

\* A checkout that ends, or goes on, without touching what is sold.
LEMMA CheckoutGoesOn ==
  ASSUME StoreInv, NEW o \in Orders, NEW c \in Checkout,
         checkouts' = [checkouts EXCEPT ![o] = c], checkouts[o].at # "over",
         UNCHANGED <<stock, sold, orders, owners, peak>>,
         c.limits = checkouts[o].limits \/ c.limits = NoItems,
         checkouts[o].at \in {"check", "insert", "over"} => c.at \in {"check", "insert", "over"},
         ledger' \in {"exact", "leaky", "broken"},
         ledger' # "broken" => ledger # "broken",
         ledger' = "exact" => ledger = "exact",
         \A s \in Skus :
           /\ CheckoutUnits(c, s) <= CheckoutUnits(checkouts[o], s)
           /\ ledger' = "exact" => CheckoutUnits(checkouts[o], s) <= CheckoutUnits(c, s)
  PROVE  StoreInv'
<1>1. checkouts'[o] = c /\ \A p \in Orders \ {o} : checkouts'[p] = checkouts[p]
  BY StoreIs
<1>2. Placed(checkouts) \in SUBSET Placed(checkouts')
  BY <1>1 DEF Placed
<1>3. /\ Cardinality(Placed(checkouts)) <= Cardinality(Placed(checkouts'))
      /\ Cardinality(Placed(checkouts)) \in Nat /\ Cardinality(Placed(checkouts')) \in Nat
  BY <1>2, PlacedIs, FS_Subset
<1>4. /\ MaxQuantity * Cardinality(Placed(checkouts)) <= MaxQuantity * Cardinality(Placed(checkouts'))
      /\ MaxQuantity * Cardinality(Placed(checkouts)) \in Nat
      /\ MaxQuantity * Cardinality(Placed(checkouts')) \in Nat
  <2>1. PICK a, b : a = Cardinality(Placed(checkouts)) /\ b = Cardinality(Placed(checkouts'))
    OBVIOUS
  <2>2. MaxQuantity * a <= MaxQuantity * b /\ MaxQuantity * a \in Nat /\ MaxQuantity * b \in Nat
    BY <1>3, <2>1, Scales, StoreAssumption
  <2> QED
    BY <2>1, <2>2
<1>5. sold' = sold /\ sold' \in [Skus -> Nat]
  BY StoreIs DEF StoreTypes
<1>6. \A s \in Skus : sold[s] <= peak[s] /\ sold[s] <= MaxQuantity * Cardinality(Placed(checkouts)) /\ sold[s] \in Nat
  BY StoreIs DEF SoldFits
<1>7. \A s \in Skus : sold'[s] <= peak[s] /\ sold'[s] <= MaxQuantity * Cardinality(Placed(checkouts'))
  BY <1>4, <1>5, <1>6
<1>8. \A s \in Skus : c.limits[s] # Untracked => c.limits[s] <= peak[s]
  BY NoItemsFit, StoreIs DEF CheckoutFits
<1>9. \A s \in Skus : CheckoutUnits(c, s) \in Nat /\ CheckoutUnits(checkouts[o], s) \in Nat
  <2>1. \A s \in Skus : c.items[s] \in Nat /\ checkouts[o].items[s] \in Nat
    BY StoreIs, QuantityIsNumber DEF Checkout
  <2> QED
    BY <2>1 DEF CheckoutUnits
<1>10. \A s \in Skus :
         /\ sold[s] + CheckoutUnits(c, s) <= sold'[s] + CheckoutUnits(checkouts[o], s)
         /\ ledger' = "exact" =>
              sold'[s] + CheckoutUnits(checkouts[o], s) <= sold[s] + CheckoutUnits(c, s)
  BY <1>5, <1>6, <1>9
<1> QED
  BY <1>5, <1>7, <1>8, <1>10, CheckoutMoves

LEMMA LeaveReservedFits ==
  ASSUME StoreInv, NEW o \in Orders, checkouts[o].at \in {"check", "insert"}, LeaveReserved(o),
         UNCHANGED <<stock, sold, orders, owners, peak>>
  PROVE  StoreInv'
<1>1. PICK c : c = [NewCheckout EXCEPT !.at = "over"]
  OBVIOUS
<1>2. checkouts' = [checkouts EXCEPT ![o] = c]
  BY <1>1 DEF LeaveReserved, Over
<1>3. c \in Checkout /\ c.at = "over" /\ c.limits = NoItems /\ \A s : CheckoutUnits(c, s) = 0
  BY <1>1, OverIs
<1>4. ledger' = IF Tracked(checkouts[o]) # {} /\ ledger = "exact" THEN "leaky" ELSE ledger
  BY DEF LeaveReserved, Leaks
<1>5. ledger \in {"exact", "leaky", "broken"}
  BY StoreIs DEF StoreTypes
<1>6. /\ ledger' \in {"exact", "leaky", "broken"} /\ (ledger' # "broken" => ledger # "broken")
      /\ ledger' = "exact" => ledger = "exact" /\ Tracked(checkouts[o]) = {}
  BY <1>4, <1>5
<1>7. \A s \in Skus : /\ CheckoutUnits(checkouts[o], s) \in Nat
                      /\ Tracked(checkouts[o]) = {} => CheckoutUnits(checkouts[o], s) = 0
  <2>1. \A s \in Skus : checkouts[o].items[s] \in Nat
    BY StoreIs, QuantityIsNumber DEF Checkout
  <2> QED
    BY <2>1 DEF CheckoutUnits
<1>8. \A s \in Skus :
        /\ CheckoutUnits(c, s) <= CheckoutUnits(checkouts[o], s)
        /\ ledger' = "exact" => CheckoutUnits(checkouts[o], s) <= CheckoutUnits(c, s)
  BY <1>3, <1>6, <1>7
<1>9. checkouts[o].at # "over" /\ c.at \in {"check", "insert", "over"}
  BY <1>3
<1> QED
  BY <1>2, <1>3, <1>6, <1>8, <1>9, CheckoutGoesOn

LEMMA CheckRateFits ==
  ASSUME StoreInv, NEW o \in Orders, CheckRate(o)
  PROVE  StoreInv'
<1>1. checkouts[o].at = "check" /\ UNCHANGED <<stock, sold, orders, owners, peak>>
  BY DEF CheckRate
<1>2. CASE LeaveReserved(o)
  BY <1>1, <1>2, LeaveReservedFits
<1>3. CASE checkouts' = [checkouts EXCEPT ![o].at = "insert"] /\ UNCHANGED ledger
  <2>1. PICK c : c = [checkouts[o] EXCEPT !.at = "insert"]
    OBVIOUS
  <2>2. /\ c \in Checkout /\ c.at = "insert" /\ c.items = checkouts[o].items
        /\ c.limits = checkouts[o].limits
    BY <2>1, StoreIs DEF Checkout
  <2>3. checkouts' = [checkouts EXCEPT ![o] = c]
    BY <1>3, <2>1, StoreIs
  <2>4. \A s \in Skus : /\ CheckoutUnits(c, s) = CheckoutUnits(checkouts[o], s)
                        /\ CheckoutUnits(checkouts[o], s) \in Nat
    <3>1. \A s \in Skus : checkouts[o].items[s] \in Nat
      BY StoreIs, QuantityIsNumber DEF Checkout
    <3> QED
      BY <1>1, <2>2, <3>1 DEF CheckoutUnits, Tracked
  <2>5. ledger' = ledger /\ ledger' \in {"exact", "leaky", "broken"}
    BY <1>3, StoreIs DEF StoreTypes
  <2>6. \A s \in Skus :
          /\ CheckoutUnits(c, s) <= CheckoutUnits(checkouts[o], s)
          /\ ledger' = "exact" => CheckoutUnits(checkouts[o], s) <= CheckoutUnits(c, s)
    BY <2>4
  <2>7. checkouts[o].at # "over" /\ c.at \in {"check", "insert", "over"}
    BY <1>1, <2>2
  <2> QED
    BY <1>1, <2>2, <2>3, <2>5, <2>6, <2>7, CheckoutGoesOn
<1> QED
  BY <1>2, <1>3 DEF CheckRate

LEMMA AbandonCheckoutFits ==
  ASSUME StoreInv, NEW o \in Orders, AbandonCheckout(o)
  PROVE  StoreInv'
  BY LeaveReservedFits DEF AbandonCheckout

\* The units of every line are taken together, or none are.
LEMMA ReserveTakes ==
  ASSUME StoreInv, NEW o \in Orders, checkouts[o].at = "reserve",
         \A s \in Tracked(checkouts[o]) : Fits(checkouts[o], s),
         sold' = Reserved(checkouts[o]), checkouts' = [checkouts EXCEPT ![o].at = "check"],
         UNCHANGED <<stock, orders, owners, peak, ledger>>
  PROVE  StoreInv'
<1>1. PICK c : c = [checkouts[o] EXCEPT !.at = "check"]
  OBVIOUS
<1>2. /\ c \in Checkout /\ c.at = "check" /\ c.items = checkouts[o].items
      /\ c.limits = checkouts[o].limits
  BY <1>1, StoreIs DEF Checkout
<1>3. checkouts' = [checkouts EXCEPT ![o] = c]
  BY <1>1, StoreIs
<1>4. \A s \in Skus : c.items[s] \in Nat /\ c.items[s] <= MaxQuantity /\ c.limits[s] \in Published \cup {0}
  BY <1>2, QuantityIsNumber DEF Checkout
<1>5. /\ \A s \in Skus : sold'[s] = IF s \in Tracked(checkouts[o]) THEN sold[s] + c.items[s] ELSE sold[s]
      /\ sold' \in [Skus -> Nat]
  BY <1>2, <1>4, StoreIs DEF Reserved
<1>6. \A s \in Skus : c.limits[s] # Untracked => c.limits[s] <= peak[s] /\ c.limits[s] \in Nat
  BY <1>2, <1>4, StoreIs, StoreAssumption DEF CheckoutFits, Published
<1>7. /\ Placed(checkouts') = Placed(checkouts) \cup {o} /\ o \notin Placed(checkouts)
  <2>1. checkouts'[o] = c /\ \A p \in Orders \ {o} : checkouts'[p] = checkouts[p]
    BY <1>3, StoreIs
  <2> QED
    BY <1>2, <2>1 DEF Placed
<1>8. MaxQuantity * Cardinality(Placed(checkouts')) = MaxQuantity * Cardinality(Placed(checkouts)) + MaxQuantity
  <2>1. Cardinality(Placed(checkouts')) = Cardinality(Placed(checkouts)) + 1
    BY <1>7, PlacedIs, FS_AddElement
  <2>2. PICK n \in Nat : n = Cardinality(Placed(checkouts))
    BY PlacedIs
  <2>3. MaxQuantity * (n + 1) = MaxQuantity * n + MaxQuantity
    BY StoreAssumption
  <2> QED
    BY <2>1, <2>2, <2>3
<1>9. PICK m \in Nat : m = MaxQuantity * Cardinality(Placed(checkouts))
  <2>1. PICK n \in Nat : n = Cardinality(Placed(checkouts))
    BY PlacedIs
  <2>2. MaxQuantity * n \in Nat
    BY StoreAssumption
  <2> QED
    BY <2>1, <2>2
<1>10. ASSUME NEW s \in Skus
       PROVE  sold'[s] <= peak[s] /\ sold'[s] <= MaxQuantity * Cardinality(Placed(checkouts'))
  <2>1. sold[s] \in Nat /\ sold[s] <= peak[s] /\ sold[s] <= m /\ peak[s] \in Nat /\ MaxQuantity \in Nat
    BY <1>9, StoreIs, StoreAssumption DEF SoldFits
  <2>2. CASE s \in Tracked(checkouts[o])
    <3>1. c.limits[s] # Untracked /\ sold[s] + c.items[s] <= c.limits[s]
      BY <1>2, <2>2 DEF Fits, Tracked
    <3> QED
      BY <1>4, <1>5, <1>6, <1>8, <1>9, <2>1, <2>2, <3>1
  <2>3. CASE s \notin Tracked(checkouts[o])
    BY <1>5, <1>8, <1>9, <2>1, <2>3
  <2> QED
    BY <2>2, <2>3
<1>11. \A s \in Skus :
         /\ CheckoutUnits(checkouts[o], s) = 0
         /\ CheckoutUnits(c, s) = IF s \in Tracked(checkouts[o]) THEN c.items[s] ELSE 0
  BY <1>2 DEF CheckoutUnits, Tracked
<1>12. \A s \in Skus :
         /\ ledger' # "broken" =>
              sold[s] + CheckoutUnits(c, s) <= sold'[s] + CheckoutUnits(checkouts[o], s)
         /\ ledger' = "exact" =>
              sold'[s] + CheckoutUnits(checkouts[o], s) <= sold[s] + CheckoutUnits(c, s)
  BY <1>4, <1>5, <1>11, StoreIs
<1>13. checkouts[o].at # "over" /\ ledger' = ledger /\ ledger' \in {"exact", "leaky", "broken"}
  BY StoreIs DEF StoreTypes
<1>14. \A s \in Skus : c.limits[s] # Untracked => c.limits[s] <= peak[s]
  BY <1>6
<1> QED
  BY <1>2, <1>3, <1>5, <1>10, <1>12, <1>13, <1>14, CheckoutMoves

\* A refused checkout takes nothing.
LEMMA ReserveRefuses ==
  ASSUME StoreInv, NEW o \in Orders, checkouts[o].at = "reserve", Over(o),
         UNCHANGED <<sold, stock, orders, owners, peak, ledger>>
  PROVE  StoreInv'
<1>1. PICK c : c = [NewCheckout EXCEPT !.at = "over"]
  OBVIOUS
<1>2. checkouts' = [checkouts EXCEPT ![o] = c]
  BY <1>1 DEF Over
<1>3. c \in Checkout /\ c.at = "over" /\ c.limits = NoItems /\ \A s : CheckoutUnits(c, s) = 0
  BY <1>1, OverIs
<1>4. \A s \in Skus :
        /\ CheckoutUnits(c, s) <= CheckoutUnits(checkouts[o], s)
        /\ ledger' = "exact" => CheckoutUnits(checkouts[o], s) <= CheckoutUnits(c, s)
  BY <1>3 DEF CheckoutUnits
<1>5. /\ checkouts[o].at # "over" /\ c.at \in {"check", "insert", "over"}
      /\ ledger' = ledger /\ ledger' \in {"exact", "leaky", "broken"}
  BY <1>3, StoreIs DEF StoreTypes
<1> QED
  BY <1>2, <1>3, <1>4, <1>5, CheckoutGoesOn

LEMMA ReserveFits ==
  ASSUME StoreInv, NEW o \in Orders, Reserve(o)
  PROVE  StoreInv'
<1>1. /\ checkouts[o].at = "reserve" /\ UNCHANGED <<stock, orders, owners, peak, ledger>>
      /\ \/ /\ sold' = Reserved(checkouts[o])
            /\ IF \A s \in Tracked(checkouts[o]) : Fits(checkouts[o], s)
               THEN checkouts' = [checkouts EXCEPT ![o].at = "check"] ELSE Over(o)
         \/ Over(o) /\ UNCHANGED sold
  BY DEF Reserve
<1>2. CASE Over(o) /\ UNCHANGED sold
  BY <1>1, <1>2, ReserveRefuses
<1>3. CASE /\ \A s \in Tracked(checkouts[o]) : Fits(checkouts[o], s)
           /\ sold' = Reserved(checkouts[o]) /\ checkouts' = [checkouts EXCEPT ![o].at = "check"]
  BY <1>1, <1>3, ReserveTakes
<1>4. CASE /\ ~ \A s \in Tracked(checkouts[o]) : Fits(checkouts[o], s)
           /\ sold' = Reserved(checkouts[o]) /\ Over(o)
  <2>1. sold' = sold
    BY <1>4 DEF Reserved
  <2> QED
    BY <1>1, <1>4, <2>1, ReserveRefuses
<1> QED
  BY <1>1, <1>2, <1>3, <1>4

-----------------------------------------------------------------------------
(* The steps of an owner *)

\* What is sold and what a cancellation still has to give back change alike.
LEMMA OwnerMoves ==
  ASSUME StoreInv, NEW w \in Owners, NEW x \in Owner,
         owners' = [owners EXCEPT ![w] = x],
         UNCHANGED <<stock, orders, checkouts, peak>>,
         x.at # "restock" => x.left = {},
         x.at # "idle" => x.order \in Orders /\ orders[x.order].status # "none",
         x.at = "update" => x.to # "none",
         sold' \in [Skus -> Nat], \A s \in Skus : sold'[s] <= sold[s],
         ledger' \in {"exact", "leaky", "broken"},
         ledger' # "broken" => ledger # "broken",
         ledger' = "exact" => ledger = "exact",
         \A s \in Skus :
           /\ ledger' # "broken" =>
                sold[s] + OwnerUnits(orders, x, s) <= sold'[s] + OwnerUnits(orders, owners[w], s)
           /\ ledger' = "exact" =>
                sold'[s] + OwnerUnits(orders, owners[w], s) <= sold[s] + OwnerUnits(orders, x, s)
  PROVE  StoreInv'
<1>1. /\ owners' \in [Owners -> Owner] /\ owners'[w] = x
      /\ \A u \in Owners \ {w} : owners'[u] = owners[u]
  BY StoreIs
<1>2. StoreTypes'
  BY <1>1, StoreIs DEF StoreTypes
<1>3. ASSUME NEW o \in Orders PROVE CheckoutFits(o)'
  BY StoreIs DEF CheckoutFits
<1>4. ASSUME NEW u \in Owners PROVE OwnerFits(u)'
  <2>1. CASE u = w
    BY <1>1, <2>1 DEF OwnerFits
  <2>2. CASE u # w
    BY <1>1, <2>2, StoreIs DEF OwnerFits
  <2> QED
    BY <2>1, <2>2
<1>5. ASSUME NEW s \in Skus PROVE SoldFits(s)'
  <2>1. InOrders(s)' = InOrders(s) /\ InCheckouts(s)' = InCheckouts(s)
    BY InOrdersIs, InCheckoutsIs
  <2>2. /\ Returning(s) \in Nat /\ Returning(s)' \in Nat
        /\ OwnerUnits(orders, owners[w], s) \in Nat /\ OwnerUnits(orders, x, s) \in Nat
        /\ Returning(s) + OwnerUnits(orders, x, s) = Returning(s)' + OwnerUnits(orders, owners[w], s)
    <3>1. PICK book, after, ws, next : book = orders /\ after = orders /\ ws = owners /\ next = owners'
      OBVIOUS
    <3>2. /\ book \in [Orders -> Order] /\ after \in [Orders -> Order]
          /\ \A u \in Owners \ {w} : next[u] = ws[u]
          /\ \A u \in Owners : ws[u].left # {} => ws[u].order \in Orders
      BY <1>1, <3>1, StoreIs
    <3>3. \A u \in Owners : next[u].left # {} => next[u].order \in Orders
      BY <1>4, <3>1 DEF OwnerFits
    <3>4. \A u \in Owners \ {w} : ws[u].left # {} =>
            /\ after[ws[u].order].items = book[ws[u].order].items
            /\ after[ws[u].order].reserved = book[ws[u].order].reserved
      BY <3>1
    <3>6. OnlyMoves(book, after, ws, next, w)
      BY <3>2, <3>3, <3>4 DEF OnlyMoves
    <3>5. /\ SumFunctionOnSet(OwnersWeigh(book, ws, s), OwnersWith(book, ws, s)) \in Nat
          /\ SumFunctionOnSet(OwnersWeigh(after, next, s), OwnersWith(after, next, s)) \in Nat
          /\ OwnerUnits(book, ws[w], s) \in Nat /\ OwnerUnits(after, next[w], s) \in Nat
          /\ SumFunctionOnSet(OwnersWeigh(book, ws, s), OwnersWith(book, ws, s)) + OwnerUnits(after, next[w], s)
               = SumFunctionOnSet(OwnersWeigh(after, next, s), OwnersWith(after, next, s))
                   + OwnerUnits(book, ws[w], s)
      BY <3>6, OwnersMove
    <3> QED
      BY <1>1, <3>1, <3>5, ReturningIs
  <2>3. InOrders(s) \in Nat /\ InCheckouts(s) \in Nat
    BY CountsAreNumbers
  <2>4. Counted(s) = InOrders(s) + InCheckouts(s) + Returning(s)
    BY DEF Counted
  <2>5. Counted(s)' = InOrders(s) + InCheckouts(s) + Returning(s)'
    BY <2>1 DEF Counted
  <2>6. sold[s] \in Nat /\ sold'[s] \in Nat /\ sold'[s] <= sold[s] /\ peak[s] \in Nat /\ peak' = peak
    BY StoreIs
  <2>7. /\ ledger # "broken" => Counted(s) <= sold[s]
        /\ ledger = "exact" => sold[s] <= Counted(s)
        /\ stock'[s] # Untracked => stock'[s] <= peak'[s]
        /\ sold[s] <= peak[s]
    BY StoreIs DEF SoldFits
  <2>8. ledger' # "broken" => Counted(s)' <= sold'[s]
    BY <2>2, <2>3, <2>4, <2>5, <2>6, <2>7
  <2>9. ledger' = "exact" => sold'[s] <= Counted(s)'
    BY <2>2, <2>3, <2>4, <2>5, <2>6, <2>7
  <2>10. sold'[s] <= peak'[s]
    BY <2>6, <2>7
  <2>11. sold'[s] <= MaxQuantity * Cardinality(Placed(checkouts'))
    <3>1. PICK n \in Nat : n = Cardinality(Placed(checkouts))
      BY PlacedIs
    <3>2. MaxQuantity * n \in Nat /\ sold[s] <= MaxQuantity * n
      BY <3>1, StoreIs, StoreAssumption DEF SoldFits
    <3>3. sold'[s] <= MaxQuantity * n
      BY <2>6, <3>2
    <3> QED
      BY <3>1, <3>3
  <2> QED
    BY <2>7, <2>8, <2>9, <2>10, <2>11 DEF SoldFits
<1> QED
  BY <1>2, <1>3, <1>4, <1>5 DEF StoreInv

\* An owner's request that is idle gives nothing back.
LEMMA IdleOwnerIs ==
  /\ IdleOwner \in Owner /\ IdleOwner.at = "idle" /\ IdleOwner.left = {}
  /\ \A book, s : OwnerUnits(book, IdleOwner, s) = 0
  BY DEF IdleOwner, Owner, OwnerUnits

LEMMA OwnerUnitsAre ==
  ASSUME StoreInv, NEW w \in Owners, NEW s \in Skus
  PROVE  OwnerUnits(orders, owners[w], s) \in Nat
<1>1. s \in owners[w].left => owners[w].order \in Orders
  BY StoreIs
<1>2. \A o \in Orders : orders[o].items[s] \in Nat
  BY StoreIs, QuantityIsNumber DEF Order
<1> QED
  BY <1>1, <1>2 DEF OwnerUnits

LEMMA ReadOrderFits ==
  ASSUME StoreInv, NEW w \in Owners, NEW o \in Orders, ReadOrder(w, o)
  PROVE  StoreInv'
<1>1. /\ owners[w].at = "idle" /\ orders[o].status # "none"
      /\ UNCHANGED <<stock, sold, orders, checkouts, peak, ledger>>
  BY DEF ReadOrder
<1>2. PICK to \in {"open", "cancelled"} :
        owners' = [owners EXCEPT ![w] = [at |-> "update", order |-> o, to |-> to,
                                         previous |-> orders[o].status, left |-> {}]]
  BY DEF ReadOrder
<1>3. PICK x : x = [at |-> "update", order |-> o, to |-> to, previous |-> orders[o].status, left |-> {}]
  OBVIOUS
<1>4. orders[o].status \in {"none", "open", "cancelled"}
  BY StoreIs DEF Order
<1>5. /\ x \in Owner /\ x.left = {} /\ x.order = o /\ x.to # "none"
      /\ owners' = [owners EXCEPT ![w] = x]
  BY <1>2, <1>3, <1>4 DEF Owner
<1>6. owners[w].left = {}
  BY <1>1, StoreIs DEF OwnerFits
<1>7. \A s \in Skus : OwnerUnits(orders, x, s) = 0 /\ OwnerUnits(orders, owners[w], s) = 0
  BY <1>5, <1>6 DEF OwnerUnits
<1>8. /\ sold' \in [Skus -> Nat] /\ ledger' = ledger /\ ledger' \in {"exact", "leaky", "broken"}
      /\ \A s \in Skus : sold'[s] = sold[s] /\ sold[s] \in Nat
  BY <1>1, StoreIs DEF StoreTypes
<1>9. \A s \in Skus :
        /\ ledger' # "broken" =>
             sold[s] + OwnerUnits(orders, x, s) <= sold'[s] + OwnerUnits(orders, owners[w], s)
        /\ ledger' = "exact" =>
             sold'[s] + OwnerUnits(orders, owners[w], s) <= sold[s] + OwnerUnits(orders, x, s)
  BY <1>7, <1>8
<1>10. \A s \in Skus : sold'[s] <= sold[s]
  BY <1>8
<1> QED
  BY <1>1, <1>5, <1>8, <1>9, <1>10, OwnerMoves

LEMMA AbandonMutationFits ==
  ASSUME StoreInv, NEW w \in Owners, AbandonMutation(w)
  PROVE  StoreInv'
<1>1. /\ UNCHANGED <<stock, sold, orders, checkouts, peak>>
      /\ owners' = [owners EXCEPT ![w] = IdleOwner]
      /\ ledger' = IF owners[w].at = "restock" /\ ledger = "exact" THEN "leaky" ELSE ledger
  BY DEF AbandonMutation, Leaks
<1>2. /\ sold' \in [Skus -> Nat] /\ ledger \in {"exact", "leaky", "broken"}
      /\ \A s \in Skus : sold'[s] = sold[s] /\ sold[s] \in Nat
  BY <1>1, StoreIs DEF StoreTypes
<1>3. /\ ledger' \in {"exact", "leaky", "broken"} /\ (ledger' # "broken" => ledger # "broken")
      /\ ledger' = "exact" => ledger = "exact" /\ owners[w].at # "restock"
  BY <1>1, <1>2
<1>4. PICK x : x = IdleOwner
  OBVIOUS
<1>5. x \in Owner /\ x.at = "idle" /\ x.left = {} /\ \A s : OwnerUnits(orders, x, s) = 0
  BY <1>4, IdleOwnerIs
<1>6. \A s \in Skus : /\ OwnerUnits(orders, owners[w], s) \in Nat
                      /\ owners[w].at # "restock" => OwnerUnits(orders, owners[w], s) = 0
  BY OwnerUnitsAre, StoreIs DEF OwnerFits, OwnerUnits
<1>7. \A s \in Skus :
        /\ ledger' # "broken" =>
             sold[s] + OwnerUnits(orders, x, s) <= sold'[s] + OwnerUnits(orders, owners[w], s)
        /\ ledger' = "exact" =>
             sold'[s] + OwnerUnits(orders, owners[w], s) <= sold[s] + OwnerUnits(orders, x, s)
  BY <1>2, <1>3, <1>5, <1>6
<1>8. \A s \in Skus : sold'[s] <= sold[s]
  BY <1>2
<1> QED
  BY <1>1, <1>2, <1>3, <1>4, <1>5, <1>7, <1>8, OwnerMoves

\* What a cancellation has to give back is counted as sold.
LEMMA ReturningIsSold ==
  ASSUME StoreInv, ledger # "broken", NEW w \in Owners, NEW s \in Skus
  PROVE  OwnerUnits(orders, owners[w], s) <= sold[s]
<1>1. PICK book, after, ws, next : /\ book = orders /\ after = orders /\ ws = owners
                                   /\ next = [owners EXCEPT ![w] = IdleOwner]
  OBVIOUS
<1>2. next[w] = IdleOwner /\ \A u \in Owners \ {w} : next[u] = ws[u]
  BY <1>1, StoreIs
<1>3. /\ book \in [Orders -> Order] /\ after \in [Orders -> Order]
      /\ \A u \in Owners : ws[u].left # {} => ws[u].order \in Orders
  BY <1>1, StoreIs
<1>4. \A u \in Owners : next[u].left # {} => next[u].order \in Orders
  BY <1>2, <1>3, IdleOwnerIs
<1>5. \A u \in Owners \ {w} : ws[u].left # {} =>
        /\ after[ws[u].order].items = book[ws[u].order].items
        /\ after[ws[u].order].reserved = book[ws[u].order].reserved
  BY <1>1
<1>6. OnlyMoves(book, after, ws, next, w)
  BY <1>2, <1>3, <1>4, <1>5 DEF OnlyMoves
<1>7. /\ SumFunctionOnSet(OwnersWeigh(book, ws, s), OwnersWith(book, ws, s)) \in Nat
      /\ SumFunctionOnSet(OwnersWeigh(after, next, s), OwnersWith(after, next, s)) \in Nat
      /\ OwnerUnits(book, ws[w], s) \in Nat /\ OwnerUnits(after, next[w], s) \in Nat
      /\ SumFunctionOnSet(OwnersWeigh(book, ws, s), OwnersWith(book, ws, s)) + OwnerUnits(after, next[w], s)
           = SumFunctionOnSet(OwnersWeigh(after, next, s), OwnersWith(after, next, s))
               + OwnerUnits(book, ws[w], s)
  BY <1>6, OwnersMove
<1>8. OwnerUnits(after, next[w], s) = 0
  BY <1>2, IdleOwnerIs
<1>9. OwnerUnits(book, ws[w], s) <= Returning(s)
  BY <1>1, <1>7, <1>8, ReturningIs
<1>10. Counted(s) <= sold[s] /\ sold[s] \in Nat
  BY StoreIs DEF SoldFits
<1>11. Counted(s) = InOrders(s) + InCheckouts(s) + Returning(s)
  BY DEF Counted
<1>12. InOrders(s) \in Nat /\ InCheckouts(s) \in Nat /\ Returning(s) \in Nat
  BY CountsAreNumbers
<1>13. OwnerUnits(orders, owners[w], s) <= Returning(s) /\ OwnerUnits(orders, owners[w], s) \in Nat
  BY <1>1, <1>9, OwnerUnitsAre
<1> QED
  BY <1>10, <1>11, <1>12, <1>13

LEMMA RestockFits ==
  ASSUME StoreInv, NEW w \in Owners, NEW s \in Skus, Restock(w, s)
  PROVE  StoreInv'
<1>1. /\ owners[w].at = "restock" /\ s \in owners[w].left
      /\ UNCHANGED <<stock, orders, checkouts, peak>>
      /\ owners[w] \in Owner /\ OwnerFits(w)
  BY StoreIs DEF Restock
<1>2. PICK o \in Orders : o = owners[w].order
  BY <1>1, StoreIs
<1>3. orders[o].items[s] \in Nat /\ orders[o].status # "none"
  BY <1>1, <1>2, StoreIs, QuantityIsNumber DEF Order, OwnerFits
<1>4. PICK left : left = owners[w].left \ {s}
  OBVIOUS
<1>5. PICK x : x = IF left = {} THEN IdleOwner ELSE [owners[w] EXCEPT !.left = left]
  OBVIOUS
<1>6. owners' = [owners EXCEPT ![w] = x]
  BY <1>4, <1>5, StoreIs DEF Restock
<1>7. /\ x \in Owner /\ x.left = left
      /\ x.at # "restock" => x.left = {}
      /\ x.at # "idle" => x.order = o /\ x.at = "restock"
      /\ x.left # {} => x.order = o
  <2>1. CASE left = {}
    BY <1>5, <2>1, IdleOwnerIs
  <2>2. CASE left # {}
    <3>1. left \in SUBSET Skus
      BY <1>1, <1>4 DEF Owner
    <3>2. x = [owners[w] EXCEPT !.left = left]
      BY <1>5, <2>2
    <3> QED
      BY <1>1, <1>2, <3>1, <3>2 DEF Owner
  <2> QED
    BY <2>1, <2>2
<1>8. /\ \A t \in Skus \ {s} : OwnerUnits(orders, x, t) = OwnerUnits(orders, owners[w], t)
      /\ OwnerUnits(orders, x, s) = 0
      /\ OwnerUnits(orders, owners[w], s) = IF s \in orders[o].reserved THEN orders[o].items[s] ELSE 0
  <2>1. \A t \in Skus \ {s} : t \in x.left <=> t \in owners[w].left
    BY <1>4, <1>7
  <2>2. s \notin x.left
    BY <1>4, <1>7
  <2>3. \A t \in x.left : x.order = owners[w].order
    BY <1>2, <1>7
  <2> QED
    BY <1>1, <1>2, <2>1, <2>2, <2>3 DEF OwnerUnits
<1>9. /\ \A t \in Skus : sold[t] \in Nat /\ OwnerUnits(orders, owners[w], t) \in Nat
      /\ sold \in [Skus -> Nat] /\ ledger \in {"exact", "leaky", "broken"}
  BY StoreIs, OwnerUnitsAre DEF StoreTypes
<1>10. /\ sold' \in [Skus -> Nat] /\ \A t \in Skus \ {s} : sold'[t] = sold[t]
       /\ sold'[s] <= sold[s] /\ sold'[s] \in Nat
       /\ ledger' \in {"exact", "leaky", "broken"} /\ (ledger' # "broken" => ledger # "broken")
       /\ ledger' = "exact" => ledger = "exact"
       /\ ledger' # "broken" => sold[s] <= sold'[s] + OwnerUnits(orders, owners[w], s)
       /\ ledger' = "exact" => sold'[s] + OwnerUnits(orders, owners[w], s) <= sold[s]
  <2>1. CASE /\ sold' = [sold EXCEPT ![s] = Less(@, orders[o].items[s])]
             /\ ledger' = IF s \notin orders[o].reserved THEN "broken" ELSE ledger
    <3>1. Less(sold[s], orders[o].items[s]) \in Nat /\ Less(sold[s], orders[o].items[s]) <= sold[s]
      BY <1>3, <1>9 DEF Less
    <3>2. sold' \in [Skus -> Nat] /\ \A t \in Skus \ {s} : sold'[t] = sold[t]
      BY <1>9, <2>1, <3>1
    <3>3. sold'[s] = Less(sold[s], orders[o].items[s])
      BY <1>9, <2>1
    <3>4. ledger' # "broken" =>
            ledger = ledger' /\ OwnerUnits(orders, owners[w], s) = orders[o].items[s]
      BY <1>8, <2>1
    <3>5. ledger' # "broken" => orders[o].items[s] <= sold[s]
      BY <3>4, ReturningIsSold
    <3>6. ledger' # "broken" => sold'[s] + orders[o].items[s] = sold[s]
      BY <1>3, <1>9, <3>3, <3>5 DEF Less
    <3>7. ledger' \in {"exact", "leaky", "broken"}
      BY <1>9, <2>1
    <3>8. sold'[s] <= sold[s] /\ sold'[s] \in Nat
      BY <3>1, <3>3
    <3>9. /\ ledger' # "broken" => sold[s] <= sold'[s] + OwnerUnits(orders, owners[w], s)
          /\ ledger' # "broken" => sold'[s] + OwnerUnits(orders, owners[w], s) <= sold[s]
      BY <1>9, <3>4, <3>6
    <3>10. ledger' = "exact" => ledger' # "broken"
      OBVIOUS
    <3> QED
      BY <3>2, <3>4, <3>7, <3>8, <3>9, <3>10
  <2>2. CASE /\ ledger' = IF s \in orders[o].reserved /\ ledger = "exact" THEN "leaky" ELSE ledger
             /\ sold' = sold
    <3>1. /\ ledger' \in {"exact", "leaky", "broken"} /\ (ledger' # "broken" => ledger # "broken")
          /\ ledger' = "exact" => ledger = "exact" /\ s \notin orders[o].reserved
      BY <1>9, <2>2
    <3>2. ledger' = "exact" => OwnerUnits(orders, owners[w], s) = 0
      BY <1>8, <3>1
    <3> QED
      BY <1>9, <2>2, <3>1, <3>2
  <2> QED
    BY <1>2, <2>1, <2>2 DEF Restock, Breaks, Leaks
<1>11. \A t \in Skus : sold'[t] <= sold[t]
  BY <1>9, <1>10
<1>12. ASSUME NEW t \in Skus
       PROVE  /\ ledger' # "broken" =>
                   sold[t] + OwnerUnits(orders, x, t) <= sold'[t] + OwnerUnits(orders, owners[w], t)
              /\ ledger' = "exact" =>
                   sold'[t] + OwnerUnits(orders, owners[w], t) <= sold[t] + OwnerUnits(orders, x, t)
  <2>1. CASE t = s
    BY <1>8, <1>9, <1>10, <2>1
  <2>2. CASE t # s
    BY <1>8, <1>9, <1>10, <2>2
  <2> QED
    BY <2>1, <2>2
<1>13. /\ x.at # "idle" => x.order \in Orders /\ orders[x.order].status # "none"
       /\ x.at = "update" => x.to # "none"
  BY <1>3, <1>7
<1> QED
  BY <1>1, <1>6, <1>7, <1>10, <1>11, <1>12, <1>13, OwnerMoves

-----------------------------------------------------------------------------
(* The steps of an order *)

\* A step that leaves what is sold, and what is counted, as it was.
LEMMA LedgerStays ==
  ASSUME StoreInv, UNCHANGED <<stock, sold, peak>>, Placed(checkouts') = Placed(checkouts),
         ledger' # "broken" => ledger # "broken", ledger' = "exact" => ledger = "exact",
         ledger' # "broken" => \A s \in Skus : Counted(s)' = Counted(s)
  PROVE  \A s \in Skus : SoldFits(s)'
<1>1. \A s \in Skus : SoldFits(s)
  BY StoreIs
<1> SUFFICES ASSUME NEW s \in Skus PROVE SoldFits(s)'
  OBVIOUS
<1>2. /\ sold'[s] <= peak'[s]
      /\ sold'[s] <= MaxQuantity * Cardinality(Placed(checkouts'))
      /\ stock'[s] # Untracked => stock'[s] <= peak'[s]
  BY <1>1 DEF SoldFits
<1>3. ledger' # "broken" => Counted(s)' <= sold'[s]
  BY <1>1 DEF SoldFits
<1>4. ledger' = "exact" => sold'[s] <= Counted(s)'
  <2>1. ledger' = "exact" => ledger' # "broken"
    OBVIOUS
  <2> QED
    BY <1>1, <2>1 DEF SoldFits
<1> QED
  BY <1>2, <1>3, <1>4 DEF SoldFits

LEMMA OrderRowMoves ==
  ASSUME StoreInv, NEW o \in Orders, NEW row \in Order, orders' = [orders EXCEPT ![o] = row],
         NEW s \in Skus
  PROVE  /\ InOrders(s) \in Nat /\ InOrders(s)' \in Nat
         /\ OrderUnits(orders[o], s) \in Nat /\ OrderUnits(row, s) \in Nat
         /\ InOrders(s) + OrderUnits(row, s) = InOrders(s)' + OrderUnits(orders[o], s)
<1>1. PICK book, after : book = orders /\ after = orders'
  OBVIOUS
<1>2. /\ book \in [Orders -> Order] /\ after \in [Orders -> Order] /\ after[o] = row
      /\ \A p \in Orders \ {o} : after[p] = book[p]
  BY <1>1, StoreIs
<1>3. /\ SumFunctionOnSet(OrdersWeigh(book, s), OrdersWith(book, s)) \in Nat
      /\ SumFunctionOnSet(OrdersWeigh(after, s), OrdersWith(after, s)) \in Nat
      /\ OrderUnits(book[o], s) \in Nat /\ OrderUnits(after[o], s) \in Nat
      /\ SumFunctionOnSet(OrdersWeigh(book, s), OrdersWith(book, s)) + OrderUnits(after[o], s)
           = SumFunctionOnSet(OrdersWeigh(after, s), OrdersWith(after, s)) + OrderUnits(book[o], s)
  BY <1>2, OrdersMove
<1> QED
  BY <1>1, <1>2, <1>3, InOrdersIs

\* Cancellations that are under way, and their orders, are as they were.
LEMMA ReturningStays ==
  ASSUME StoreInv, owners' = owners, NEW s \in Skus,
         \A w \in Owners : owners[w].left # {} =>
           /\ orders'[owners[w].order].items = orders[owners[w].order].items
           /\ orders'[owners[w].order].reserved = orders[owners[w].order].reserved
  PROVE  Returning(s)' = Returning(s)
<1>1. PICK S : S = OwnersWith(orders, owners, s)
  OBVIOUS
<1>2. OwnersWith(orders', owners', s) = S
  BY <1>1 DEF OwnersWith
<1>3. S \in SUBSET Owners /\ \A w \in S : owners[w].left # {}
  BY <1>1 DEF OwnersWith
<1>4. IsFiniteSet(S)
  BY <1>3, FS_Subset, StoreAssumption
<1>5. PICK f, g : f = OwnersWeigh(orders, owners, s) /\ g = OwnersWeigh(orders', owners', s)
  OBVIOUS
<1>6. \A w \in S : f[w] = g[w]
  BY <1>3, <1>5 DEF OwnersWeigh
<1>7. SumFunctionOnSet(f, S) = SumFunctionOnSet(g, S)
  BY <1>4, <1>6, SumSame
<1> QED
  BY <1>1, <1>2, <1>5, <1>7, ReturningIs

LEMMA InsertOrderFits ==
  ASSUME StoreInv, NEW o \in Orders, InsertOrder(o)
  PROVE  StoreInv'
<1>1. /\ checkouts[o].at = "insert" /\ UNCHANGED <<stock, sold, owners, peak, ledger>>
      /\ orders[o].status = "none" /\ checkouts[o] \in Checkout
  BY StoreIs DEF InsertOrder, CheckoutFits
<1>2. PICK row : row = [status |-> "open", items |-> checkouts[o].items,
                        reserved |-> Tracked(checkouts[o]), recent |-> TRUE]
  OBVIOUS
<1>3. /\ row \in Order /\ row.status = "open" /\ row.items = checkouts[o].items
      /\ row.reserved = Tracked(checkouts[o])
  <2>1. Tracked(checkouts[o]) \in SUBSET Skus
    BY DEF Tracked, Lines
  <2> QED
    BY <1>1, <1>2, <2>1 DEF Order, Checkout
<1>4. orders' = [orders EXCEPT ![o] = row]
  BY <1>2 DEF InsertOrder
<1>5. PICK c : c = [NewCheckout EXCEPT !.at = "over"]
  OBVIOUS
<1>6. checkouts' = [checkouts EXCEPT ![o] = c]
  BY <1>5 DEF InsertOrder, Over
<1>7. c \in Checkout /\ c.at = "over" /\ c.limits = NoItems /\ \A s : CheckoutUnits(c, s) = 0
  BY <1>5, OverIs
<1>8. /\ orders' \in [Orders -> Order] /\ orders'[o] = row
      /\ \A p \in Orders \ {o} : orders'[p] = orders[p]
      /\ checkouts' \in [Orders -> Checkout] /\ checkouts'[o] = c
      /\ \A p \in Orders \ {o} : checkouts'[p] = checkouts[p]
  BY <1>3, <1>4, <1>6, <1>7, StoreIs
<1>9. StoreTypes'
  BY <1>1, <1>8, StoreIs DEF StoreTypes
<1>10. ASSUME NEW p \in Orders PROVE CheckoutFits(p)'
  <2>1. CASE p = o
    BY <1>1, <1>7, <1>8, <2>1, NoItemsFit DEF CheckoutFits
  <2>2. CASE p # o
    BY <1>1, <1>8, <2>2, StoreIs DEF CheckoutFits
  <2> QED
    BY <2>1, <2>2
<1>11. ASSUME NEW w \in Owners PROVE OwnerFits(w)'
  <2>1. owners'[w] = owners[w] /\ OwnerFits(w)
    BY <1>1, StoreIs
  <2>2. \A p \in Orders : orders[p].status # "none" => orders'[p].status # "none"
    BY <1>3, <1>8
  <2> QED
    BY <2>1, <2>2 DEF OwnerFits
<1>12. ASSUME NEW w \in Owners, owners[w].left # {}
       PROVE  /\ orders'[owners[w].order].items = orders[owners[w].order].items
              /\ orders'[owners[w].order].reserved = orders[owners[w].order].reserved
  <2>1. owners[w].order \in Orders /\ owners[w].order # o
    BY <1>1, <1>12, StoreIs DEF OwnerFits
  <2> QED
    BY <1>8, <2>1
<1>13. ASSUME NEW s \in Skus PROVE Counted(s)' = Counted(s)
  <2>1. Returning(s)' = Returning(s)
    BY <1>1, <1>12, ReturningStays
  <2>2. /\ InOrders(s) \in Nat /\ InOrders(s)' \in Nat
        /\ OrderUnits(orders[o], s) \in Nat /\ OrderUnits(row, s) \in Nat
        /\ InOrders(s) + OrderUnits(row, s) = InOrders(s)' + OrderUnits(orders[o], s)
    BY <1>3, <1>4, OrderRowMoves
  <2>3. /\ InCheckouts(s) \in Nat /\ InCheckouts(s)' \in Nat
        /\ CheckoutUnits(checkouts[o], s) \in Nat /\ CheckoutUnits(c, s) \in Nat
        /\ InCheckouts(s) + CheckoutUnits(c, s) = InCheckouts(s)' + CheckoutUnits(checkouts[o], s)
    BY <1>6, <1>7, CheckoutRowMoves
  <2>4. /\ OrderUnits(orders[o], s) = 0 /\ CheckoutUnits(c, s) = 0
        /\ OrderUnits(row, s) = CheckoutUnits(checkouts[o], s)
    BY <1>1, <1>3, <1>7 DEF OrderUnits, CheckoutUnits
  <2>5. Returning(s) \in Nat
    BY CountsAreNumbers
  <2>6. InOrders(s)' + InCheckouts(s)' = InOrders(s) + InCheckouts(s)
    BY <2>2, <2>3, <2>4
  <2>7. /\ Counted(s) = InOrders(s) + InCheckouts(s) + Returning(s)
        /\ Counted(s)' = InOrders(s)' + InCheckouts(s)' + Returning(s)'
    BY DEF Counted
  <2> QED
    BY <2>1, <2>6, <2>7
<1>14. Placed(checkouts') = Placed(checkouts)
  BY <1>1, <1>6, <1>7, PlacedSame
<1>15. \A s \in Skus : SoldFits(s)'
  BY <1>1, <1>13, <1>14, LedgerStays
<1> QED
  BY <1>9, <1>10, <1>11, <1>15 DEF StoreInv

LEMMA TenMinutesPassFits ==
  ASSUME StoreInv, NEW o \in Orders, TenMinutesPass(o)
  PROVE  StoreInv'
<1>1. UNCHANGED <<stock, sold, checkouts, owners, peak, ledger>>
  BY DEF TenMinutesPass
<1>2. PICK row : row = [orders[o] EXCEPT !.recent = FALSE]
  OBVIOUS
<1>3. /\ row \in Order /\ row.status = orders[o].status /\ row.items = orders[o].items
      /\ row.reserved = orders[o].reserved
  BY <1>2, StoreIs DEF Order
<1>4. orders' = [orders EXCEPT ![o] = row]
  BY <1>2, StoreIs DEF TenMinutesPass
<1>5. /\ orders' \in [Orders -> Order]
      /\ \A p \in Orders : /\ orders'[p].status = orders[p].status /\ orders'[p].items = orders[p].items
                           /\ orders'[p].reserved = orders[p].reserved
  BY <1>3, <1>4, StoreIs
<1>6. StoreTypes'
  BY <1>1, <1>5, StoreIs DEF StoreTypes
<1>7. ASSUME NEW p \in Orders PROVE CheckoutFits(p)'
  BY <1>1, <1>5, StoreIs DEF CheckoutFits
<1>8. ASSUME NEW w \in Owners PROVE OwnerFits(w)'
  BY <1>1, <1>5, StoreIs DEF OwnerFits
<1>9. ASSUME NEW s \in Skus PROVE Counted(s)' = Counted(s)
  <2>1. Returning(s)' = Returning(s)
    BY <1>1, <1>5, ReturningStays, StoreIs
  <2>2. InCheckouts(s)' = InCheckouts(s)
    BY <1>1, InCheckoutsIs
  <2>3. /\ InOrders(s) \in Nat /\ InOrders(s)' \in Nat
        /\ OrderUnits(orders[o], s) \in Nat /\ OrderUnits(row, s) \in Nat
        /\ InOrders(s) + OrderUnits(row, s) = InOrders(s)' + OrderUnits(orders[o], s)
    BY <1>3, <1>4, OrderRowMoves
  <2>4. OrderUnits(row, s) = OrderUnits(orders[o], s)
    BY <1>3 DEF OrderUnits
  <2>5. InOrders(s)' = InOrders(s)
    BY <2>3, <2>4
  <2> QED
    BY <2>1, <2>2, <2>5 DEF Counted
<1>10. \A s \in Skus : SoldFits(s)'
  BY <1>1, <1>9, LedgerStays
<1> QED
  BY <1>6, <1>7, <1>8, <1>10 DEF StoreInv

\* A cancelled order's units are counted as returning until they are given back.
LEMMA UpdateMovesUnits ==
  ASSUME StoreInv, NEW w \in Owners, NEW o \in Orders, o = owners[w].order,
         owners[w].at = "update", owners[w].to # "none",
         NEW row, row.status = owners[w].to, row.items = orders[o].items,
         row.reserved = orders[o].reserved,
         NEW x, Restocks(w) => x.left = Lines(orders[o].items) /\ x.order = o,
         ~ Restocks(w) => x.left = {},
         ~ (orders[o].status = "cancelled" /\ owners[w].to = "open"),
         ~ (orders[o].status # owners[w].previous /\ owners[w].to = "cancelled"),
         NEW after, after[o] = row, NEW s \in Skus
  PROVE  /\ OwnerUnits(orders, owners[w], s) = 0
         /\ OrderUnits(row, s) + OwnerUnits(after, x, s) = OrderUnits(orders[o], s)
<1>1. /\ owners[w] \in Owner /\ orders[o] \in Order /\ OwnerFits(w)
      /\ orders[o].items[s] \in Nat
  BY StoreIs, QuantityIsNumber DEF Order
<1>2. /\ row.status = owners[w].to /\ row.items = orders[o].items /\ row.reserved = orders[o].reserved
  OBVIOUS
<1>3. OwnerUnits(orders, owners[w], s) = 0
  BY <1>1 DEF OwnerUnits, OwnerFits
<1>4. orders[o].status \in {"open", "cancelled"} /\ owners[w].to \in {"open", "cancelled"}
  BY <1>1 DEF OwnerFits, Order, Owner
<1>5. CASE owners[w].to = "open"
  <2>1. orders[o].status = "open" /\ x.left = {}
    BY <1>4, <1>5 DEF Restocks
  <2>2. OwnerUnits(after, x, s) = 0
    BY <2>1 DEF OwnerUnits
  <2>3. OrderUnits(row, s) = OrderUnits(orders[o], s) /\ OrderUnits(row, s) \in Nat
    BY <1>1, <1>2, <1>5, <2>1 DEF OrderUnits
  <2> QED
    BY <1>3, <2>2, <2>3
<1>6. CASE owners[w].to = "cancelled" /\ orders[o].status = "cancelled"
  <2>1. x.left = {}
    BY <1>6 DEF Restocks
  <2>2. OwnerUnits(after, x, s) = 0
    BY <2>1 DEF OwnerUnits
  <2>3. OrderUnits(row, s) = 0 /\ OrderUnits(orders[o], s) = 0
    BY <1>2, <1>6 DEF OrderUnits
  <2> QED
    BY <1>3, <2>2, <2>3
<1>7. CASE owners[w].to = "cancelled" /\ orders[o].status = "open"
  <2>1. x.left = Lines(orders[o].items) /\ x.order = o
    BY <1>7 DEF Restocks
  <2>2. after[x.order].reserved = orders[o].reserved /\ after[x.order].items = orders[o].items
    BY <1>2, <2>1
  <2>3. OwnerUnits(after, x, s) = IF s \in Lines(orders[o].items) /\ s \in orders[o].reserved
                                  THEN orders[o].items[s] ELSE 0
    BY <2>1, <2>2 DEF OwnerUnits
  <2>4. s \notin Lines(orders[o].items) => orders[o].items[s] = 0
    BY <1>1 DEF Lines
  <2>5. OrderUnits(row, s) = 0
    BY <1>2, <1>7 DEF OrderUnits
  <2>6. OrderUnits(orders[o], s) = IF s \in orders[o].reserved THEN orders[o].items[s] ELSE 0
    BY <1>7 DEF OrderUnits
  <2>7. OwnerUnits(after, x, s) = OrderUnits(orders[o], s) /\ OrderUnits(orders[o], s) \in Nat
    BY <1>1, <2>3, <2>4, <2>6
  <2> QED
    BY <1>3, <2>5, <2>7
<1> QED
  BY <1>4, <1>5, <1>6, <1>7

LEMMA UpdateOrderFits ==
  ASSUME StoreInv, NEW w \in Owners, UpdateOrder(w)
  PROVE  StoreInv'
<1>1. /\ owners[w].at = "update" /\ UNCHANGED <<stock, sold, checkouts, peak>>
      /\ owners[w] \in Owner /\ OwnerFits(w)
  BY StoreIs DEF UpdateOrder
<1>2. PICK o \in Orders : o = owners[w].order
  BY <1>1 DEF OwnerFits
<1>3. /\ orders[o].status # "none" /\ owners[w].to # "none" /\ orders[o] \in Order
      /\ owners[w].to \in {"open", "cancelled"}
  BY <1>1, <1>2, StoreIs DEF OwnerFits, Owner
<1>4. PICK row : row = [orders[o] EXCEPT !.status = owners[w].to]
  OBVIOUS
<1>5. /\ row \in Order /\ row.status = owners[w].to /\ row.items = orders[o].items
      /\ row.reserved = orders[o].reserved
  BY <1>3, <1>4 DEF Order
<1>6. orders' = [orders EXCEPT ![o] = row]
  BY <1>2, <1>4, StoreIs DEF UpdateOrder
<1>7. PICK x : x = IF Restocks(w) THEN [owners[w] EXCEPT !.at = "restock", !.left = Lines(orders[o].items)]
                   ELSE IdleOwner
  OBVIOUS
<1>8. owners' = [owners EXCEPT ![w] = x]
  BY <1>2, <1>7, StoreIs DEF UpdateOrder
<1>9. /\ x \in Owner /\ x.at \in {"restock", "idle"}
      /\ x.at # "restock" => x.left = {}
      /\ x.at # "idle" => x.order = o
      /\ Restocks(w) => x.left = Lines(orders[o].items) /\ x.order = o
      /\ ~ Restocks(w) => x.left = {}
  <2>1. CASE Restocks(w)
    <3>1. x = [owners[w] EXCEPT !.at = "restock", !.left = Lines(orders[o].items)]
      BY <1>7, <2>1
    <3>2. Lines(orders[o].items) \in SUBSET Skus
      BY DEF Lines
    <3>3. x \in Owner
      BY <1>1, <3>1, <3>2 DEF Owner
    <3>4. x.at = "restock" /\ x.left = Lines(orders[o].items) /\ x.order = owners[w].order
      BY <1>1, <3>1 DEF Owner
    <3> QED
      BY <1>2, <2>1, <3>3, <3>4
  <2>2. CASE ~ Restocks(w)
    BY <1>7, <2>2, IdleOwnerIs
  <2> QED
    BY <2>1, <2>2
<1>10. /\ orders' \in [Orders -> Order] /\ orders'[o] = row
       /\ \A p \in Orders \ {o} : orders'[p] = orders[p]
       /\ owners' \in [Owners -> Owner] /\ owners'[w] = x
       /\ \A u \in Owners \ {w} : owners'[u] = owners[u]
  BY <1>5, <1>6, <1>8, <1>9, StoreIs
<1>11. \A p \in Orders : /\ orders'[p].items = orders[p].items /\ orders'[p].reserved = orders[p].reserved
                         /\ orders'[p].status = "none" <=> orders[p].status = "none"
  BY <1>3, <1>5, <1>10
<1>12. /\ ledger' = IF \/ orders[o].status = "cancelled" /\ owners[w].to = "open"
                       \/ orders[o].status # owners[w].previous /\ owners[w].to = "cancelled"
                    THEN "broken" ELSE ledger
       /\ ledger \in {"exact", "leaky", "broken"}
  BY <1>2, StoreIs DEF UpdateOrder, Breaks, StoreTypes
<1>13. StoreTypes'
  BY <1>1, <1>10, <1>12, StoreIs DEF StoreTypes
<1>14. ASSUME NEW p \in Orders PROVE CheckoutFits(p)'
  BY <1>1, <1>11, StoreIs DEF CheckoutFits
<1>15. ASSUME NEW u \in Owners PROVE OwnerFits(u)'
  <2>1. CASE u = w
    BY <1>3, <1>9, <1>10, <1>11, <2>1 DEF OwnerFits
  <2>2. CASE u # w
    BY <1>10, <1>11, <2>2, StoreIs DEF OwnerFits
  <2> QED
    BY <2>1, <2>2
<1>16. ASSUME NEW s \in Skus, ledger' # "broken" PROVE Counted(s)' = Counted(s)
  <2>1. InCheckouts(s)' = InCheckouts(s)
    BY <1>1, InCheckoutsIs
  <2>2. /\ InOrders(s) \in Nat /\ InOrders(s)' \in Nat
        /\ OrderUnits(orders[o], s) \in Nat /\ OrderUnits(row, s) \in Nat
        /\ InOrders(s) + OrderUnits(row, s) = InOrders(s)' + OrderUnits(orders[o], s)
    BY <1>5, <1>6, OrderRowMoves
  <2>3. PICK book, after, ws, next : book = orders /\ after = orders' /\ ws = owners /\ next = owners'
    OBVIOUS
  <2>4. OnlyMoves(book, after, ws, next, w)
    <3>1. /\ book \in [Orders -> Order] /\ after \in [Orders -> Order]
          /\ \A u \in Owners \ {w} : next[u] = ws[u]
          /\ \A u \in Owners : ws[u].left # {} => ws[u].order \in Orders
      BY <1>10, <2>3, StoreIs
    <3>2. \A u \in Owners : next[u].left # {} => next[u].order \in Orders
      BY <1>15, <2>3 DEF OwnerFits
    <3>3. \A u \in Owners \ {w} : ws[u].left # {} =>
            /\ after[ws[u].order].items = book[ws[u].order].items
            /\ after[ws[u].order].reserved = book[ws[u].order].reserved
      BY <1>11, <2>3, <3>1
    <3> QED
      BY <3>1, <3>2, <3>3 DEF OnlyMoves
  <2>14. s \in Skus /\ w \in Owners
    BY <1>1, <1>16
  <2>5. /\ SumFunctionOnSet(OwnersWeigh(book, ws, s), OwnersWith(book, ws, s)) \in Nat
        /\ SumFunctionOnSet(OwnersWeigh(after, next, s), OwnersWith(after, next, s)) \in Nat
        /\ OwnerUnits(book, ws[w], s) \in Nat /\ OwnerUnits(after, next[w], s) \in Nat
        /\ SumFunctionOnSet(OwnersWeigh(book, ws, s), OwnersWith(book, ws, s)) + OwnerUnits(after, next[w], s)
             = SumFunctionOnSet(OwnersWeigh(after, next, s), OwnersWith(after, next, s))
                 + OwnerUnits(book, ws[w], s)
    BY ONLY <2>4, <2>14, OwnersMove
  <2>6. /\ Returning(s) \in Nat /\ Returning(s)' \in Nat /\ OwnerUnits(after, x, s) \in Nat
        /\ Returning(s) + OwnerUnits(after, x, s) = Returning(s)' + OwnerUnits(orders, owners[w], s)
    BY <1>10, <2>3, <2>5, ReturningIs
  <2>7. /\ ~ (orders[o].status = "cancelled" /\ owners[w].to = "open")
        /\ ~ (orders[o].status # owners[w].previous /\ owners[w].to = "cancelled")
    BY <1>12, <1>16
  <2>8. /\ OwnerUnits(orders, owners[w], s) = 0
        /\ OrderUnits(row, s) + OwnerUnits(after, x, s) = OrderUnits(orders[o], s)
    <3>1. after[o] = row
      BY <1>10, <2>3
    <3>2. /\ Restocks(w) => x.left = Lines(orders[o].items) /\ x.order = o
          /\ ~ Restocks(w) => x.left = {}
      BY <1>9
    <3> QED
      BY <1>1, <1>2, <1>3, <1>5, <2>7, <3>1, <3>2, UpdateMovesUnits
  <2>9. InCheckouts(s) \in Nat
    BY CountsAreNumbers
  <2>10. InOrders(s)' + Returning(s)' = InOrders(s) + Returning(s)
    BY <2>2, <2>6, <2>8
  <2>11. /\ Counted(s) = InOrders(s) + InCheckouts(s) + Returning(s)
         /\ Counted(s)' = InOrders(s)' + InCheckouts(s)' + Returning(s)'
    BY DEF Counted
  <2> QED
    BY <2>1, <2>2, <2>6, <2>9, <2>10, <2>11
<1>17. \A s \in Skus : SoldFits(s)'
  <2>1. Placed(checkouts') = Placed(checkouts)
    BY <1>1
  <2>2. (ledger' # "broken" => ledger # "broken") /\ (ledger' = "exact" => ledger = "exact")
    BY <1>12
  <2> QED
    BY <1>1, <1>16, <2>1, <2>2, LedgerStays
<1> QED
  BY <1>13, <1>14, <1>15, <1>17 DEF StoreInv

-----------------------------------------------------------------------------
(* The steps of the ledger and of the site *)

LEMMA ResetInventoryFits == ASSUME StoreInv, ResetInventory PROVE StoreInv'
<1>1. /\ UNCHANGED <<stock, orders, checkouts, owners, peak>> /\ sold' = NoItems /\ ledger' = "broken"
  BY DEF ResetInventory, Breaks
<1>2. \A s \in Skus : sold'[s] = 0
  BY <1>1 DEF NoItems
<1>3. StoreTypes'
  BY <1>1, StoreIs DEF StoreTypes, NoItems
<1>4. ASSUME NEW o \in Orders PROVE CheckoutFits(o)'
  BY <1>1, StoreIs DEF CheckoutFits
<1>5. ASSUME NEW w \in Owners PROVE OwnerFits(w)'
  BY <1>1, StoreIs DEF OwnerFits
<1>6. ASSUME NEW s \in Skus PROVE SoldFits(s)'
  <2>1. stock'[s] # Untracked => stock'[s] <= peak'[s]
    BY <1>1, StoreIs DEF SoldFits
  <2>2. sold'[s] <= peak'[s]
    BY <1>1, <1>2, StoreIs
  <2>3. sold'[s] <= MaxQuantity * Cardinality(Placed(checkouts'))
    <3>1. PICK n \in Nat : n = Cardinality(Placed(checkouts'))
      BY PlacedIs
    <3>2. MaxQuantity * n \in Nat
      BY StoreAssumption
    <3> QED
      BY <1>2, <3>1, <3>2
  <2> QED
    BY <1>1, <2>1, <2>2, <2>3 DEF SoldFits
<1> QED
  BY <1>3, <1>4, <1>5, <1>6 DEF StoreInv

LEMMA RepublishFits ==
  ASSUME StoreInv, NEW s \in Skus, NEW n \in Published, Republish(s, n)
  PROVE  StoreInv'
<1>1. /\ UNCHANGED <<sold, orders, checkouts, owners, ledger>>
      /\ stock' = [stock EXCEPT ![s] = n]
      /\ peak' = [peak EXCEPT ![s] = IF n # Untracked /\ n > @ THEN n ELSE @]
  BY DEF Republish
<1>2. stock \in [Skus -> Published] /\ peak \in [Skus -> Stocks] /\ (n # Untracked => n \in Stocks)
  BY StoreIs DEF StoreTypes, Published
<1>3. stock' \in [Skus -> Published] /\ peak' \in [Skus -> Stocks]
  BY <1>1, <1>2
<1>4. ASSUME NEW t \in Skus PROVE peak[t] <= peak'[t] /\ peak[t] \in Nat /\ peak'[t] \in Nat
  <2>1. peak[t] \in Nat /\ (n # Untracked => n \in Nat)
    BY <1>2, StoreAssumption
  <2>2. peak'[t] = peak[t] \/ (peak'[t] = n /\ n # Untracked /\ n > peak[t])
    BY <1>1, <1>2
  <2> QED
    BY <2>1, <2>2
<1>5. StoreTypes'
  BY <1>1, <1>3, StoreIs DEF StoreTypes
<1>6. ASSUME NEW o \in Orders PROVE CheckoutFits(o)'
  <2>1. CheckoutFits(o) /\ checkouts[o] \in Checkout
    BY StoreIs
  <2>2. ASSUME NEW t \in Skus PROVE checkouts[o].limits[t] # Untracked => checkouts[o].limits[t] \in Nat
    <3>1. PICK limit : limit = checkouts[o].limits[t]
      OBVIOUS
    <3>2. limit \in Stocks \/ limit = Untracked \/ limit = 0
      BY <2>1, <3>1 DEF Checkout, Published
    <3>3. limit \in Stocks => limit \in Nat
      BY StoreAssumption
    <3> QED
      BY <3>1, <3>2, <3>3
  <2>3. \A t \in Skus : checkouts[o].limits[t] # Untracked => checkouts[o].limits[t] <= peak'[t]
    BY <1>4, <2>1, <2>2 DEF CheckoutFits
  <2> QED
    BY <1>1, <2>1, <2>3 DEF CheckoutFits
<1>7. ASSUME NEW w \in Owners PROVE OwnerFits(w)'
  BY <1>1, StoreIs DEF OwnerFits
<1>8. ASSUME NEW t \in Skus PROVE SoldFits(t)'
  <2>1. Counted(t)' = Counted(t)
    BY <1>1, InOrdersIs, InCheckoutsIs, ReturningIs DEF Counted
  <2>2. SoldFits(t) /\ sold[t] \in Nat
    BY StoreIs
  <2>3. stock'[t] # Untracked => stock'[t] <= peak'[t]
    <3>1. CASE t = s
      <4>1. n # Untracked => n \in Nat
        BY <1>2, StoreAssumption
      <4> QED
        BY <1>1, <1>2, <1>4, <3>1, <4>1
    <3>2. CASE t # s
      <4>1. stock'[t] = stock[t] /\ peak'[t] = peak[t]
        BY <1>1, <1>2, <3>2
      <4> QED
        BY <2>2, <4>1 DEF SoldFits
    <3> QED
      BY <3>1, <3>2
  <2>4. sold'[t] <= peak'[t]
    BY <1>1, <1>4, <2>2 DEF SoldFits
  <2> QED
    BY <1>1, <2>1, <2>2, <2>3, <2>4 DEF SoldFits
<1> QED
  BY <1>5, <1>6, <1>7, <1>8 DEF StoreInv

-----------------------------------------------------------------------------
(* The theorem *)

LEMMA NextStoreInv == StoreInv /\ [StoreNext]_storeVars => StoreInv'
<1> SUFFICES ASSUME StoreInv, [StoreNext]_storeVars PROVE StoreInv'
  OBVIOUS
<1>1. CASE UNCHANGED storeVars
  <2>1. UNCHANGED <<stock, sold, orders, checkouts, owners, peak, ledger>>
    BY <1>1 DEF storeVars
  <2>2. \A s : Counted(s)' = Counted(s)
    BY <2>1, InOrdersIs, InCheckoutsIs, ReturningIs DEF Counted
  <2> QED
    BY <2>1, <2>2 DEF StoreInv, StoreTypes, CheckoutFits, OwnerFits, SoldFits, Placed
<1>2. ASSUME NEW o \in Orders,
             \/ BeginCheckout(o) \/ Reserve(o) \/ CheckRate(o) \/ InsertOrder(o)
             \/ AbandonCheckout(o) \/ TenMinutesPass(o)
      PROVE  StoreInv'
  BY <1>2, BeginCheckoutFits, ReserveFits, CheckRateFits, InsertOrderFits, AbandonCheckoutFits,
     TenMinutesPassFits
<1>3. ASSUME NEW w \in Owners,
             \/ \E o \in Orders : ReadOrder(w, o)
             \/ UpdateOrder(w) \/ AbandonMutation(w)
             \/ \E s \in Skus : Restock(w, s)
      PROVE  StoreInv'
  BY <1>3, ReadOrderFits, UpdateOrderFits, AbandonMutationFits, RestockFits
<1>4. CASE ResetInventory
  BY <1>4, ResetInventoryFits
<1>5. ASSUME NEW s \in Skus, NEW n \in Published, Republish(s, n) PROVE StoreInv'
  BY <1>5, RepublishFits
<1> QED
  BY <1>1, <1>2, <1>3, <1>4, <1>5 DEF StoreNext

LEMMA StoreInvIsSafe == ASSUME StoreInv PROVE StoreSafe
<1>1. StoreTypeOK
  <2>1. ASSUME NEW s \in Skus PROVE sold[s] \in 0 .. MaxQuantity * Cardinality(Orders)
    <3>1. PICK a, b : a = Cardinality(Placed(checkouts)) /\ b = Cardinality(Orders)
      OBVIOUS
    <3>2. a \in Nat /\ b \in Nat /\ a <= b
      BY <3>1, PlacedIs
    <3>3. MaxQuantity * a \in Nat /\ MaxQuantity * b \in Nat /\ MaxQuantity * a <= MaxQuantity * b
      BY <3>2, Scales, StoreAssumption
    <3>4. sold[s] \in Nat /\ sold[s] <= MaxQuantity * a
      BY <3>1, StoreIs DEF SoldFits
    <3>5. sold[s] \in 0 .. MaxQuantity * b
      BY <3>3, <3>4
    <3> QED
      BY <3>1, <3>5
  <2>2. sold \in [Skus -> 0 .. MaxQuantity * Cardinality(Orders)]
    BY <2>1, StoreIs DEF StoreTypes
  <2> QED
    BY <2>2, StoreIs DEF StoreTypeOK, StoreTypes
<1>2. ASSUME NEW s \in Skus, ledger # "broken" PROVE InOrders(s) <= peak[s] /\ Counted(s) <= sold[s]
  <2>1. Counted(s) <= sold[s] /\ sold[s] <= peak[s] /\ sold[s] \in Nat /\ peak[s] \in Nat
    BY <1>2, StoreIs DEF SoldFits
  <2>2. Counted(s) = InOrders(s) + InCheckouts(s) + Returning(s)
    BY DEF Counted
  <2> QED
    BY <2>1, <2>2, CountsAreNumbers
<1>3. ASSUME NEW s \in Skus, ledger = "exact" PROVE sold[s] <= Counted(s)
  BY <1>3, StoreIs DEF SoldFits
<1> QED
  BY <1>1, <1>2, <1>3 DEF StoreSafe, NeverOversells, LedgerCovers, LedgerReturns, Counted

\* No interleaving of checkouts, of cancellations and of publications of the site sells more
\* of a product than was published, gives a unit back twice or loses one, unless the ledger
\* says so (createWebsiteOrder, mutateWebsiteAdmin, website_reserve_order_stock).
THEOREM StoreIsSafe == StoreSpec => []StoreSafe
<1>1. StoreInv => StoreSafe
  BY StoreInvIsSafe
<1> QED
  BY <1>1, InitStoreInv, NextStoreInv, PTL DEF StoreSpec

-----------------------------------------------------------------------------
(* GoogleConnections *)

(* The inductive invariant *)

\* One call at a time sends under a key.
SentAlone ==
  \A c, d \in Calls :
    calls[c].at = "send" /\ calls[d].at = "send" /\ calls[c].operation = calls[d].operation
      => c = d

\* What was appended and not forgotten keeps its key from being claimed again.
Remembered ==
  \A c \in rows :
    calls[c].operation \notin misread => Known(c) /\ Mine(c).status # "pending"

\* A completed claim was claimed with what was appended.
CompletedIsAppended ==
  \A o \in DOMAIN operations :
    operations[o].status = "completed" =>
      \E d \in rows : calls[d].operation = o /\ calls[d].body = operations[o].body

\* Only health checks list and mark, only revocations withdraw and clear.
KindsFit ==
  \A c \in Calls :
    /\ calls[c].at \in {"list", "mark"} => calls[c].kind = "health"
    /\ calls[c].at \in {"withdraw", "clear"} => calls[c].kind = "revoke"

GoogleInv ==
  /\ GoogleTypeOK
  /\ KindsFit
  /\ RevokedIsCleared
  /\ SentAlone
  /\ Remembered
  /\ CompletedIsAppended
  /\ AppendedOnce
  /\ AnsweredIsAppended

LEMMA GoogleInitInv == GoogleInit => GoogleInv
<1> SUFFICES ASSUME GoogleInit PROVE GoogleInv
  OBVIOUS
<1>1. GoogleTypeOK
  BY DEF GoogleInit, GoogleTypeOK, Connection, Statuses, Call, Known, Mine
<1>2. KindsFit /\ RevokedIsCleared /\ SentAlone /\ Remembered /\ CompletedIsAppended /\ AppendedOnce
  BY DEF GoogleInit, KindsFit, RevokedIsCleared, SentAlone, Remembered, CompletedIsAppended, AppendedOnce,
         Call
<1>3. AnsweredIsAppended
  BY DEF GoogleInit, AnsweredIsAppended, Call
<1> QED
  BY <1>1, <1>2, <1>3 DEF GoogleInv

-----------------------------------------------------------------------------
(* Steps that move one call and neither append nor claim *)

\* A call moves on: it keeps what it was asked for, and it does not start to send, nor does
\* an append answer with a result.
CallMoves(c) ==
  /\ calls' \in [Calls -> Call]
  /\ \A d \in Calls :
       /\ calls'[d].kind = calls[d].kind
       /\ calls'[d].operation = calls[d].operation
       /\ calls'[d].body = calls[d].body
       /\ calls'[d].at = "send" => calls[d].at = "send"
       /\ calls'[d].at = "done" => calls[d].at = "done" \/ calls[d].kind # "append"
  /\ KindsFit'

LEMMA AtMoves ==
  ASSUME GoogleInv, NEW c \in Calls, NEW x \in Call,
         x.kind = calls[c].kind, x.operation = calls[c].operation, x.body = calls[c].body,
         x.at # "send", x.at # "done" \/ calls[c].kind # "append",
         x.at \in {"list", "mark"} => calls[c].kind = "health",
         x.at \in {"withdraw", "clear"} => calls[c].kind = "revoke",
         calls' = [calls EXCEPT ![c] = x]
  PROVE  CallMoves(c)
BY DEF GoogleInv, GoogleTypeOK, KindsFit, CallMoves

LEMMA MovedKeeps ==
  ASSUME GoogleInv, NEW c \in Calls, CallMoves(c), UNCHANGED <<operations, rows, misread>>
  PROVE  /\ SentAlone' /\ Remembered' /\ CompletedIsAppended' /\ AppendedOnce'
         /\ AnsweredIsAppended'
         /\ \A d \in Calls :
              calls'[d].at = "send" =>
                Known(d)' /\ Mine(d)' = [body |-> calls'[d].body, status |-> "pending"]
<1>1. \A d \in rows : d \in Calls
  BY DEF GoogleInv, GoogleTypeOK
<1>2. SentAlone'
  BY DEF GoogleInv, SentAlone, CallMoves
<1>3. Remembered'
  BY <1>1 DEF GoogleInv, Remembered, CallMoves, Known, Mine
<1>4. CompletedIsAppended'
  BY <1>1 DEF GoogleInv, CompletedIsAppended, CallMoves
<1>5. AppendedOnce'
  BY <1>1 DEF GoogleInv, AppendedOnce, CallMoves
<1>6. AnsweredIsAppended'
  BY <1>1 DEF GoogleInv, AnsweredIsAppended, CallMoves
<1>7. ASSUME NEW d \in Calls, calls'[d].at = "send"
      PROVE  Known(d)' /\ Mine(d)' = [body |-> calls'[d].body, status |-> "pending"]
  BY <1>7 DEF GoogleInv, GoogleTypeOK, CallMoves, Known, Mine
<1> QED
  BY <1>2, <1>3, <1>4, <1>5, <1>6, <1>7

LEMMA TypeMoves ==
  ASSUME GoogleInv, NEW c \in Calls, CallMoves(c), UNCHANGED <<operations, rows, misread>>,
         connection' \in Connection, granted' \in BOOLEAN, revoked' \in BOOLEAN,
         renewed' \in BOOLEAN, RevokedIsCleared'
  PROVE  GoogleInv'
<1>1. GoogleTypeOK'
  BY MovedKeeps DEF GoogleInv, GoogleTypeOK, CallMoves
<1>2. KindsFit'
  BY DEF CallMoves
<1> QED
  BY <1>1, <1>2, MovedKeeps DEF GoogleInv

\* A step that leaves the row alone.
LEMMA RowKept ==
  ASSUME GoogleInv, NEW c \in Calls, CallMoves(c),
         UNCHANGED <<connection, operations, rows, revoked, renewed, misread>>,
         granted' \in BOOLEAN
  PROVE  GoogleInv'
<1>1. /\ connection' \in Connection /\ revoked' \in BOOLEAN /\ renewed' \in BOOLEAN
      /\ RevokedIsCleared'
  BY DEF GoogleInv, GoogleTypeOK, RevokedIsCleared
<1> QED
  BY <1>1, TypeMoves

LEMMA FailsMoves ==
  ASSUME GoogleInv, NEW c \in Calls, NEW verdict \in Statuses, Fails(c, verdict)
  PROVE  CallMoves(c)
<1>1. calls[c] \in Call
  BY DEF GoogleInv, GoogleTypeOK
<1> DEFINE x == [calls[c] EXCEPT !.at = IF calls[c].kind = "health" THEN "mark" ELSE "failed",
                                 !.verdict = verdict, !.renews = FALSE]
<1>2. x \in Call /\ calls' = [calls EXCEPT ![c] = x]
  BY <1>1 DEF Fails, Call, GoogleInv, GoogleTypeOK
<1>3. /\ x.kind = calls[c].kind /\ x.operation = calls[c].operation /\ x.body = calls[c].body
      /\ x.at = IF calls[c].kind = "health" THEN "mark" ELSE "failed"
  BY <1>1 DEF Call
<1> HIDE DEF x
<1>4. x.at \in {"mark", "failed"} /\ (x.at = "mark" => calls[c].kind = "health")
  BY <1>3
<1> QED
  BY <1>2, <1>3, <1>4, AtMoves

LEMMA ProceedsMoves ==
  ASSUME GoogleInv, NEW c \in Calls, Proceeds(c)
  PROVE  CallMoves(c)
<1>1. calls[c] \in Call
  BY DEF GoogleInv, GoogleTypeOK
<1> DEFINE x == [calls[c] EXCEPT !.at = IF calls[c].kind = "health" THEN "list" ELSE "claim",
                                 !.renews = FALSE]
<1>2. x \in Call /\ calls' = [calls EXCEPT ![c] = x]
  BY <1>1 DEF Proceeds, Call, GoogleInv, GoogleTypeOK
<1>3. /\ x.kind = calls[c].kind /\ x.operation = calls[c].operation /\ x.body = calls[c].body
      /\ x.at = IF calls[c].kind = "health" THEN "list" ELSE "claim"
  BY <1>1 DEF Call
<1> HIDE DEF x
<1>4. x.at \in {"list", "claim"} /\ (x.at = "list" => calls[c].kind = "health")
  BY <1>3
<1> QED
  BY <1>2, <1>3, <1>4, AtMoves

LEMMA ContinuesMoves ==
  ASSUME GoogleInv, NEW c \in Calls,
         NEW at \in {"refresh", "store", "list", "mark", "withdraw", "clear", "claim", "done", "failed"},
         at # "done" \/ calls[c].kind # "append",
         at \in {"list", "mark"} => calls[c].kind = "health",
         at \in {"withdraw", "clear"} => calls[c].kind = "revoke",
         NEW renews \in BOOLEAN, NEW verdict \in Statuses,
         \/ Continues(c, at)
         \/ calls' = [calls EXCEPT ![c].at = at, ![c].renews = renews]
         \/ calls' = [calls EXCEPT ![c].at = at, ![c].verdict = verdict]
         \/ calls' = [calls EXCEPT ![c].verdict = verdict] /\ calls[c].at = at
  PROVE  CallMoves(c)
<1>1. calls[c] \in Call
  BY DEF GoogleInv, GoogleTypeOK
<1>2. calls \in [Calls -> Call]
  BY DEF GoogleInv, GoogleTypeOK
<1>3. calls'[c] \in Call /\ calls' = [calls EXCEPT ![c] = calls'[c]]
  BY <1>1, <1>2 DEF Continues, Call
<1>4. /\ calls'[c].kind = calls[c].kind /\ calls'[c].operation = calls[c].operation
      /\ calls'[c].body = calls[c].body /\ calls'[c].at = at
  BY <1>1, <1>2 DEF Continues, Call
<1> QED
  BY <1>3, <1>4, AtMoves

-----------------------------------------------------------------------------
(* The actions *)

LEMMA ReadConnectionKeeps == ASSUME GoogleInv, NEW c \in Calls, ReadConnection(c) PROVE GoogleInv'
<1>1. CallMoves(c)
  <2>1. CASE Fails(c, "error")
    BY <2>1, FailsMoves DEF Statuses
  <2>2. CASE Fails(c, "expired")
    BY <2>2, FailsMoves DEF Statuses
  <2>3. CASE Proceeds(c)
    BY <2>3, ProceedsMoves
  <2>4. CASE Continues(c, "refresh")
    BY <2>4, ContinuesMoves DEF Statuses
  <2> QED
    BY <2>1, <2>2, <2>3, <2>4 DEF ReadConnection
<1>2. granted' \in BOOLEAN
  BY DEF ReadConnection, GoogleInv, GoogleTypeOK
<1> QED
  BY <1>1, <1>2, RowKept DEF ReadConnection

LEMMA RefreshKeeps == ASSUME GoogleInv, NEW c \in Calls, Refresh(c) PROVE GoogleInv'
<1>1. CallMoves(c)
  <2>1. CASE Fails(c, "expired")
    BY <2>1, FailsMoves DEF Statuses
  <2>2. ASSUME NEW renews \in BOOLEAN, calls' = [calls EXCEPT ![c].at = "store", ![c].renews = renews]
        PROVE  CallMoves(c)
    BY <2>2, ContinuesMoves DEF Statuses
  <2> QED
    BY <2>1, <2>2 DEF Refresh
<1>2. granted' \in BOOLEAN
  BY DEF Refresh, GoogleInv, GoogleTypeOK
<1> QED
  BY <1>1, <1>2, RowKept DEF Refresh

LEMMA UpdateTokensKeeps == ASSUME GoogleInv, NEW c \in Calls, UpdateTokens(c) PROVE GoogleInv'
<1>1. CallMoves(c)
  <2>1. CASE Fails(c, "error")
    BY <2>1, FailsMoves DEF Statuses
  <2>2. CASE Proceeds(c)
    BY <2>2, ProceedsMoves
  <2> QED
    BY <2>1, <2>2 DEF UpdateTokens
<1>2. calls[c] \in Call /\ connection \in Connection
  BY DEF GoogleInv, GoogleTypeOK
<1>3. /\ connection' \in Connection /\ granted' \in BOOLEAN /\ revoked' \in BOOLEAN
      /\ renewed' \in BOOLEAN
  <2> DEFINE refresh == connection.refresh \/ calls[c].renews
             row == [status |-> "active", access |-> TRUE, fresh |-> TRUE, refresh |-> refresh]
  <2>1. refresh \in BOOLEAN
    OBVIOUS
  <2> HIDE DEF refresh
  <2>2. row \in Connection
    BY <2>1 DEF Connection, Statuses
  <2>3. connection' \in {connection, row}
    BY DEF UpdateTokens, refresh
  <2> QED
    BY <1>2, <2>2, <2>3 DEF UpdateTokens, GoogleInv, GoogleTypeOK
<1>4. RevokedIsCleared'
  BY <1>2 DEF UpdateTokens, Allows, RevokedIsCleared, GoogleInv, Connection, Call, Fails
<1> QED
  BY <1>1, <1>3, <1>4, TypeMoves DEF UpdateTokens

LEMMA ListSpreadsheetsKeeps == ASSUME GoogleInv, NEW c \in Calls, ListSpreadsheets(c) PROVE GoogleInv'
<1>1. CallMoves(c)
  <2>1. CASE calls' = [calls EXCEPT ![c].at = "mark", ![c].verdict = "active"]
    <3>1. calls[c].kind = "health"
      BY DEF ListSpreadsheets, GoogleInv, KindsFit
    <3> QED
      BY <2>1, <3>1, ContinuesMoves DEF Statuses
  <2> QED
    BY <2>1, FailsMoves DEF ListSpreadsheets, Statuses
<1>2. granted' \in BOOLEAN
  BY DEF ListSpreadsheets, GoogleInv, GoogleTypeOK
<1> QED
  BY <1>1, <1>2, RowKept DEF ListSpreadsheets

LEMMA UpdateHealthKeeps == ASSUME GoogleInv, NEW c \in Calls, UpdateHealth(c) PROVE GoogleInv'
<1>1. calls[c] \in Call /\ connection \in Connection /\ calls[c].kind = "health"
  BY DEF GoogleInv, GoogleTypeOK, KindsFit, UpdateHealth
<1>2. CallMoves(c)
  <2>1. ASSUME NEW at \in {"done", "failed"}, Continues(c, at) PROVE CallMoves(c)
    BY <1>1, <2>1, ContinuesMoves DEF Statuses
  <2>2. CASE calls' = [calls EXCEPT ![c].verdict = "error"]
    BY <1>1, <2>2, ContinuesMoves DEF Statuses, UpdateHealth
  <2> QED
    BY <2>1, <2>2 DEF UpdateHealth
<1>3. connection' = connection \/ (/\ connection' = [connection EXCEPT !.status = calls[c].verdict]
                                  /\ Allows(connection'))
  BY DEF UpdateHealth
<1>4. connection' \in Connection
  BY <1>1, <1>3 DEF Connection, Call
<1>5. RevokedIsCleared'
  BY <1>1, <1>3 DEF UpdateHealth, Allows, RevokedIsCleared, GoogleInv, Connection
<1>6. granted' \in BOOLEAN /\ revoked' \in BOOLEAN /\ renewed' \in BOOLEAN
  BY DEF UpdateHealth, GoogleInv, GoogleTypeOK
<1> QED
  BY <1>2, <1>4, <1>5, <1>6, TypeMoves DEF UpdateHealth

LEMMA BeginRevokeKeeps == ASSUME GoogleInv, NEW c \in Calls, BeginRevoke(c) PROVE GoogleInv'
<1>1. CallMoves(c)
  <2>1. calls[c].kind = "revoke"
    BY DEF BeginRevoke
  <2>2. ASSUME NEW at \in {"withdraw", "clear", "failed"}, Continues(c, at) PROVE CallMoves(c)
    BY <2>1, <2>2, ContinuesMoves DEF Statuses
  <2> QED
    BY <2>2 DEF BeginRevoke
<1>2. granted' \in BOOLEAN
  BY DEF BeginRevoke, GoogleInv, GoogleTypeOK
<1> QED
  BY <1>1, <1>2, RowKept DEF BeginRevoke

LEMMA RevokeAtGoogleKeeps == ASSUME GoogleInv, NEW c \in Calls, RevokeAtGoogle(c) PROVE GoogleInv'
<1>1. CallMoves(c)
  <2>1. calls[c].kind = "revoke"
    BY DEF RevokeAtGoogle, GoogleInv, KindsFit
  <2> QED
    BY <2>1, ContinuesMoves DEF RevokeAtGoogle, Statuses
<1>2. granted' \in BOOLEAN
  BY DEF RevokeAtGoogle, GoogleInv, GoogleTypeOK
<1> QED
  BY <1>1, <1>2, RowKept DEF RevokeAtGoogle

LEMMA ClearTokensKeeps == ASSUME GoogleInv, NEW c \in Calls, ClearTokens(c) PROVE GoogleInv'
<1>1. CallMoves(c)
  <2>1. calls[c].kind = "revoke"
    BY DEF ClearTokens, GoogleInv, KindsFit
  <2>2. ASSUME NEW at \in {"done", "failed"}, Continues(c, at) PROVE CallMoves(c)
    BY <2>1, <2>2, ContinuesMoves DEF Statuses
  <2> QED
    BY <2>2 DEF ClearTokens
<1>2. connection \in Connection
  BY DEF GoogleInv, GoogleTypeOK
<1>3. connection' \in Connection /\ RevokedIsCleared'
  <2>1. CASE connection' = Cleared(connection)
    <3>1. /\ connection' \in Connection /\ ~connection'.access /\ ~connection'.refresh
          /\ connection'.status = "revoked"
      BY <1>2, <2>1 DEF Cleared, Connection, Statuses
    <3> QED
      BY <3>1 DEF RevokedIsCleared
  <2>2. CASE UNCHANGED <<connection, revoked, renewed>>
    BY <1>2, <2>2 DEF RevokedIsCleared, GoogleInv
  <2> QED
    BY <2>1, <2>2 DEF ClearTokens
<1>4. granted' \in BOOLEAN /\ revoked' \in BOOLEAN /\ renewed' \in BOOLEAN
  BY DEF ClearTokens, GoogleInv, GoogleTypeOK
<1> QED
  BY <1>1, <1>3, <1>4, TypeMoves DEF ClearTokens

-----------------------------------------------------------------------------
(* Claiming and sending *)

LEMMA CallMoved ==
  ASSUME GoogleInv, NEW c \in Calls, NEW at \in {"send", "done", "failed"}, Continues(c, at)
  PROVE  /\ calls' \in [Calls -> Call]
         /\ \A d \in Calls :
              /\ calls'[d].kind = calls[d].kind
              /\ calls'[d].operation = calls[d].operation
              /\ calls'[d].body = calls[d].body
              /\ calls'[d].at = IF d = c THEN at ELSE calls[d].at
         /\ KindsFit'
<1>1. calls \in [Calls -> Call]
  BY DEF GoogleInv, GoogleTypeOK
<1>2. calls' \in [Calls -> Call]
  BY <1>1 DEF Continues, Call
<1>3. \A d \in Calls :
        /\ calls'[d].kind = calls[d].kind
        /\ calls'[d].operation = calls[d].operation
        /\ calls'[d].body = calls[d].body
        /\ calls'[d].at = IF d = c THEN at ELSE calls[d].at
  BY <1>1 DEF Continues, Call
<1>4. KindsFit'
  BY <1>3 DEF GoogleInv, KindsFit
<1> QED
  BY <1>2, <1>3, <1>4

LEMMA RecordsKeys ==
  ASSUME GoogleInv, NEW c \in Calls, NEW status \in {"pending", "completed", "ambiguous"},
         Records(c, status)
  PROVE  /\ DOMAIN operations' = DOMAIN operations \cup {calls[c].operation}
         /\ operations'[calls[c].operation] = [body |-> calls[c].body, status |-> status]
         /\ \A o \in DOMAIN operations : o # calls[c].operation => operations'[o] = operations[o]
         /\ DOMAIN operations' \subseteq Operations
         /\ \A o \in DOMAIN operations' : operations'[o] \in Claim
<1>1. /\ DOMAIN operations' = DOMAIN operations \cup {calls[c].operation}
      /\ operations'[calls[c].operation] = [body |-> calls[c].body, status |-> status]
      /\ \A o \in DOMAIN operations : o # calls[c].operation => operations'[o] = operations[o]
  BY DEF Records
<1>2. [body |-> calls[c].body, status |-> status] \in Claim /\ calls[c].operation \in Operations
  BY DEF GoogleInv, GoogleTypeOK, Call, Claim
<1> QED
  BY <1>1, <1>2 DEF GoogleInv, GoogleTypeOK

LEMMA ClaimOperationKeeps == ASSUME GoogleInv, NEW c \in Calls, ClaimOperation(c) PROVE GoogleInv'
<1>0. /\ calls[c].at = "claim"
      /\ UNCHANGED <<connection, granted, rows, revoked, renewed, misread>>
      /\ rows \subseteq Calls
  BY DEF ClaimOperation, GoogleInv, GoogleTypeOK
<1>r. RevokedIsCleared'
  BY <1>0 DEF GoogleInv, RevokedIsCleared
<1>2. CASE ~MayClaim(c) /\ ~Replays(c)
  <2>1. Continues(c, "failed") /\ UNCHANGED operations
    BY <1>2 DEF ClaimOperation
  <2>2. CallMoves(c)
    BY <2>1, ContinuesMoves DEF Statuses
  <2> QED
    BY <2>1, <2>2, RowKept DEF ClaimOperation, GoogleInv, GoogleTypeOK
<1>3. CASE ~MayClaim(c) /\ Replays(c)
  <2>1. Continues(c, "done") /\ UNCHANGED operations
    BY <1>3 DEF ClaimOperation
  <2>2. /\ calls' \in [Calls -> Call] /\ KindsFit'
        /\ \A d \in Calls :
              /\ calls'[d].kind = calls[d].kind
              /\ calls'[d].operation = calls[d].operation
              /\ calls'[d].body = calls[d].body
              /\ calls'[d].at = IF d = c THEN "done" ELSE calls[d].at
    BY <2>1, CallMoved
  <2>3. GoogleTypeOK'
    BY <1>0, <2>1, <2>2 DEF GoogleInv, GoogleTypeOK, Known, Mine
  <2>4. SentAlone' /\ Remembered' /\ CompletedIsAppended' /\ AppendedOnce'
    BY <1>0, <2>1, <2>2 DEF GoogleInv, SentAlone, Remembered, CompletedIsAppended, AppendedOnce, Known, Mine
  <2>5. \E d \in rows : calls[d].operation = calls[c].operation /\ calls[d].body = calls[c].body
    BY <1>3 DEF Replays, Mine, MayClaim, Known, GoogleInv, CompletedIsAppended
  <2>6. AnsweredIsAppended'
    BY <1>0, <2>2, <2>5 DEF GoogleInv, AnsweredIsAppended
  <2> QED
    BY <1>r, <2>2, <2>3, <2>4, <2>6 DEF GoogleInv
<1>4. CASE MayClaim(c)
  <2>1. Continues(c, "send") /\ Records(c, "pending") /\ calls[c].operation \notin DOMAIN operations
    BY <1>4 DEF ClaimOperation, MayClaim, Known
  <2>2. /\ calls' \in [Calls -> Call] /\ KindsFit'
        /\ \A d \in Calls :
              /\ calls'[d].kind = calls[d].kind
              /\ calls'[d].operation = calls[d].operation
              /\ calls'[d].body = calls[d].body
              /\ calls'[d].at = IF d = c THEN "send" ELSE calls[d].at
    BY <2>1, CallMoved
  <2>3. /\ DOMAIN operations' = DOMAIN operations \cup {calls[c].operation}
        /\ operations'[calls[c].operation] = [body |-> calls[c].body, status |-> "pending"]
        /\ \A o \in DOMAIN operations : operations'[o] = operations[o]
        /\ DOMAIN operations' \subseteq Operations
        /\ \A o \in DOMAIN operations' : operations'[o] \in Claim
    BY <2>1, RecordsKeys
  <2>4. \A d \in Calls : calls[d].at = "send" =>
          calls[d].operation # calls[c].operation
    BY <2>1 DEF GoogleInv, GoogleTypeOK, Known
  <2>5. \A d \in rows : calls[d].operation \notin misread => calls[d].operation # calls[c].operation
    BY <2>1 DEF GoogleInv, Remembered, Known
  <2>6. \A d \in Calls : calls'[d].at = "send" =>
          Known(d)' /\ Mine(d)' = [body |-> calls'[d].body, status |-> "pending"]
    BY <2>2, <2>3, <2>4 DEF GoogleInv, GoogleTypeOK, Known, Mine
  <2>7. GoogleTypeOK'
    BY <1>0, <2>2, <2>3, <2>6 DEF GoogleInv, GoogleTypeOK
  <2>8. SentAlone'
    BY <2>2, <2>4 DEF GoogleInv, SentAlone
  <2>9. Remembered' /\ AppendedOnce'
    BY <1>0, <2>2, <2>3, <2>5 DEF GoogleInv, Remembered, AppendedOnce, Known, Mine
  <2>10. CompletedIsAppended'
    BY <1>0, <2>1, <2>2, <2>3 DEF GoogleInv, CompletedIsAppended
  <2>11. AnsweredIsAppended'
    BY <1>0, <2>2 DEF GoogleInv, AnsweredIsAppended
  <2> QED
    BY <1>r, <2>2, <2>7, <2>8, <2>9, <2>10, <2>11 DEF GoogleInv
<1> QED
  BY <1>2, <1>3, <1>4

LEMMA SendKeeps == ASSUME GoogleInv, NEW c \in Calls, Send(c) PROVE GoogleInv'
<1> DEFINE o == calls[c].operation
<1>0. /\ calls[c].at = "send" /\ o \in DOMAIN operations /\ operations[o].status = "pending"
      /\ UNCHANGED <<connection, granted, revoked, renewed>>
      /\ rows \subseteq Calls
      /\ misread \subseteq misread' /\ misread' \subseteq Operations
      /\ rows' \in {rows, rows \cup {c}}
  <2>1. calls[c] \in Call /\ misread \subseteq Operations /\ rows \subseteq Calls
    BY DEF GoogleInv, GoogleTypeOK
  <2>2. o \in Operations
    BY <2>1 DEF Call
  <2>3. calls[c].at = "send" /\ UNCHANGED <<connection, granted, revoked, renewed>>
    BY DEF Send
  <2>4. o \in DOMAIN operations /\ operations[o].status = "pending"
    <3>1. Known(c) /\ Mine(c) = [body |-> calls[c].body, status |-> "pending"]
      BY <2>3 DEF GoogleInv, GoogleTypeOK
    <3> QED
      BY <3>1 DEF Known, Mine
  <2>5. misread' \in {misread, misread \cup {o}} /\ rows' \in {rows, rows \cup {c}}
    BY DEF Send
  <2> QED
    BY <2>1, <2>2, <2>3, <2>4, <2>5
<1>1. RevokedIsCleared'
  BY <1>0 DEF GoogleInv, RevokedIsCleared
<1>2. \A d \in Calls : d # c /\ calls[d].at = "send" => calls[d].operation # o
  BY <1>0 DEF GoogleInv, SentAlone
<1>3. \A d \in rows : calls[d].operation \notin misread => calls[d].operation # o
  BY <1>0 DEF GoogleInv, Remembered, Mine
<1>4. \A p \in DOMAIN operations' : p # o => p \in DOMAIN operations /\ operations'[p] = operations[p]
  BY RecordsKeys DEF Send, Releases
<1>5. \A p \in DOMAIN operations : p # o => p \in DOMAIN operations' /\ operations'[p] = operations[p]
  BY RecordsKeys DEF Send, Releases
<1>6. /\ DOMAIN operations' \subseteq Operations
      /\ \A p \in DOMAIN operations' : operations'[p] \in Claim
  BY RecordsKeys DEF Send, Releases, GoogleInv, GoogleTypeOK
<1>7. PICK at \in {"done", "failed"} : Continues(c, at) /\ (at = "done" => Records(c, "completed") /\ rows' = rows \cup {c})
  BY DEF Send
<1>8. /\ calls' \in [Calls -> Call] /\ KindsFit'
      /\ \A d \in Calls :
            /\ calls'[d].kind = calls[d].kind
            /\ calls'[d].operation = calls[d].operation
            /\ calls'[d].body = calls[d].body
            /\ calls'[d].at = IF d = c THEN at ELSE calls[d].at
  BY <1>7, CallMoved
<1>15. /\ Records(c, "completed") =>
            o \in DOMAIN operations' /\ operations'[o].body = calls[c].body
       /\ Records(c, "completed") => operations'[o].status = "completed"
       /\ Records(c, "ambiguous") => o \in DOMAIN operations' /\ operations'[o].status = "ambiguous"
  BY DEF Records
<1>9. GoogleTypeOK'
  <2>1. \A d \in Calls : calls'[d].at = "send" =>
          Known(d)' /\ Mine(d)' = [body |-> calls'[d].body, status |-> "pending"]
    BY <1>0, <1>2, <1>5, <1>7, <1>8 DEF GoogleInv, GoogleTypeOK, Known, Mine
  <2> QED
    BY <1>0, <1>6, <1>8, <2>1 DEF GoogleInv, GoogleTypeOK
<1>10. SentAlone'
  BY <1>7, <1>8 DEF GoogleInv, SentAlone
<1>11. Remembered'
  <2>1. ASSUME NEW d \in rows', calls'[d].operation \notin misread'
        PROVE  Known(d)' /\ Mine(d)'.status # "pending"
    <3>1. CASE d = c
      <4>1. Records(c, "completed") \/ Records(c, "ambiguous")
        BY <1>0, <1>3, <1>8, <2>1, <3>1 DEF Send
      <4> QED
        BY <1>8, <1>15, <3>1, <4>1 DEF Known, Mine
    <3>2. CASE d # c
      BY <1>0, <1>3, <1>5, <1>8, <2>1, <3>2 DEF GoogleInv, Remembered, Known, Mine
    <3> QED
      BY <3>1, <3>2
  <2> QED
    BY <2>1 DEF Remembered
<1>12. CompletedIsAppended'
  <2>1. ASSUME NEW p \in DOMAIN operations', operations'[p].status = "completed"
        PROVE  \E d \in rows' : calls'[d].operation = p /\ calls'[d].body = operations'[p].body
    <3>1. CASE p = o
      <4>1. Records(c, "completed") /\ rows' = rows \cup {c}
        BY <1>15, <2>1, <3>1 DEF Send, Releases
      <4> QED
        BY <1>8, <1>15, <3>1, <4>1
    <3>2. CASE p # o
      BY <1>0, <1>4, <1>8, <2>1, <3>2 DEF GoogleInv, CompletedIsAppended
    <3> QED
      BY <3>1, <3>2
  <2> QED
    BY <2>1 DEF CompletedIsAppended
<1>13. AppendedOnce'
  BY <1>0, <1>3, <1>8 DEF GoogleInv, AppendedOnce
<1>14. AnsweredIsAppended'
  BY <1>0, <1>7, <1>8 DEF GoogleInv, AnsweredIsAppended
<1> QED
  BY <1>1, <1>8, <1>9, <1>10, <1>11, <1>12, <1>13, <1>14 DEF GoogleInv

-----------------------------------------------------------------------------
(* The steps of nobody in particular *)

LEMMA ExpireKeeps == ASSUME GoogleInv, Expire PROVE GoogleInv'
<1>1. connection \in Connection
  BY DEF GoogleInv, GoogleTypeOK
<1>2. /\ connection' \in Connection
      /\ connection'.status = connection.status
      /\ connection'.access = connection.access
      /\ connection'.refresh = connection.refresh
  BY <1>1 DEF Expire, Connection
<1>3. RevokedIsCleared'
  BY <1>2 DEF Expire, GoogleInv, RevokedIsCleared
<1>4. GoogleTypeOK'
  BY <1>2 DEF Expire, GoogleInv, GoogleTypeOK, Known, Mine
<1>5. SentAlone' /\ Remembered' /\ CompletedIsAppended' /\ AppendedOnce' /\ AnsweredIsAppended'
      /\ KindsFit'
  BY DEF Expire, GoogleInv, SentAlone, Remembered, CompletedIsAppended, AppendedOnce,
         AnsweredIsAppended, KindsFit, Known, Mine
<1> QED
  BY <1>3, <1>4, <1>5 DEF GoogleInv

LEMMA StutterKeeps ==
  ASSUME GoogleInv, granted' \in BOOLEAN,
         UNCHANGED <<connection, operations, calls, rows, revoked, renewed, misread>>
  PROVE  GoogleInv'
<1>1. GoogleTypeOK' /\ KindsFit'
  BY DEF GoogleInv, GoogleTypeOK, KindsFit, Known, Mine
<1>2. RevokedIsCleared' /\ SentAlone' /\ Remembered' /\ CompletedIsAppended' /\ AppendedOnce'
      /\ AnsweredIsAppended'
  BY DEF GoogleInv, RevokedIsCleared, SentAlone, Remembered, CompletedIsAppended, AppendedOnce,
         AnsweredIsAppended, Known, Mine
<1> QED
  BY <1>1, <1>2 DEF GoogleInv

LEMMA RestartKeeps == ASSUME GoogleInv, Restart PROVE GoogleInv'
<1>1. calls \in [Calls -> Call] /\ rows \subseteq Calls
  BY DEF GoogleInv, GoogleTypeOK
<1>2. calls' \in [Calls -> Call]
  <2>1. ASSUME NEW c \in Calls PROVE [calls[c] EXCEPT !.at = "failed", !.renews = FALSE] \in Call
    BY <1>1 DEF Call
  <2>2. ASSUME NEW c \in Calls
        PROVE  (IF calls[c].at \in {"idle", "done"} THEN calls[c]
                ELSE [calls[c] EXCEPT !.at = "failed", !.renews = FALSE]) \in Call
    BY <1>1, <2>1
  <2> QED BY <2>2 DEF Restart
<1>3. \A d \in Calls :
        /\ calls'[d].kind = calls[d].kind
        /\ calls'[d].operation = calls[d].operation
        /\ calls'[d].body = calls[d].body
        /\ calls'[d].at \in {"idle", "done", "failed"}
        /\ calls'[d].at = "done" => calls[d].at = "done"
  BY <1>1 DEF Restart, Call
<1>4. DOMAIN operations' = {}
  BY DEF Restart
<1>5. misread' \subseteq Operations /\ \A d \in rows : calls[d].operation \in misread'
  <2>1. \A d \in Calls : calls[d].operation \in Operations
    BY <1>1 DEF Call
  <2> QED
    BY <1>1, <2>1 DEF Restart, GoogleInv, GoogleTypeOK
<1>6. GoogleTypeOK'
  BY <1>2, <1>3, <1>4, <1>5 DEF Restart, GoogleInv, GoogleTypeOK
<1>7. RevokedIsCleared'
  BY DEF Restart, GoogleInv, RevokedIsCleared
<1>8. SentAlone' /\ KindsFit'
  BY <1>3 DEF SentAlone, KindsFit
<1>9. Remembered' /\ AppendedOnce'
  <2>1. rows' = rows
    BY DEF Restart
  <2> QED
    BY <1>1, <1>3, <1>5, <2>1 DEF Remembered, AppendedOnce
<1>10. CompletedIsAppended'
  BY <1>4 DEF CompletedIsAppended
<1>11. AnsweredIsAppended'
  <2>1. rows' = rows
    BY DEF Restart
  <2> QED
    BY <1>1, <1>3, <2>1 DEF GoogleInv, AnsweredIsAppended
<1> QED
  BY <1>6, <1>7, <1>8, <1>9, <1>10, <1>11 DEF GoogleInv

-----------------------------------------------------------------------------
(* The theorems *)

\* Every step keeps the invariant.
LEMMA GoogleNextInv == GoogleInv /\ [GoogleNext]_googleVars => GoogleInv'
<1> SUFFICES ASSUME GoogleInv, [GoogleNext]_googleVars PROVE GoogleInv'
  OBVIOUS
<1>1. ASSUME NEW c \in Calls, ReadConnection(c) PROVE GoogleInv'
  BY <1>1, ReadConnectionKeeps
<1>2. ASSUME NEW c \in Calls, Refresh(c) PROVE GoogleInv'
  BY <1>2, RefreshKeeps
<1>3. ASSUME NEW c \in Calls, UpdateTokens(c) PROVE GoogleInv'
  BY <1>3, UpdateTokensKeeps
<1>4. ASSUME NEW c \in Calls, ListSpreadsheets(c) PROVE GoogleInv'
  BY <1>4, ListSpreadsheetsKeeps
<1>5. ASSUME NEW c \in Calls, UpdateHealth(c) PROVE GoogleInv'
  BY <1>5, UpdateHealthKeeps
<1>6. ASSUME NEW c \in Calls, BeginRevoke(c) PROVE GoogleInv'
  BY <1>6, BeginRevokeKeeps
<1>7. ASSUME NEW c \in Calls, RevokeAtGoogle(c) PROVE GoogleInv'
  BY <1>7, RevokeAtGoogleKeeps
<1>8. ASSUME NEW c \in Calls, ClearTokens(c) PROVE GoogleInv'
  BY <1>8, ClearTokensKeeps
<1>9. ASSUME NEW c \in Calls, ClaimOperation(c) PROVE GoogleInv'
  BY <1>9, ClaimOperationKeeps
<1>10. ASSUME NEW c \in Calls, Send(c) PROVE GoogleInv'
  BY <1>10, SendKeeps
<1>11. CASE Expire
  BY <1>11, ExpireKeeps
<1>12. CASE Withdraw
  BY <1>12, StutterKeeps DEF Withdraw
<1>13. CASE Restart
  BY <1>13, RestartKeeps
<1>14. CASE UNCHANGED googleVars
  BY <1>14, StutterKeeps DEF googleVars, GoogleInv, GoogleTypeOK
<1> QED
  BY <1>1, <1>2, <1>3, <1>4, <1>5, <1>6, <1>7, <1>8, <1>9, <1>10, <1>11, <1>12, <1>13, <1>14
     DEF GoogleNext

LEMMA GoogleAlwaysInv == GoogleSpec => []GoogleInv
<1> QED
  BY GoogleInitInv, GoogleNextInv, PTL DEF GoogleSpec

\* The variables have their types, and a call that sends holds the pending claim of its key.
THEOREM GoogleTypeTheorem == GoogleSpec => []GoogleTypeOK
<1>1. GoogleInv => GoogleTypeOK
  BY DEF GoogleInv
<1> QED
  BY <1>1, GoogleAlwaysInv, PTL

\* What a revocation cleared stays cleared, unless a refresh that overlapped it brought a
\* new refresh token.
THEOREM RevokedTheorem == GoogleSpec => []RevokedIsCleared
<1>1. GoogleInv => RevokedIsCleared
  BY DEF GoogleInv
<1> QED
  BY <1>1, GoogleAlwaysInv, PTL

\* No key appends twice, unless its append was forgotten.
THEOREM AppendedTheorem == GoogleSpec => []AppendedOnce
<1>1. GoogleInv => AppendedOnce
  BY DEF GoogleInv
<1> QED
  BY <1>1, GoogleAlwaysInv, PTL

\* An append is answered with a result only if what it asked for was appended.
THEOREM AnsweredTheorem == GoogleSpec => []AnsweredIsAppended
<1>1. GoogleInv => AnsweredIsAppended
  BY DEF GoogleInv
<1> QED
  BY <1>1, GoogleAlwaysInv, PTL

\* All of GoogleSafe at once.
THEOREM GoogleIsSafe == GoogleSpec => []GoogleSafe
BY GoogleTypeTheorem, RevokedTheorem, AppendedTheorem, AnsweredTheorem, PTL DEF GoogleSafe

-----------------------------------------------------------------------------
(* GithubPublications *)

USE GithubAssumption

-----------------------------------------------------------------------------
(* The inductive invariant *)

Pushing == {"readRef", "manifest", "move"}
AtWork == Pushing \cup {"record", "audit", "fail"}
Ats == {"idle", "insert", "published", "refused"} \cup AtWork

\* The row of a request under way is pending, or completed by that request.
RowIsHeld ==
  \A p \in Pushes :
    /\ pushes[p].at \in Pushing \cup {"record"} => publications[Key(p)] = "pending"
    /\ pushes[p].at = "fail" => publications[Key(p)] \in {"pending", "succeeded"}
    /\ pushes[p].at \in {"audit", "published"} => publications[Key(p)] = "succeeded"

\* One request at most has claimed a key and is under way, and none once another has pushed.
ClaimedOnce ==
  /\ \A p, q \in Pushes :
       pushes[p].at \in AtWork /\ pushes[q].at \in AtWork /\ Key(p) = Key(q) => p = q
  /\ \A p \in Pushes, q \in pushed :
       pushes[p].at \in AtWork /\ Key(p) = Key(q) => p = q

\* A request that has pushed says so by where it is and by its row.
PushIsKnown ==
  /\ \A p \in Pushes : pushes[p].at \in Pushing => p \notin pushed
  /\ \A p \in Pushes : pushes[p].at \in {"record", "audit"} => p \in pushed
  /\ \A p \in pushed : publications[Key(p)] # "none"
  /\ \A p \in pushed :
       pushes[p].at = "fail" => publications[Key(p)] = "succeeded" \/ Key(p) \in unrecorded

\* Every commit beyond the bound of the customer's was pushed.
LengthsFit ==
  /\ Len(branch) <= MaxCommits + Cardinality(pushed)
  /\ \A p \in Pushes : Len(pushes[p].base) <= MaxCommits + Cardinality(pushed)

\* The first part of SucceededIsPushed.
SuccessIsPushed == \A k \in Keys : publications[k] = "succeeded" => \E p \in pushed : Key(p) = k

GithubInv ==
  /\ GithubTypeOK
  /\ RowIsHeld
  /\ ClaimedOnce
  /\ PushIsKnown
  /\ LengthsFit
  /\ PushedOnce
  /\ SuccessIsPushed
  /\ FailedIsUnpushed

LEMMA PushedCount ==
  ASSUME NEW S \in SUBSET Pushes
  PROVE  IsFiniteSet(S) /\ Cardinality(S) \in Nat /\ Cardinality(S) <= Cardinality(Pushes)
         /\ Cardinality(Pushes) \in Nat
BY FS_Subset, FS_CardinalityType

LEMMA GithubInitInv == GithubInit => GithubInv
<1> SUFFICES ASSUME GithubInit PROVE GithubInv
  OBVIOUS
<1>0. Cardinality(pushed) = 0 /\ Cardinality(Pushes) \in Nat
  BY FS_EmptySet, PushedCount DEF GithubInit
<1>1. branch \in Seq(Commit) /\ Len(branch) <= 1
  <2>1. CASE branch = <<>>
    BY <2>1
  <2>2. ASSUME NEW m \in Projects \cup {NoProject}, branch = <<[by |-> Customer, manifest |-> m]>>
        PROVE  branch \in Seq(Commit) /\ Len(branch) <= 1
    <3> DEFINE commit == [by |-> Customer, manifest |-> m]
    <3>1. commit \in Commit
      BY DEF Commit
    <3> HIDE DEF commit
    <3>2. <<commit>> \in Seq(Commit) /\ Len(<<commit>>) = 1
      BY <3>1
    <3> QED
      BY <2>2, <3>2 DEF commit
  <2> QED
    BY <2>1, <2>2 DEF GithubInit
<1>2. pushes \in [Pushes -> Push]
  <2>1. <<>> \in Seq(Commit)
    OBVIOUS
  <2> QED
    BY <2>1 DEF GithubInit, Push
<1>3. \A p \in Pushes : pushes[p].at = "idle" /\ Len(pushes[p].base) = 0
  BY DEF GithubInit
<1>4. GithubTypeOK
  <2>1. Len(branch) <= MaxCommits + Cardinality(Pushes)
    BY <1>0, <1>1
  <2> QED
    BY <1>1, <1>2, <2>1 DEF GithubInit, GithubTypeOK
<1>5. RowIsHeld /\ ClaimedOnce /\ PushIsKnown
  BY <1>3 DEF GithubInit, RowIsHeld, ClaimedOnce, PushIsKnown, AtWork, Pushing
<1>6. LengthsFit
  BY <1>0, <1>1, <1>3 DEF LengthsFit
<1>7. PushedOnce /\ SuccessIsPushed /\ FailedIsUnpushed
  BY DEF GithubInit, PushedOnce, SuccessIsPushed, FailedIsUnpushed
<1> QED
  BY <1>4, <1>5, <1>6, <1>7 DEF GithubInv

-----------------------------------------------------------------------------
(* How a request moves *)

\* It keeps its key and project, and its base unless it gives it up.
LEMMA Moved ==
  ASSUME GithubInv, NEW p \in Pushes, NEW at \in Ats, At(p, at) \/ Leaves(p, at)
  PROVE  /\ pushes' \in [Pushes -> Push]
         /\ \A q \in Pushes : /\ pushes'[q].key = pushes[q].key
                              /\ pushes'[q].at = IF q = p THEN at ELSE pushes[q].at
                              /\ pushes'[q].base \in {pushes[q].base, <<>>}
<1>1. pushes \in [Pushes -> Push] /\ <<>> \in Seq(Commit)
  BY DEF GithubInv, GithubTypeOK
<1>2. pushes' \in [Pushes -> Push]
  <2> DEFINE x == [pushes[p] EXCEPT !.at = at]
             y == [x EXCEPT !.base = <<>>]
  <2>1. x \in Push /\ y \in Push
    BY <1>1 DEF Push, Ats, AtWork, Pushing
  <2>2. pushes' = [pushes EXCEPT ![p] = x] \/ pushes' = [pushes EXCEPT ![p] = y]
    BY <1>1 DEF At, Leaves
  <2> QED
    BY <1>1, <2>1, <2>2
<1>3. \A q \in Pushes : /\ pushes'[q].key = pushes[q].key
                        /\ pushes'[q].at = IF q = p THEN at ELSE pushes[q].at
                        /\ pushes'[q].base \in {pushes[q].base, <<>>}
  BY <1>1 DEF At, Leaves, Push
<1> QED
  BY <1>2, <1>3

LEMMA LengthsKept ==
  ASSUME GithubInv, UNCHANGED <<branch, pushed>>,
         \A q \in Pushes : pushes'[q].base \in {pushes[q].base, <<>>}
  PROVE  LengthsFit'
<1>1. Cardinality(pushed) \in Nat
  BY PushedCount DEF GithubInv, GithubTypeOK
<1> QED
  BY <1>1 DEF GithubInv, LengthsFit

\* A request that moves on without writing anything, or gives up.
LEMMA MovesOn ==
  ASSUME GithubInv, NEW p \in Pushes, NEW at \in Ats, At(p, at) \/ Leaves(p, at),
         UNCHANGED <<branch, publications, pushed, rewound>>,
         unrecorded \subseteq unrecorded', unrecorded' \subseteq Keys,
         at \in AtWork => pushes[p].at \in AtWork,
         at \in Pushing => pushes[p].at \in Pushing,
         at \notin {"record", "audit"},
         at = "fail" /\ pushes[p].at \in {"record", "fail"} /\ publications[Key(p)] # "succeeded"
           => Key(p) \in unrecorded',
         at = "published" => publications[Key(p)] = "succeeded"
  PROVE  GithubInv'
<1>1. /\ pushes' \in [Pushes -> Push]
      /\ \A q \in Pushes : /\ pushes'[q].key = pushes[q].key
                           /\ pushes'[q].at = IF q = p THEN at ELSE pushes[q].at
                           /\ pushes'[q].base \in {pushes[q].base, <<>>}
  BY Moved
<1>2. pushed \subseteq Pushes
  BY DEF GithubInv, GithubTypeOK
<1>3. GithubTypeOK'
  BY <1>1 DEF GithubInv, GithubTypeOK
<1>4. RowIsHeld'
  BY <1>1 DEF GithubInv, RowIsHeld, Key, AtWork, Pushing
<1>5. ClaimedOnce'
  BY <1>1, <1>2 DEF GithubInv, ClaimedOnce, Key
<1>6. PushIsKnown'
  BY <1>1, <1>2 DEF GithubInv, PushIsKnown, RowIsHeld, Key, AtWork, Pushing
<1>7. LengthsFit'
  BY <1>1, LengthsKept
<1>8. PushedOnce' /\ SuccessIsPushed' /\ FailedIsUnpushed'
  BY <1>1, <1>2 DEF GithubInv, PushedOnce, SuccessIsPushed, FailedIsUnpushed, Key
<1> QED
  BY <1>3, <1>4, <1>5, <1>6, <1>7, <1>8 DEF GithubInv

LEMMA CheckKeyKeeps == ASSUME GithubInv, NEW p \in Pushes, CheckKey(p) PROVE GithubInv'
<1> DEFINE at == CASE publications[Key(p)] = "none" -> "insert"
                   [] publications[Key(p)] = "succeeded" -> "published"
                   [] OTHER -> "refused"
<1>1. /\ at \in {"insert", "published", "refused"}
      /\ at = "published" => publications[Key(p)] = "succeeded"
  OBVIOUS
<1>2. At(p, at) /\ UNCHANGED <<branch, publications, pushed, unrecorded, rewound>>
  BY DEF CheckKey
<1>3. unrecorded \subseteq Keys
  BY DEF GithubInv, GithubTypeOK
<1> HIDE DEF at
<1> QED
  BY <1>1, <1>2, <1>3, MovesOn DEF Ats, AtWork, Pushing

LEMMA CallFailsKeeps == ASSUME GithubInv, NEW p \in Pushes, CallFails(p) PROVE GithubInv'
<1>1. unrecorded \subseteq Keys /\ Key(p) \in Keys
  BY DEF GithubInv, GithubTypeOK, Push, Key
<1>2. /\ unrecorded \subseteq unrecorded' /\ unrecorded' \subseteq Keys
      /\ pushes[p].at \in {"record", "fail"} => Key(p) \in unrecorded'
  BY <1>1 DEF CallFails
<1>3. /\ pushes[p].at \in AtWork /\ Leaves(p, "fail")
      /\ UNCHANGED <<branch, publications, pushed, rewound>>
  BY DEF CallFails, AtWork, Pushing
<1> QED
  BY <1>2, <1>3, MovesOn DEF Ats, AtWork, Pushing

LEMMA AuditKeeps == ASSUME GithubInv, NEW p \in Pushes, Audit(p) PROVE GithubInv'
<1>1. unrecorded \subseteq Keys /\ publications[Key(p)] = "succeeded"
  BY DEF GithubInv, GithubTypeOK, RowIsHeld, Audit
<1> QED
  BY <1>1, MovesOn DEF Audit, Ats, AtWork, Pushing

LEMMA StopPushKeeps == ASSUME GithubInv, NEW p \in Pushes, StopPush(p) PROVE GithubInv'
<1>1. unrecorded \subseteq Keys
  BY DEF GithubInv, GithubTypeOK
<1> QED
  BY <1>1, MovesOn DEF StopPush, Ats, AtWork, Pushing

LEMMA ReadManifestKeeps == ASSUME GithubInv, NEW p \in Pushes, ReadManifest(p) PROVE GithubInv'
<1>1. unrecorded \subseteq Keys
  BY DEF GithubInv, GithubTypeOK
<1>2. CASE At(p, "move")
  BY <1>1, <1>2, MovesOn DEF ReadManifest, Ats, AtWork, Pushing
<1>3. CASE Leaves(p, "fail")
  BY <1>1, <1>3, MovesOn DEF ReadManifest, Ats, AtWork, Pushing
<1> QED
  BY <1>2, <1>3 DEF ReadManifest

-----------------------------------------------------------------------------
(* Claiming, completing and failing a key *)

LEMMA RowWritten ==
  ASSUME GithubInv, NEW p \in Pushes, NEW at \in Ats, At(p, at),
         NEW status \in {"pending", "succeeded", "failed"}, Sets(p, status),
         UNCHANGED <<branch, pushed, unrecorded, rewound>>
  PROVE  /\ GithubTypeOK' /\ LengthsFit'
         /\ pushed \subseteq Pushes /\ Key(p) \in Keys
         /\ \A q \in Pushes : /\ Key(q)' = Key(q)
                              /\ pushes'[q].at = IF q = p THEN at ELSE pushes[q].at
         /\ \A k \in Keys : publications'[k] = IF k = Key(p) THEN status ELSE publications[k]
         /\ \A q \in Pushes :
              publications'[Key(q)] = IF Key(q) = Key(p) THEN status ELSE publications[Key(q)]
<1>1. /\ pushes' \in [Pushes -> Push]
      /\ \A q \in Pushes : /\ pushes'[q].key = pushes[q].key
                           /\ pushes'[q].at = IF q = p THEN at ELSE pushes[q].at
                           /\ pushes'[q].base \in {pushes[q].base, <<>>}
  BY Moved
<1>2. pushes \in [Pushes -> Push] /\ publications \in [Keys -> {"none", "pending", "succeeded", "failed"}]
  BY DEF GithubInv, GithubTypeOK
<1>3. \A q \in Pushes : Key(q) \in Keys
  BY <1>2 DEF Push, Key
<1>4. /\ publications' \in [Keys -> {"none", "pending", "succeeded", "failed"}]
      /\ \A k \in Keys : publications'[k] = IF k = Key(p) THEN status ELSE publications[k]
  BY <1>2, <1>3 DEF Sets
<1>5. GithubTypeOK'
  BY <1>1, <1>4 DEF GithubInv, GithubTypeOK
<1>6. LengthsFit'
  BY <1>1, LengthsKept
<1> QED
  BY <1>1, <1>3, <1>4, <1>5, <1>6 DEF Key, GithubInv, GithubTypeOK

LEMMA ClaimKeeps ==
  ASSUME GithubInv, NEW p \in Pushes, pushes[p].at = "insert", Claims(p), Sets(p, "pending"),
         NEW at \in {"readRef", "refused"}, At(p, at),
         UNCHANGED <<branch, pushed, unrecorded, rewound>>
  PROVE  GithubInv'
<1>1. /\ GithubTypeOK' /\ LengthsFit'
      /\ pushed \subseteq Pushes /\ Key(p) \in Keys
      /\ \A q \in Pushes : /\ Key(q)' = Key(q)
                           /\ pushes'[q].at = IF q = p THEN at ELSE pushes[q].at
      /\ \A k \in Keys : publications'[k] = IF k = Key(p) THEN "pending" ELSE publications[k]
      /\ \A q \in Pushes :
           publications'[Key(q)] = IF Key(q) = Key(p) THEN "pending" ELSE publications[Key(q)]
  BY RowWritten DEF Ats, AtWork, Pushing
\* Whoever is under way, or has pushed, holds another key.
<1>2. \A q \in Pushes :
        Key(q) = Key(p) => pushes[q].at \notin AtWork \cup {"published"} /\ q \notin pushed
  BY <1>1 DEF GithubInv, RowIsHeld, PushIsKnown, Claims, AtWork
<1>3. RowIsHeld'
  BY <1>1, <1>2 DEF GithubInv, RowIsHeld, AtWork, Pushing
<1>4. ClaimedOnce'
  BY <1>1, <1>2 DEF GithubInv, ClaimedOnce
<1>5. PushIsKnown'
  BY <1>1, <1>2 DEF GithubInv, PushIsKnown, AtWork, Pushing
<1>6. PushedOnce' /\ SuccessIsPushed' /\ FailedIsUnpushed'
  BY <1>1, <1>2 DEF GithubInv, PushedOnce, SuccessIsPushed, FailedIsUnpushed
<1> QED
  BY <1>1, <1>3, <1>4, <1>5, <1>6 DEF GithubInv

LEMMA InsertPendingKeeps == ASSUME GithubInv, NEW p \in Pushes, InsertPending(p) PROVE GithubInv'
<1>1. CASE UNCHANGED publications /\ At(p, "refused")
  <2>1. unrecorded \subseteq Keys
    BY DEF GithubInv, GithubTypeOK
  <2> QED
    BY <1>1, <2>1, MovesOn DEF InsertPending, Ats, AtWork, Pushing
<1>2. ASSUME Claims(p), Sets(p, "pending"), NEW at \in {"readRef", "refused"}, At(p, at) PROVE GithubInv'
  BY <1>2, ClaimKeeps DEF InsertPending
<1> QED
  BY <1>1, <1>2 DEF InsertPending

LEMMA CompleteKeeps == ASSUME GithubInv, NEW p \in Pushes, Complete(p) PROVE GithubInv'
<1>0. PICK at \in {"audit", "fail"} : At(p, at)
  BY DEF Complete
<1>1. pushes[p].at = "record" /\ p \in pushed
  BY DEF Complete, GithubInv, PushIsKnown
<1>2. Sets(p, "succeeded") /\ UNCHANGED <<branch, pushed, unrecorded, rewound>>
  BY <1>1 DEF Complete, GithubInv, RowIsHeld
<1>3. /\ GithubTypeOK' /\ LengthsFit'
      /\ pushed \subseteq Pushes /\ Key(p) \in Keys
      /\ \A q \in Pushes : /\ Key(q)' = Key(q)
                           /\ pushes'[q].at = IF q = p THEN at ELSE pushes[q].at
      /\ \A k \in Keys : publications'[k] = IF k = Key(p) THEN "succeeded" ELSE publications[k]
      /\ \A q \in Pushes :
           publications'[Key(q)] = IF Key(q) = Key(p) THEN "succeeded" ELSE publications[Key(q)]
  BY <1>0, <1>2, RowWritten DEF Ats, AtWork, Pushing
<1>4. \A q \in Pushes : Key(q) = Key(p) /\ q # p => pushes[q].at \notin AtWork
  BY <1>1 DEF GithubInv, ClaimedOnce, AtWork
<1>5. RowIsHeld'
  BY <1>3, <1>4 DEF GithubInv, RowIsHeld, AtWork, Pushing
<1>6. ClaimedOnce'
  BY <1>1, <1>2, <1>3 DEF GithubInv, ClaimedOnce, AtWork
<1>7. PushIsKnown'
  BY <1>1, <1>2, <1>3 DEF GithubInv, PushIsKnown, Pushing
<1>8. PushedOnce' /\ SuccessIsPushed' /\ FailedIsUnpushed'
  BY <1>1, <1>2, <1>3 DEF GithubInv, PushedOnce, SuccessIsPushed, FailedIsUnpushed
<1> QED
  BY <1>3, <1>5, <1>6, <1>7, <1>8 DEF GithubInv

LEMMA MarkFailedKeeps == ASSUME GithubInv, NEW p \in Pushes, MarkFailed(p) PROVE GithubInv'
<1>1. CASE UNCHANGED publications
  <2>1. unrecorded \subseteq Keys
    BY DEF GithubInv, GithubTypeOK
  <2> QED
    BY <1>1, <2>1, MovesOn DEF MarkFailed, Ats, AtWork, Pushing
<1>2. CASE Marks(p) /\ Sets(p, "failed")
  <2>1. At(p, "refused") /\ UNCHANGED <<branch, pushed, unrecorded, rewound>> /\ pushes[p].at = "fail"
    BY DEF MarkFailed
  <2>2. /\ GithubTypeOK' /\ LengthsFit'
        /\ pushed \subseteq Pushes /\ Key(p) \in Keys
        /\ \A q \in Pushes : /\ Key(q)' = Key(q)
                             /\ pushes'[q].at = IF q = p THEN "refused" ELSE pushes[q].at
        /\ \A k \in Keys : publications'[k] = IF k = Key(p) THEN "failed" ELSE publications[k]
        /\ \A q \in Pushes :
             publications'[Key(q)] = IF Key(q) = Key(p) THEN "failed" ELSE publications[Key(q)]
    BY <1>2, <2>1, RowWritten DEF Ats
  \* Nobody else is under way with this key, and only the request itself can have pushed.
  <2>3. \A q \in Pushes : Key(q) = Key(p) /\ q # p => pushes[q].at \notin AtWork \cup {"published"}
    BY <1>2, <2>1 DEF GithubInv, ClaimedOnce, RowIsHeld, Marks, AtWork
  <2>4. Key(p) \notin unrecorded => \A q \in pushed : Key(q) # Key(p)
    BY <1>2, <2>1, <2>2 DEF GithubInv, ClaimedOnce, PushIsKnown, Marks, AtWork
  <2>5. RowIsHeld'
    BY <2>2, <2>3 DEF GithubInv, RowIsHeld, AtWork, Pushing
  <2>6. ClaimedOnce'
    BY <2>1, <2>2 DEF GithubInv, ClaimedOnce, AtWork, Pushing
  <2>7. PushIsKnown'
    BY <2>1, <2>2, <2>3 DEF GithubInv, PushIsKnown, AtWork, Pushing
  <2>8. PushedOnce'
    BY <2>1, <2>2 DEF GithubInv, PushedOnce
  <2>9. SuccessIsPushed' /\ FailedIsUnpushed'
    BY <2>1, <2>2, <2>4 DEF GithubInv, SuccessIsPushed, FailedIsUnpushed
  <2> QED
    BY <2>2, <2>5, <2>6, <2>7, <2>8, <2>9 DEF GithubInv
<1> QED
  BY <1>1, <1>2 DEF MarkFailed

-----------------------------------------------------------------------------
(* The branch *)

LEMMA ReadRefKeeps == ASSUME GithubInv, NEW p \in Pushes, ReadRef(p) PROVE GithubInv'
<1> DEFINE at == IF branch = <<>> THEN "move" ELSE "manifest"
           x == [pushes[p] EXCEPT !.at = at, !.base = branch]
<1>1. /\ pushes \in [Pushes -> Push] /\ branch \in Seq(Commit) /\ pushed \subseteq Pushes
      /\ UNCHANGED <<branch, publications, pushed, unrecorded, rewound>>
      /\ pushes[p].at = "readRef"
  BY DEF GithubInv, GithubTypeOK, ReadRef
<1>2. at \in {"move", "manifest"} /\ pushes' = [pushes EXCEPT ![p] = x]
  BY <1>1 DEF ReadRef
<1> HIDE DEF at
<1>3. /\ x \in Push /\ x.at = at /\ x.key = pushes[p].key /\ x.base = branch
  BY <1>1, <1>2 DEF Push
<1> HIDE DEF x
<1>4. /\ pushes' \in [Pushes -> Push]
      /\ \A q \in Pushes : /\ Key(q)' = Key(q)
                           /\ pushes'[q].at = IF q = p THEN at ELSE pushes[q].at
                           /\ pushes'[q].base = IF q = p THEN branch ELSE pushes[q].base
  BY <1>1, <1>2, <1>3 DEF Key
<1>5. GithubTypeOK'
  BY <1>1, <1>4 DEF GithubInv, GithubTypeOK
<1>6. RowIsHeld'
  BY <1>1, <1>2, <1>4 DEF GithubInv, RowIsHeld, Pushing
<1>7. ClaimedOnce'
  BY <1>1, <1>2, <1>4 DEF GithubInv, ClaimedOnce, AtWork, Pushing
<1>8. PushIsKnown'
  BY <1>1, <1>2, <1>4 DEF GithubInv, PushIsKnown, Pushing
<1>9. LengthsFit'
  BY <1>1, <1>4 DEF GithubInv, LengthsFit
<1>10. PushedOnce' /\ SuccessIsPushed' /\ FailedIsUnpushed'
  BY <1>1, <1>4 DEF GithubInv, PushedOnce, SuccessIsPushed, FailedIsUnpushed
<1> QED
  BY <1>5, <1>6, <1>7, <1>8, <1>9, <1>10 DEF GithubInv

LEMMA PushKeeps ==
  ASSUME GithubInv, NEW p \in Pushes, pushes[p].at = "move", NEW at \in {"record", "fail"}, Leaves(p, at),
         branch' = Append(pushes[p].base, [by |-> p, manifest |-> pushes[p].project]),
         pushed' = pushed \cup {p},
         unrecorded' = IF at = "record" THEN unrecorded ELSE unrecorded \cup {Key(p)},
         UNCHANGED <<publications, rewound>>
  PROVE  GithubInv'
<1> DEFINE commit == [by |-> p, manifest |-> pushes[p].project]
<1>1. /\ pushes' \in [Pushes -> Push]
      /\ \A q \in Pushes : /\ pushes'[q].key = pushes[q].key
                           /\ pushes'[q].at = IF q = p THEN at ELSE pushes[q].at
                           /\ pushes'[q].base \in {pushes[q].base, <<>>}
  BY Moved DEF Ats, AtWork, Pushing
<1>2. /\ pushes[p] \in Push /\ Key(p) \in Keys /\ pushed \subseteq Pushes /\ unrecorded \subseteq Keys
      /\ \A q \in Pushes : Key(q)' = Key(q)
  BY <1>1 DEF GithubInv, GithubTypeOK, Push, Key
<1>3. commit \in Commit /\ pushes[p].base \in Seq(Commit)
  BY <1>2 DEF Commit, Push
<1> HIDE DEF commit
<1>4. branch' \in Seq(Commit) /\ Len(branch') = Len(pushes[p].base) + 1
  BY <1>3 DEF commit
<1>5. p \notin pushed /\ publications[Key(p)] = "pending"
  BY DEF GithubInv, PushIsKnown, RowIsHeld, Pushing
<1>6. \A q \in Pushes : Key(q) = Key(p) /\ q # p => pushes[q].at \notin AtWork /\ q \notin pushed
  BY <1>2 DEF GithubInv, ClaimedOnce, AtWork, Pushing
<1>7. /\ Cardinality(pushed) \in Nat /\ Cardinality(pushed') = Cardinality(pushed) + 1
      /\ Cardinality(pushed') <= Cardinality(Pushes) /\ Cardinality(Pushes) \in Nat
  <2>1. pushed' \in SUBSET Pushes
    BY <1>2
  <2>2. IsFiniteSet(pushed)
    BY <1>2, PushedCount
  <2>3. Cardinality(pushed') = Cardinality(pushed) + 1
    BY <1>5, <2>2, FS_AddElement
  <2> QED
    BY <1>2, <2>1, <2>3, PushedCount
<1>8. Len(pushes[p].base) <= MaxCommits + Cardinality(pushed) /\ Len(pushes[p].base) \in Nat
  BY <1>3 DEF GithubInv, LengthsFit
<1>9. GithubTypeOK'
  <2>1. Len(branch') <= MaxCommits + Cardinality(Pushes)
    BY <1>4, <1>7, <1>8
  <2> QED
    BY <1>1, <1>2, <1>4, <2>1 DEF GithubInv, GithubTypeOK
<1>10. LengthsFit'
  <2>1. \A q \in Pushes : pushes[q].base \in Seq(Commit)
    BY DEF GithubInv, GithubTypeOK, Push
  <2>2. \A q \in Pushes : Len(pushes'[q].base) <= MaxCommits + Cardinality(pushed)
    BY <1>1, <1>7, <2>1 DEF GithubInv, LengthsFit
  <2>3. \A q \in Pushes : Len(pushes'[q].base) \in Nat
    BY <1>1 DEF Push
  <2>4. MaxCommits + Cardinality(pushed) <= MaxCommits + Cardinality(pushed')
        /\ Len(branch') <= MaxCommits + Cardinality(pushed')
    BY <1>4, <1>7, <1>8
  <2>5. ASSUME NEW q \in Pushes PROVE Len(pushes'[q].base) <= MaxCommits + Cardinality(pushed')
    BY <1>7, <2>2, <2>3, <2>4
  <2> QED
    BY <2>4, <2>5 DEF LengthsFit
<1>11. RowIsHeld'
  BY <1>1, <1>2, <1>5 DEF GithubInv, RowIsHeld, Pushing
<1>12. ClaimedOnce'
  BY <1>1, <1>2, <1>6 DEF GithubInv, ClaimedOnce, AtWork, Pushing
<1>13. PushIsKnown'
  BY <1>1, <1>2, <1>5 DEF GithubInv, PushIsKnown, Pushing
<1>14. PushedOnce'
  BY <1>2, <1>6 DEF GithubInv, PushedOnce
<1>15. SuccessIsPushed' /\ FailedIsUnpushed'
  BY <1>2, <1>5 DEF GithubInv, SuccessIsPushed, FailedIsUnpushed
<1> QED
  BY <1>9, <1>10, <1>11, <1>12, <1>13, <1>14, <1>15 DEF GithubInv

LEMMA MoveBranchKeeps == ASSUME GithubInv, NEW p \in Pushes, MoveBranch(p) PROVE GithubInv'
<1>1. unrecorded \subseteq Keys
  BY DEF GithubInv, GithubTypeOK
<1>2. CASE Leaves(p, "fail") /\ UNCHANGED <<branch, pushed, unrecorded>>
  BY <1>1, <1>2, MovesOn DEF MoveBranch, Ats, AtWork, Pushing
<1> DEFINE commit == [by |-> p, manifest |-> pushes[p].project]
<1>3. CASE /\ branch' = Append(pushes[p].base, commit)
           /\ pushed' = pushed \cup {p}
           /\ Leaves(p, "record") /\ UNCHANGED unrecorded
  BY <1>3, PushKeeps DEF MoveBranch
<1>4. CASE /\ branch' = Append(pushes[p].base, commit)
           /\ pushed' = pushed \cup {p}
           /\ Leaves(p, "fail") /\ unrecorded' = unrecorded \cup {Key(p)}
  BY <1>4, PushKeeps DEF MoveBranch
<1> QED
  BY <1>2, <1>3, <1>4 DEF MoveBranch

\* The customer's steps touch nothing but the branch.
LEMMA CustomerKeeps ==
  ASSUME GithubInv, branch' \in Seq(Commit), Len(branch') <= MaxCommits + Cardinality(pushed),
         rewound' \in BOOLEAN, UNCHANGED <<publications, pushes, pushed, unrecorded>>
  PROVE  GithubInv'
<1>1. /\ Cardinality(pushed) \in Nat /\ Cardinality(pushed) <= Cardinality(Pushes)
      /\ Cardinality(Pushes) \in Nat
  BY PushedCount DEF GithubInv, GithubTypeOK
<1>2. GithubTypeOK'
  <2>1. Len(branch') \in Nat
    OBVIOUS
  <2>2. Len(branch') <= MaxCommits + Cardinality(Pushes)
    BY <1>1, <2>1
  <2> QED
    BY <2>2 DEF GithubInv, GithubTypeOK
<1>3. RowIsHeld' /\ ClaimedOnce' /\ PushIsKnown' /\ LengthsFit'
  BY DEF GithubInv, RowIsHeld, ClaimedOnce, PushIsKnown, LengthsFit, Key
<1>4. PushedOnce' /\ SuccessIsPushed' /\ FailedIsUnpushed'
  BY DEF GithubInv, PushedOnce, SuccessIsPushed, FailedIsUnpushed, Key
<1> QED
  BY <1>2, <1>3, <1>4 DEF GithubInv

LEMMA CustomerCommitsKeeps ==
  ASSUME GithubInv, NEW m \in Projects \cup {NoProject}, CustomerCommits(m) PROVE GithubInv'
<1> DEFINE commit == [by |-> Customer, manifest |-> m]
<1>1. commit \in Commit /\ branch \in Seq(Commit)
  BY DEF Commit, GithubInv, GithubTypeOK
<1>2. branch' = Append(branch, commit) /\ Len(branch) < MaxCommits
  BY DEF CustomerCommits
<1> HIDE DEF commit
<1>3. branch' \in Seq(Commit) /\ Len(branch') = Len(branch) + 1 /\ Len(branch) \in Nat
  BY <1>1, <1>2
<1>4. Cardinality(pushed) \in Nat
  BY PushedCount DEF GithubInv, GithubTypeOK
<1>5. Len(branch') <= MaxCommits + Cardinality(pushed)
  BY <1>2, <1>3, <1>4
<1> QED
  BY <1>3, <1>5, CustomerKeeps DEF CustomerCommits, GithubInv, GithubTypeOK

LEMMA CustomerRewindsKeeps == ASSUME GithubInv, CustomerRewinds PROVE GithubInv'
<1>1. branch \in Seq(Commit) /\ Len(branch) \in Nat
  BY DEF GithubInv, GithubTypeOK
<1>2. PICK n \in 0 .. Len(branch) - 1 : branch' = SubSeq(branch, 1, n)
  BY DEF CustomerRewinds
<1>3. branch' \in Seq(Commit) /\ Len(branch') = n
  BY <1>1, <1>2
<1>4. Cardinality(pushed) \in Nat /\ Len(branch) <= MaxCommits + Cardinality(pushed)
  BY PushedCount DEF GithubInv, GithubTypeOK, LengthsFit
<1>5. Len(branch') <= MaxCommits + Cardinality(pushed)
  BY <1>1, <1>2, <1>3, <1>4
<1> QED
  BY <1>3, <1>5, CustomerKeeps DEF CustomerRewinds

-----------------------------------------------------------------------------
(* The theorems *)

LEMMA GithubNextInv == GithubInv /\ [GithubNext]_githubVars => GithubInv'
<1> SUFFICES ASSUME GithubInv, [GithubNext]_githubVars PROVE GithubInv'
  OBVIOUS
<1>1. ASSUME NEW p \in Pushes, CheckKey(p) \/ InsertPending(p) \/ CallFails(p) PROVE GithubInv'
  BY <1>1, CheckKeyKeeps, InsertPendingKeeps, CallFailsKeeps
<1>2. ASSUME NEW p \in Pushes, Complete(p) \/ Audit(p) \/ MarkFailed(p) \/ StopPush(p) PROVE GithubInv'
  BY <1>2, CompleteKeeps, AuditKeeps, MarkFailedKeeps, StopPushKeeps
<1>3. ASSUME NEW p \in Pushes, ReadRef(p) \/ ReadManifest(p) \/ MoveBranch(p) PROVE GithubInv'
  BY <1>3, ReadRefKeeps, ReadManifestKeeps, MoveBranchKeeps
<1>4. ASSUME NEW m \in Projects \cup {NoProject}, CustomerCommits(m) PROVE GithubInv'
  BY <1>4, CustomerCommitsKeeps
<1>5. CASE CustomerRewinds
  BY <1>5, CustomerRewindsKeeps
<1>6. CASE UNCHANGED githubVars
  BY <1>6 DEF githubVars, GithubInv, GithubTypeOK, RowIsHeld, ClaimedOnce, PushIsKnown, LengthsFit,
              PushedOnce, SuccessIsPushed, FailedIsUnpushed, Key
<1> QED
  BY <1>1, <1>2, <1>3, <1>4, <1>5, <1>6 DEF GithubNext

LEMMA GithubAlwaysInv == GithubSpec => []GithubInv
<1> QED
  BY GithubInitInv, GithubNextInv, PTL DEF GithubSpec

\* Whatever the number of requests, keys and projects, the branch, the rows and the requests
\* keep their types, and the branch grows by one commit per request at most beyond the
\* customer's.
THEOREM GithubTypeTheorem == GithubSpec => []GithubTypeOK
<1>1. GithubInv => GithubTypeOK
  BY DEF GithubInv
<1> QED
  BY <1>1, GithubAlwaysInv, PTL

\* Of the requests with one key, one at most writes to the customer's repository.
THEOREM PushedTheorem == GithubSpec => []PushedOnce
<1>1. GithubInv => PushedOnce
  BY DEF GithubInv
<1> QED
  BY <1>1, GithubAlwaysInv, PTL

\* A recorded success, and an answer that says published, stand for a commit that reached
\* the branch.
THEOREM SucceededTheorem == GithubSpec => []SucceededIsPushed
<1>1. GithubInv => SucceededIsPushed
  BY DEF GithubInv, SuccessIsPushed, RowIsHeld, SucceededIsPushed
<1> QED
  BY <1>1, GithubAlwaysInv, PTL

\* A row is marked failed only when nothing was written under its key, unless moving the
\* branch or recording the commit was answered as a failure.
THEOREM FailedTheorem == GithubSpec => []FailedIsUnpushed
<1>1. GithubInv => FailedIsUnpushed
  BY DEF GithubInv
<1> QED
  BY <1>1, GithubAlwaysInv, PTL

-----------------------------------------------------------------------------
(* The branch *)

\* While nobody has taken commits off the branch, what a request has read of it is no longer
\* than the branch; as long as it is the whole branch, a request about to move the branch has
\* seen there the manifest of its project.
ReadOf(p) ==
  LET base == pushes[p].base
  IN pushes[p].at \in {"manifest", "move"} =>
       /\ Len(base) <= Len(branch)
       /\ Len(base) = Len(branch) =>
            /\ base = branch
            /\ pushes[p].at = "move" /\ base # <<>> => Manages(p)

BranchInv == OnlyManaged /\ (~ rewound => \A p \in Pushes : ReadOf(p))

\* One more commit on the branch keeps the invariant, if it is the customer's or follows one
\* of its own project.
LEMMA BranchGrows ==
  ASSUME GithubInv, BranchInv, NEW c, c.by \in Pushes => branch = <<>> \/ Last(branch).manifest = c.manifest,
         branch' = Append(branch, c), rewound' = rewound,
         \A p \in Pushes : pushes'[p].at \in {"manifest", "move"} => pushes'[p] = pushes[p]
  PROVE  BranchInv'
<1> SUFFICES ASSUME ~ rewound
             PROVE  BranchInv'
  BY DEF BranchInv, OnlyManaged
<1> DEFINE n == Len(branch)
<1>1. /\ n \in Nat /\ Len(branch') = n + 1 /\ branch'[n + 1] = c
      /\ \A i \in 1 .. n : branch'[i] = branch[i]
      /\ branch # <<>> => n > 0 /\ Last(branch) = branch[n]
  BY DEF GithubInv, GithubTypeOK, Last
<1> HIDE DEF n
<1>2. ASSUME NEW i \in 2 .. n + 1, branch'[i].by \in Pushes
      PROVE  branch'[i - 1].manifest = branch'[i].manifest
  <2>1. CASE i = n + 1
    <3>1. branch # <<>> /\ branch'[i - 1] = branch[n]
      BY <1>1, <1>2, <2>1
    <3> QED
      BY <1>1, <1>2, <2>1, <3>1
  <2>2. CASE i \in 2 .. n
    <3>1. branch'[i] = branch[i] /\ branch'[i - 1] = branch[i - 1]
      BY <1>1, <2>2
    <3> QED
      BY <1>2, <2>2, <3>1 DEF BranchInv, OnlyManaged, n
  <2> QED
    BY <1>1, <2>1, <2>2
<1>3. OnlyManaged'
  BY <1>1, <1>2 DEF OnlyManaged
<1>4. ASSUME NEW p \in Pushes, pushes'[p].at \in {"manifest", "move"}
      PROVE  Len(pushes'[p].base) <= n + 1 /\ Len(pushes'[p].base) # n + 1
  <2>1. pushes'[p] = pushes[p] /\ Len(pushes[p].base) <= n /\ Len(pushes[p].base) \in Nat
    BY <1>4 DEF BranchInv, ReadOf, n, GithubInv, GithubTypeOK, Push
  <2> QED
    BY <1>1, <2>1
<1> QED
  BY <1>1, <1>3, <1>4 DEF BranchInv, ReadOf

\* A request that leaves the branch alone keeps it, if what it is about to use was read now.
LEMMA BranchRests ==
  ASSUME GithubInv, BranchInv, NEW p \in Pushes, UNCHANGED <<branch, rewound>>,
         \A q \in Pushes : q # p => pushes'[q] = pushes[q],
         ~ rewound => ReadOf(p)'
  PROVE  BranchInv'
BY DEF BranchInv, OnlyManaged, ReadOf, Manages

LEMMA BranchInvStep ==
  ASSUME GithubInv, BranchInv, [GithubNext]_githubVars
  PROVE  BranchInv'
<1>0. /\ branch \in Seq(Commit) /\ pushes \in [Pushes -> Push]
      /\ \A p \in Pushes : pushes[p].base \in Seq(Commit)
  BY DEF GithubInv, GithubTypeOK, Push
<1>1. ASSUME NEW p \in Pushes, NEW at, at \notin {"manifest", "move"}, At(p, at) \/ Leaves(p, at)
      PROVE  /\ \A q \in Pushes : q # p => pushes'[q] = pushes[q]
             /\ pushes'[p].at \notin {"manifest", "move"}
  BY <1>0, <1>1 DEF At, Leaves, Push
<1>2. ASSUME NEW p \in Pushes,
             \/ CheckKey(p) \/ InsertPending(p) \/ CallFails(p) \/ Complete(p) \/ Audit(p)
             \/ MarkFailed(p) \/ StopPush(p)
      PROVE  BranchInv'
  <2>1. UNCHANGED <<branch, rewound>>
    BY <1>2 DEF CheckKey, InsertPending, CallFails, Complete, Audit, MarkFailed, StopPush
  <2>2. \E at : at \notin {"manifest", "move"} /\ (At(p, at) \/ Leaves(p, at))
    BY <1>2 DEF CheckKey, InsertPending, CallFails, Complete, Audit, MarkFailed, StopPush
  <2> QED
    BY <1>1, <2>1, <2>2, BranchRests DEF ReadOf
<1>3. ASSUME NEW p \in Pushes, ReadRef(p)
      PROVE  BranchInv'
  <2>1. /\ UNCHANGED <<branch, rewound>>
        /\ \A q \in Pushes : q # p => pushes'[q] = pushes[q]
        /\ pushes'[p].base = branch
        /\ pushes'[p].at = "move" => branch = <<>>
    BY <1>0, <1>3 DEF ReadRef, Push
  <2>2. ReadOf(p)'
    BY <1>0, <2>1 DEF ReadOf
  <2> QED
    BY <2>1, <2>2, BranchRests
<1>4. ASSUME NEW p \in Pushes, ReadManifest(p)
      PROVE  BranchInv'
  <2>1. UNCHANGED <<branch, rewound>> /\ pushes[p].at = "manifest"
    BY <1>4 DEF ReadManifest
  <2>2. CASE Manages(p) /\ At(p, "move")
    <3>1. /\ \A q \in Pushes : q # p => pushes'[q] = pushes[q]
          /\ pushes'[p].base = pushes[p].base /\ pushes'[p].project = pushes[p].project
      BY <1>0, <2>2 DEF At, Push
    <3>2. ~ rewound => ReadOf(p)'
      BY <2>1, <2>2, <3>1 DEF BranchInv, ReadOf, Manages
    <3> QED
      BY <2>1, <3>1, <3>2, BranchRests
  <2>3. CASE Leaves(p, "fail")
    BY <1>1, <2>1, <2>3, BranchRests DEF ReadOf
  <2> QED
    BY <1>4, <2>2, <2>3 DEF ReadManifest
<1>5. ASSUME NEW p \in Pushes, MoveBranch(p)
      PROVE  BranchInv'
  <2> DEFINE base == pushes[p].base
             commit == [by |-> p, manifest |-> pushes[p].project]
  <2>1. pushes[p].at = "move" /\ rewound' = rewound
    BY <1>5 DEF MoveBranch
  <2>2. Leaves(p, "record") \/ Leaves(p, "fail")
    BY <1>5 DEF MoveBranch
  <2>3. /\ \A q \in Pushes : q # p => pushes'[q] = pushes[q]
        /\ pushes'[p].at \notin {"manifest", "move"}
    BY <1>1, <2>2
  <2>4. CASE branch' = branch
    BY <2>1, <2>3, <2>4, BranchRests DEF ReadOf
  <2>5. CASE Moves(base) /\ branch' = Append(base, commit)
    <3>1. CASE rewound
      BY <2>1, <3>1 DEF BranchInv, OnlyManaged
    <3>2. CASE ~ rewound
      <4>1. ReadOf(p) /\ base \in Seq(Commit) /\ Len(base) \in Nat /\ Len(branch) \in Nat
        BY <1>0, <3>2 DEF BranchInv
      <4>2. Len(base) <= Len(branch) /\ Len(branch) <= Len(base)
        BY <1>0, <2>1, <2>5, <4>1 DEF Moves, IsPrefix, ReadOf
      <4>3. Len(base) = Len(branch)
        BY <4>1, <4>2
      <4>4. base = branch /\ (branch # <<>> => Manages(p))
        BY <2>1, <4>1, <4>3 DEF ReadOf
      <4>5. commit.by \in Pushes => branch = <<>> \/ Last(branch).manifest = commit.manifest
        BY <4>4 DEF Manages
      <4> HIDE DEF commit
      <4> QED
        BY <2>1, <2>3, <2>5, <4>4, <4>5, BranchGrows
    <3> QED
      BY <3>1, <3>2
  <2> QED
    BY <1>5, <2>4, <2>5 DEF MoveBranch
<1>6. ASSUME NEW m \in Projects \cup {NoProject}, CustomerCommits(m)
      PROVE  BranchInv'
  <2> DEFINE commit == [by |-> Customer, manifest |-> m]
  <2>1. branch' = Append(branch, commit) /\ UNCHANGED <<pushes, rewound>> /\ commit.by \notin Pushes
    BY <1>6 DEF CustomerCommits
  <2> HIDE DEF commit
  <2> QED
    BY <2>1, BranchGrows
<1>7. CASE CustomerRewinds
  BY <1>7 DEF CustomerRewinds, BranchInv, OnlyManaged
<1>8. CASE UNCHANGED githubVars
  BY <1>8 DEF githubVars, BranchInv, OnlyManaged, ReadOf, Manages
<1> QED
  BY <1>2, <1>3, <1>4, <1>5, <1>6, <1>7, <1>8 DEF GithubNext

\* All of GithubSafe: besides the above, no commit of a project follows one that is not the
\* project's, unless the customer took commits off the branch.
THEOREM GithubIsSafe == GithubSpec => []GithubSafe
<1>1. GithubInit => BranchInv
  <2> SUFFICES ASSUME GithubInit PROVE BranchInv
    OBVIOUS
  <2>1. Len(branch) <= 1 /\ Len(branch) \in Nat
    <3>1. CASE branch = <<>>
      BY <3>1
    <3>2. ASSUME NEW m, branch = <<[by |-> Customer, manifest |-> m]>>
          PROVE  Len(branch) <= 1 /\ Len(branch) \in Nat
      BY <3>2
    <3> QED
      BY <3>1, <3>2 DEF GithubInit
  <2>2. \A p \in Pushes : pushes[p].at = "idle"
    BY DEF GithubInit
  <2> QED
    BY <2>1, <2>2 DEF BranchInv, OnlyManaged, ReadOf
<1>2. BranchInv => OnlyManaged
  BY DEF BranchInv
<1>3. GithubSpec => []OnlyManaged
  BY <1>1, <1>2, GithubAlwaysInv, BranchInvStep, PTL DEF GithubSpec
<1> QED
  BY <1>3, GithubTypeTheorem, PushedTheorem, SucceededTheorem, FailedTheorem, PTL DEF GithubSafe

\* No request takes a commit off the branch, of another project, another request or the
\* customer.
THEOREM CommitsTheorem == GithubSpec => CommitsKept
<1>1. GithubInv /\ [GithubNext]_githubVars => [pushed' # pushed => IsPrefix(branch, branch')]_githubVars
  <2> SUFFICES ASSUME GithubInv, GithubNext, pushed' # pushed
               PROVE  IsPrefix(branch, branch')
    BY DEF githubVars
  <2>1. PICK p \in Pushes : MoveBranch(p)
    BY DEF GithubNext, CheckKey, InsertPending, CallFails, Complete, Audit, MarkFailed, StopPush,
           ReadRef, ReadManifest, CustomerCommits, CustomerRewinds
  <2> DEFINE base == pushes[p].base
             commit == [by |-> p, manifest |-> pushes[p].project]
  <2>2. Moves(base) /\ branch' = Append(base, commit)
    BY <2>1 DEF MoveBranch
  <2>3. base \in Seq(Commit) /\ branch \in Seq(Commit)
    BY DEF GithubInv, GithubTypeOK, Push
  <2> HIDE DEF commit, base
  <2>4. CASE base = <<>>
    BY <2>2, <2>4 DEF Moves, IsPrefix
  <2>5. CASE base # <<>>
    <3>1. Len(branch) <= Len(base) /\ SubSeq(branch, 1, Len(branch)) = SubSeq(base, 1, Len(branch))
      BY <2>2, <2>3, <2>5 DEF Moves, IsPrefix
    <3>2. Len(branch') = Len(base) + 1 /\ \A i \in 1 .. Len(base) : branch'[i] = base[i]
      BY <2>2, <2>3
    <3>3. SubSeq(base, 1, Len(branch)) = SubSeq(branch', 1, Len(branch))
      BY <2>3, <3>1, <3>2
    <3> QED
      BY <2>3, <3>1, <3>2, <3>3 DEF IsPrefix
  <2> QED
    BY <2>4, <2>5
<1> QED
  BY <1>1, GithubAlwaysInv, PTL DEF GithubSpec, CommitsKept

-----------------------------------------------------------------------------
(* WebsiteStudio *)

\* The requests that store nothing any more.
Tried == {q \in Edits : editors[q].at \in {"remove", "over"}}

\* The images that some version refers to.
Shown == UNION {r.pictures : r \in specs}

Edited == {"direct", "asset-generation"}

\* What row was made from is stored and contained in it.
MadeFromParent(row) ==
  \E s \in specs :
    s.number = row.parent /\ s.content \subseteq row.content /\ s.pictures \subseteq row.pictures

\* No two rows share a number.
NumbersDiffer == \A r, s \in specs : r.number = s.number => r = s

\* There are no more versions than requests that stored one, and the first.
NumbersFit == \A r \in specs : r.number \in 1 .. Cardinality(Tried) + 1

\* An edited version contains the one it was made from.
ParentsFit ==
  \A r \in specs : r.source \in Edited => MadeFromParent(r) /\ r.parent < r.number

\* Nobody is about to remove an image that a version refers to.
ImagesKept ==
  \A x \in Shown : x \in unanswered \/ (x \in images /\ editors[x].at = "over")

\* What a request q knows that does e next: the images it is about to refer to are those of
\* versions and its own, and the number it is about to store came next when it read.
EditorFits(q, e) ==
  /\ e.at = "writeDraft" => e.brief = Steps
  /\ e.at = "publish" => e.output.number # 0
  /\ e.at \in {"image", "latest", "insert"} =>
       /\ e.output.source \in Edited => MadeFromParent(e.output)
       /\ e.output.pictures \subseteq Shown \cup {q}
       /\ q \in e.output.pictures \ Shown =>
            e.output.source = "asset-generation" /\ (e.at # "image" => q \in images)
  /\ e.at = "insert" =>
       /\ e.output.number \in 1 .. Cardinality(Tried) + 2
       /\ e.output.source \in Edited => e.output.parent < e.output.number

EditorsFit == \A q \in Edits : EditorFits(q, editors[q])

StudioInv ==
  /\ StudioTypeOK
  /\ DraftIsComplete
  /\ OneSitePerAddress
  /\ NumbersDiffer
  /\ NumbersFit
  /\ ParentsFit
  /\ ImagesKept
  /\ EditorsFit

LEMMA EndedFacts ==
  ASSUME StudioTypeOK
  PROVE  /\ IsFiniteSet(Tried) /\ Cardinality(Tried) \in Nat
         /\ Cardinality(Edits) \in Nat /\ Cardinality(Tried) <= Cardinality(Edits)
         /\ \A q \in Edits \ Tried : Cardinality(Tried) + 1 <= Cardinality(Edits)
<1>1. IsFiniteSet(Edits) /\ Tried \subseteq Edits
  BY StudioAssumption DEF Tried
<1>2. IsFiniteSet(Tried) /\ Cardinality(Tried) \in Nat /\ Cardinality(Edits) \in Nat
      /\ Cardinality(Tried) <= Cardinality(Edits)
  BY <1>1, FS_Subset, FS_CardinalityType
<1>3. ASSUME NEW q \in Edits \ Tried PROVE Cardinality(Tried) + 1 <= Cardinality(Edits)
  <2>1. Cardinality(Tried \cup {q}) = Cardinality(Tried) + 1
    BY <1>2, <1>3, FS_AddElement
  <2>2. Tried \cup {q} \subseteq Edits
    BY <1>1, <1>3
  <2> QED BY <1>1, <2>1, <2>2, FS_Subset
<1> QED BY <1>2, <1>3

\* A set of numbers no greater than a bound has a greatest one.
LEMMA MaxIsGreatest ==
  ASSUME NEW n \in Nat, NEW S \in SUBSET (0 .. n), S # {}
  PROVE  Max(S) \in S /\ \A m \in S : m <= Max(S)
<1> DEFINE Below == {k \in Nat : n - k \in S}
<1>1. PICK m \in S : TRUE
  OBVIOUS
<1>2. n - m \in Below
  <2>1. n - m \in Nat /\ n - (n - m) = m
    BY <1>1
  <2> QED BY <1>1, <2>1
<1>3. PICK k \in Below : \A j \in Below : ~ (<<j, k>> \in OpToRel(<, Nat))
  BY <1>2, WFMin, NatLessThanWellFounded
<1>4. n - k \in S /\ \A j \in S : j <= n - k
  <2>1. ASSUME NEW j \in S PROVE j <= n - k
    <3>1. n - j \in Below
      <4>1. n - j \in Nat /\ n - (n - j) = j
        OBVIOUS
      <4> QED BY <4>1
    <3>2. ~ (n - j < k) /\ n - j \in Nat /\ k \in Nat
      BY <1>3, <3>1 DEF OpToRel
    <3>3. j \in 0 .. n
      OBVIOUS
    <3> HIDE DEF Below
    <3> QED BY <3>2, <3>3
  <2> QED BY <1>3, <2>1
<1>5. \E x \in S : \A y \in S : x >= y
  BY <1>4
<1> QED BY <1>5 DEF Max

\* What the latest version is.
LEMMA LatestFacts ==
  ASSUME StudioTypeOK, NumbersFit
  PROVE  /\ Latest \in 0 .. Cardinality(Tried) + 1
         /\ \A r \in specs : r.number <= Latest
         /\ specs # {} => \E r \in specs : r.number = Latest
         /\ Latest > 0 => specs # {}
<1> DEFINE Ns == {r.number : r \in specs}
<1>1. Cardinality(Tried) + 1 \in Nat
  BY EndedFacts
<1>2. Ns \in SUBSET (0 .. Cardinality(Tried) + 1)
  BY <1>1 DEF NumbersFit
<1>3. CASE specs = {}
  BY <1>1, <1>3 DEF Latest
<1>4. CASE specs # {}
  <2>1. Ns # {}
    BY <1>4
  <2>2. Max(Ns) \in Ns /\ \A m \in Ns : m <= Max(Ns)
    <3> HIDE DEF Ns
    <3> QED BY <1>1, <1>2, <2>1, MaxIsGreatest
  <2>3. Latest = Max(Ns)
    BY <1>4 DEF Latest
  <2> HIDE DEF Latest
  <2>4. Latest \in Ns /\ \A r \in specs : r.number <= Latest
    BY <2>2, <2>3
  <2> QED BY <1>2, <1>4, <2>4
<1> QED BY <1>3, <1>4

LEMMA VersionFacts ==
  ASSUME NEW n, \E r \in specs : r.number = n
  PROVE  Version(n) \in specs /\ Version(n).number = n
  BY DEF Version

-----------------------------------------------------------------------------
(* Steps of one request that add no version and take away no image *)

LEMMA EndedGrows ==
  ASSUME StudioTypeOK, NEW q \in Edits, editors' = [editors EXCEPT ![q] = editors'[q]],
         editors'[q] \in Editor, editors[q].at # "over",
         editors[q].at = "remove" => editors'[q].at \in {"remove", "over"}
  PROVE  /\ editors' \in [Edits -> Editor]
         /\ Tried \subseteq Tried' /\ Cardinality(Tried)' \in Nat
         /\ Cardinality(Tried) <= Cardinality(Tried)'
         /\ q \notin Tried /\ q \in Tried' => Cardinality(Tried)' = Cardinality(Tried) + 1
<1>1. editors \in [Edits -> Editor] /\ editors' \in [Edits -> Editor]
  BY DEF StudioTypeOK
<1>2. Tried \subseteq Tried' /\ Tried' \subseteq Tried \cup {q}
  BY <1>1 DEF Tried
<1>3. IsFiniteSet(Edits) /\ Tried' \subseteq Edits
  BY StudioAssumption DEF Tried
<1>4. IsFiniteSet(Tried') /\ Cardinality(Tried') \in Nat
  BY <1>3, FS_Subset, FS_CardinalityType
<1>5. Cardinality(Tried) <= Cardinality(Tried')
  BY <1>2, <1>4, FS_Subset
<1>6. ASSUME q \notin Tried, q \in Tried' PROVE Cardinality(Tried') = Cardinality(Tried) + 1
  <2>1. Tried' = Tried \cup {q}
    BY <1>2, <1>6
  <2>2. IsFiniteSet(Tried)
    BY EndedFacts
  <2> QED BY <1>6, <2>1, <2>2, FS_AddElement
<1> QED BY <1>1, <1>2, <1>4, <1>5, <1>6

LEMMA EditorMoves ==
  ASSUME StudioInv, NEW q \in Edits, editors' = [editors EXCEPT ![q] = editors'[q]],
         editors'[q] \in Editor, editors[q].at # "over",
         editors[q].at = "remove" => editors'[q].at \in {"remove", "over"},
         specs' = specs, images \ {q} \subseteq images', unanswered' = unanswered,
         EditorFits(q, editors[q])'
  PROVE  NumbersDiffer' /\ NumbersFit' /\ ParentsFit' /\ ImagesKept' /\ EditorsFit'
<1>1. /\ editors \in [Edits -> Editor] /\ editors' \in [Edits -> Editor]
      /\ Cardinality(Tried) \in Nat /\ Cardinality(Tried)' \in Nat
      /\ Cardinality(Tried) <= Cardinality(Tried)'
  <2>1. StudioTypeOK
    BY DEF StudioInv
  <2> QED BY <2>1, EndedGrows, EndedFacts DEF StudioTypeOK
<1>2. NumbersDiffer' /\ ParentsFit'
  BY DEF StudioInv, NumbersDiffer, ParentsFit, MadeFromParent
<1>3. NumbersFit'
  <2>1. \A r \in specs : r.number \in 1 .. Cardinality(Tried) + 1
    BY DEF StudioInv, NumbersFit
  <2> QED BY <1>1, <2>1 DEF NumbersFit
<1>4. ImagesKept'
  <2>1. ASSUME NEW x \in Shown
        PROVE  x \in unanswered \/ (x \in images' /\ editors'[x].at = "over")
    <3>1. x \in unanswered \/ (x \in Edits /\ x \in images /\ editors[x].at = "over")
      BY DEF StudioInv, StudioTypeOK, ImagesKept
    <3> QED BY <1>1, <3>1
  <2> QED BY <2>1 DEF ImagesKept, Shown
<1>5. ASSUME NEW p \in Edits PROVE EditorFits(p, editors[p])'
  <2>1. CASE p = q
    BY <2>1
  <2>2. CASE p # q
    <3>1. editors'[p] = editors[p] /\ EditorFits(p, editors[p])
      BY <1>1, <2>2 DEF StudioInv, EditorsFit
    <3> QED BY <1>1, <3>1 DEF EditorFits, MadeFromParent, Shown
  <2> QED BY <2>1, <2>2
<1> QED BY <1>2, <1>3, <1>4, <1>5 DEF EditorsFit

LEMMA OnlyEditorMoves ==
  ASSUME StudioInv, NEW q \in Edits, editors' = [editors EXCEPT ![q] = editors'[q]],
         editors'[q] \in Editor, editors[q].at # "over",
         editors[q].at = "remove" => editors'[q].at \in {"remove", "over"},
         EditorFits(q, editors[q])',
         UNCHANGED <<project, specs, images, site, taken, overtaken, unanswered>>
  PROVE  StudioInv'
<1>1. NumbersDiffer' /\ NumbersFit' /\ ParentsFit' /\ ImagesKept' /\ EditorsFit'
  BY EditorMoves
<1>2. StudioTypeOK'
  BY DEF StudioInv, StudioTypeOK
<1>3. DraftIsComplete' /\ OneSitePerAddress'
  BY DEF StudioInv, DraftIsComplete, OneSitePerAddress, Opens
<1> QED BY <1>1, <1>2, <1>3 DEF StudioInv

LEMMA EndMoves ==
  ASSUME StudioTypeOK, NEW q \in Edits, EndEditor(q)
  PROVE  /\ editors' = [editors EXCEPT ![q] = editors'[q]]
         /\ editors'[q] \in Editor /\ editors'[q].at = "over"
         /\ EditorFits(q, editors[q])'
<1>1. editors \in [Edits -> Editor]
  BY DEF StudioTypeOK
<1>2. /\ editors' = [editors EXCEPT ![q] = editors'[q]]
      /\ editors'[q] = [NewEditor EXCEPT !.at = "over"]
  BY <1>1 DEF EndEditor
<1>3. [NewEditor EXCEPT !.at = "over"] \in Editor /\ [NewEditor EXCEPT !.at = "over"].at = "over"
  <2>1. 0 \in Numbers
    BY EndedFacts DEF Numbers
  <2> QED BY <2>1 DEF NewEditor, Editor, EmptyRow, Row
<1> QED BY <1>2, <1>3 DEF EditorFits

LEMMA StoresMoves ==
  ASSUME StudioTypeOK, NEW q \in Edits, NEW at \in {"image", "latest", "insert"}, NEW row \in Row,
         Stores(q, at, row)
  PROVE  /\ editors' = [editors EXCEPT ![q] = editors'[q]]
         /\ editors'[q] \in Editor /\ editors'[q].at = at /\ editors'[q].output = row
<1>1. /\ editors \in [Edits -> Editor]
      /\ editors' = [editors EXCEPT ![q].at = at, ![q].output = row]
  BY DEF StudioTypeOK, Stores
<1>2. /\ editors' = [editors EXCEPT ![q] = editors'[q]]
      /\ editors'[q] = [editors[q] EXCEPT !.at = at, !.output = row]
  BY <1>1
<1>3. editors[q] \in Editor
  BY <1>1
<1>4. [editors[q] EXCEPT !.at = at, !.output = row] \in Editor
  BY <1>3 DEF Editor
<1>5. editors'[q].at = at /\ editors'[q].output = row
  BY <1>2, <1>3 DEF Editor
<1> QED BY <1>2, <1>4, <1>5

LEMMA AbandonStudioKeeps ==
  ASSUME StudioInv, NEW q \in Edits, Abandon(q)
  PROVE  StudioInv'
<1>1. StudioTypeOK /\ EndEditor(q) /\ editors[q].at # "over"
      /\ UNCHANGED <<project, specs, images, site, taken, overtaken, unanswered>>
  BY DEF StudioInv, Abandon
<1>2. /\ editors' = [editors EXCEPT ![q] = editors'[q]]
      /\ editors'[q] \in Editor /\ editors'[q].at = "over"
      /\ EditorFits(q, editors[q])'
  BY <1>1, EndMoves
<1> QED BY <1>1, <1>2, OnlyEditorMoves

-----------------------------------------------------------------------------
(* The brief and the draft *)

LEMMA BeginBriefKeeps ==
  ASSUME StudioInv, NEW q \in Edits, BeginBrief(q)
  PROVE  StudioInv'
<1>1. editors \in [Edits -> Editor] /\ project.brief \subseteq Steps
  BY DEF StudioInv, StudioTypeOK, Project
<1>2. PICK brief \in SUBSET Steps :
        editors' = [editors EXCEPT ![q].at = "writeBrief", ![q].brief = brief]
  <2>1. PICK patch \in (SUBSET Steps) \ {{}} : \E filled \in SUBSET patch :
          editors' = [editors EXCEPT ![q].at = "writeBrief",
                                     ![q].brief = (project.brief \ patch) \cup filled]
    BY DEF BeginBrief
  <2>2. PICK filled \in SUBSET patch :
          editors' = [editors EXCEPT ![q].at = "writeBrief",
                                     ![q].brief = (project.brief \ patch) \cup filled]
    BY <2>1
  <2>3. (project.brief \ patch) \cup filled \in SUBSET Steps
    BY <1>1
  <2> QED BY <2>2, <2>3
<1>3. /\ editors' = [editors EXCEPT ![q] = editors'[q]]
      /\ editors'[q] \in Editor /\ editors'[q].at = "writeBrief"
  BY <1>1, <1>2 DEF Editor
<1>4. EditorFits(q, editors[q])'
  BY <1>3 DEF EditorFits
<1> QED BY <1>3, <1>4, OnlyEditorMoves DEF BeginBrief

LEMMA WriteBriefKeeps ==
  ASSUME StudioInv, NEW q \in Edits, WriteBrief(q)
  PROVE  StudioInv'
<1>1. StudioTypeOK /\ EndEditor(q) /\ editors[q].at = "writeBrief"
      /\ UNCHANGED <<specs, images, site, taken, overtaken, unanswered>>
  BY DEF StudioInv, WriteBrief
<1>2. /\ editors' = [editors EXCEPT ![q] = editors'[q]]
      /\ editors'[q] \in Editor /\ editors'[q].at = "over"
      /\ EditorFits(q, editors[q])'
  BY <1>1, EndMoves
<1>3. NumbersDiffer' /\ NumbersFit' /\ ParentsFit' /\ ImagesKept' /\ EditorsFit'
  BY <1>1, <1>2, EditorMoves
<1>4. editors[q].brief \subseteq Steps
  BY <1>1 DEF StudioTypeOK, Editor
<1>5. Cardinality(editors[q].brief) \in 0 .. Cardinality(Steps)
  BY <1>4, StudioAssumption, FS_Subset, FS_CardinalityType
<1>6. project' \in Project /\ (project'.status = "draft" => project' = project)
  BY <1>1, <1>4, <1>5 DEF WriteBrief, StillBriefing, StudioTypeOK, Project
<1>7. StudioTypeOK'
  BY <1>1, <1>2, <1>6 DEF StudioTypeOK
<1>8. DraftIsComplete' /\ OneSitePerAddress'
  BY <1>1, <1>6 DEF StudioInv, DraftIsComplete, OneSitePerAddress, Opens
<1> QED BY <1>3, <1>7, <1>8 DEF StudioInv

LEMMA BeginDraftKeeps ==
  ASSUME StudioInv, NEW q \in Edits, BeginDraft(q)
  PROVE  StudioInv'
<1>1. editors \in [Edits -> Editor] /\ project.brief = Steps /\ editors[q].at = "idle"
      /\ editors' = [editors EXCEPT ![q].at = "writeDraft", ![q].brief = project.brief]
      /\ UNCHANGED <<project, specs, images, site, taken, overtaken, unanswered>>
  BY DEF StudioInv, StudioTypeOK, BeginDraft
<1>2. /\ editors' = [editors EXCEPT ![q] = editors'[q]]
      /\ editors'[q] \in Editor /\ editors'[q].at = "writeDraft" /\ editors'[q].brief = Steps
  BY <1>1 DEF Editor
<1>3. EditorFits(q, editors[q])'
  BY <1>2 DEF EditorFits
<1> QED BY <1>1, <1>2, <1>3, OnlyEditorMoves

LEMMA WriteDraftKeeps ==
  ASSUME StudioInv, NEW q \in Edits, WriteDraft(q)
  PROVE  StudioInv'
<1>1. StudioTypeOK /\ EndEditor(q) /\ editors[q].at = "writeDraft"
      /\ UNCHANGED <<specs, images, site, taken, unanswered>>
  BY DEF StudioInv, WriteDraft
<1>2. /\ editors' = [editors EXCEPT ![q] = editors'[q]]
      /\ editors'[q] \in Editor /\ editors'[q].at = "over"
      /\ EditorFits(q, editors[q])'
  BY <1>1, EndMoves
<1>3. NumbersDiffer' /\ NumbersFit' /\ ParentsFit' /\ ImagesKept' /\ EditorsFit'
  BY <1>1, <1>2, EditorMoves
<1>4. editors[q].brief = Steps
  BY <1>1 DEF StudioInv, EditorsFit, EditorFits
<1>5. Cardinality(Steps) \in 0 .. Cardinality(Steps)
  BY StudioAssumption, FS_CardinalityType
<1>6. CASE project.status = "briefing"
  <2>1. /\ project' = [project EXCEPT !.status = "draft", !.progress = Cardinality(Steps)]
        /\ overtaken' = (project.brief # Steps)
    BY <1>4, <1>6 DEF WriteDraft
  <2>2. project' \in Project /\ project'.brief = project.brief
        /\ project'.progress = Cardinality(Steps)
    BY <1>1, <1>5, <2>1 DEF StudioTypeOK, Project
  <2>3. StudioTypeOK'
    BY <1>1, <1>2, <2>1, <2>2 DEF StudioTypeOK
  <2>4. DraftIsComplete' /\ OneSitePerAddress'
    BY <1>1, <2>1, <2>2 DEF StudioInv, DraftIsComplete, OneSitePerAddress, Opens
  <2> QED BY <1>3, <2>3, <2>4 DEF StudioInv
<1>7. CASE project.status # "briefing"
  <2>1. UNCHANGED <<project, overtaken>>
    BY <1>7 DEF WriteDraft
  <2> QED BY <1>1, <1>2, <2>1, OnlyEditorMoves
<1> QED BY <1>6, <1>7

-----------------------------------------------------------------------------
(* Versions *)

\* A request begins with a version it is going to store.
LEMMA BeginStores ==
  ASSUME StudioInv, NEW q \in Edits, editors[q].at = "idle",
         NEW at \in {"image", "latest"}, NEW row \in Row, Stores(q, at, row),
         row.source \in Edited => MadeFromParent(row),
         row.pictures \subseteq Shown \cup {q},
         q \in row.pictures \ Shown => row.source = "asset-generation" /\ at = "image",
         UNCHANGED <<project, specs, images, site, taken, overtaken, unanswered>>
  PROVE  StudioInv'
<1>1. /\ editors' = [editors EXCEPT ![q] = editors'[q]]
      /\ editors'[q] \in Editor /\ editors'[q].at = at /\ editors'[q].output = row
  BY StoresMoves DEF StudioInv
<1>2. (row.source \in Edited => MadeFromParent(row)') /\ Shown' = Shown
  BY DEF MadeFromParent, Shown
<1>3. EditorFits(q, editors[q])'
  BY <1>1, <1>2 DEF EditorFits, MadeFromParent
<1> QED BY <1>1, <1>3, OnlyEditorMoves

LEMMA BeginGenerateKeeps ==
  ASSUME StudioInv, NEW q \in Edits, BeginGenerate(q)
  PROVE  StudioInv'
<1>1. EmptyRow \in Row /\ EmptyRow.source \notin Edited /\ EmptyRow.pictures = {}
  <2>1. 0 \in Numbers
    BY EndedFacts DEF StudioInv, Numbers
  <2> QED BY <2>1 DEF EmptyRow, Row, Edited
<1>2. editors[q].at = "idle" /\ Stores(q, "latest", EmptyRow)
      /\ UNCHANGED <<project, specs, images, site, taken, overtaken, unanswered>>
  BY DEF BeginGenerate
<1> QED BY <1>1, <1>2, BeginStores

\* The version a request finds is a row, and its images are shown.
LEMMA CurrentFacts ==
  ASSUME StudioInv, Latest > 0
  PROVE  Version(Latest) \in specs /\ Version(Latest) \in Row
         /\ Version(Latest).pictures \subseteq Shown
<1>1. StudioTypeOK /\ NumbersFit
  BY DEF StudioInv
<1>2. \E r \in specs : r.number = Latest
  BY <1>1, LatestFacts
<1>3. Version(Latest) \in specs
  BY <1>2, VersionFacts
<1> QED BY <1>1, <1>3 DEF StudioTypeOK, Shown

LEMMA BeginEditKeeps ==
  ASSUME StudioInv, NEW q \in Edits, BeginEdit(q)
  PROVE  StudioInv'
<1> PICK current : current = Version(Latest)
  OBVIOUS
<1>1. current \in specs /\ current \in Row /\ current.pictures \subseteq Shown
  BY CurrentFacts DEF BeginEdit
<1>2. 0 \in Numbers
  BY EndedFacts DEF StudioInv, Numbers
<1> DEFINE edit == [current EXCEPT !.number = 0, !.parent = current.number]
           direct == [edit EXCEPT !.content = @ \cup {q}, !.source = "direct"]
           redrawn(kept) == [edit EXCEPT !.content = @ \cup {q}, !.pictures = kept,
                                         !.source = "natural-language"]
<1>3. editors[q].at = "idle"
      /\ UNCHANGED <<project, specs, images, site, taken, overtaken, unanswered>>
      /\ \/ Stores(q, "latest", direct)
         \/ \E kept \in SUBSET current.pictures : Stores(q, "latest", redrawn(kept))
  BY DEF BeginEdit
<1>4. CASE Stores(q, "latest", direct)
  <2>1. /\ direct \in Row /\ direct.parent = current.number
        /\ direct.pictures = current.pictures /\ current.content \subseteq direct.content
    BY <1>1, <1>2 DEF Row
  <2>2. MadeFromParent(direct)
    <3> HIDE DEF direct
    <3> QED BY <1>1, <2>1 DEF MadeFromParent
  <2>3. direct.pictures \subseteq Shown
    BY <1>1, <2>1
  <2> HIDE DEF direct
  <2> QED BY <1>3, <1>4, <2>1, <2>2, <2>3, BeginStores
<1>5. CASE \E kept \in SUBSET current.pictures : Stores(q, "latest", redrawn(kept))
  <2> PICK kept \in SUBSET current.pictures : Stores(q, "latest", redrawn(kept))
    BY <1>5
  <2>1. redrawn(kept) \in Row /\ redrawn(kept).pictures = kept
        /\ redrawn(kept).source \notin Edited
    BY <1>1, <1>2 DEF Row, Edited
  <2>2. redrawn(kept).pictures \subseteq Shown
    BY <1>1, <2>1
  <2> HIDE DEF redrawn
  <2> QED BY <1>3, <2>1, <2>2, BeginStores
<1> QED BY <1>3, <1>4, <1>5

LEMMA BeginImageKeeps ==
  ASSUME StudioInv, NEW q \in Edits, BeginImage(q)
  PROVE  StudioInv'
<1> PICK current : current = Version(Latest)
  OBVIOUS
<1>1. current \in specs /\ current \in Row /\ current.pictures \subseteq Shown
  BY CurrentFacts DEF BeginImage
<1>2. 0 \in Numbers
  BY EndedFacts DEF StudioInv, Numbers
<1> DEFINE row == [current EXCEPT !.number = 0, !.parent = current.number,
                                  !.content = @ \cup {q}, !.pictures = @ \cup {q},
                                  !.source = "asset-generation"]
<1>3. editors[q].at = "idle" /\ Stores(q, "image", row)
      /\ UNCHANGED <<project, specs, images, site, taken, overtaken, unanswered>>
  BY DEF BeginImage
<1>4. /\ row \in Row /\ row.parent = current.number /\ row.source = "asset-generation"
      /\ row.pictures = current.pictures \cup {q} /\ current.content \subseteq row.content
  BY <1>1, <1>2 DEF Row
<1> HIDE DEF row
<1>5. MadeFromParent(row) /\ row.pictures \subseteq Shown \cup {q}
  BY <1>1, <1>4 DEF MadeFromParent
<1> QED BY <1>3, <1>4, <1>5, BeginStores

LEMMA BeginRestoreKeeps ==
  ASSUME StudioInv, NEW q \in Edits, BeginRestore(q)
  PROVE  StudioInv'
<1> PICK n : n = Latest
  OBVIOUS
<1>1. 0 \in Numbers /\ n \in Numbers
  <2>1. n \in 0 .. Cardinality(Tried) + 1
    BY LatestFacts DEF StudioInv
  <2> QED BY <2>1, EndedFacts DEF StudioInv, Numbers
<1>2. PICK restored \in specs :
        Stores(q, "latest", [restored EXCEPT !.number = 0, !.parent = n, !.source = "restore"])
  BY DEF BeginRestore
<1> DEFINE row == [restored EXCEPT !.number = 0, !.parent = n, !.source = "restore"]
<1>3. restored \in Row /\ restored.pictures \subseteq Shown
  BY DEF StudioInv, StudioTypeOK, Shown
<1>4. row \in Row /\ row.source \notin Edited /\ row.pictures = restored.pictures
  BY <1>1, <1>3 DEF Row, Edited
<1>5. editors[q].at = "idle" /\ Stores(q, "latest", row)
      /\ UNCHANGED <<project, specs, images, site, taken, overtaken, unanswered>>
  BY <1>2 DEF BeginRestore
<1> HIDE DEF row
<1>6. row.pictures \subseteq Shown
  BY <1>3, <1>4
<1> QED BY <1>4, <1>5, <1>6, BeginStores

LEMMA StoreImageKeeps ==
  ASSUME StudioInv, NEW q \in Edits, StoreImage(q)
  PROVE  StudioInv'
<1>1. /\ editors \in [Edits -> Editor] /\ editors[q].at = "image"
      /\ editors' = [editors EXCEPT ![q].at = "latest"] /\ images' = images \cup {q}
      /\ UNCHANGED <<project, specs, site, taken, overtaken, unanswered>>
  BY DEF StudioInv, StudioTypeOK, StoreImage
<1>2. /\ editors' = [editors EXCEPT ![q] = editors'[q]]
      /\ editors'[q] \in Editor /\ editors'[q].at = "latest"
      /\ editors'[q].output = editors[q].output
  BY <1>1 DEF Editor
<1>3. EditorFits(q, editors[q])
  BY DEF StudioInv, EditorsFit
<1>4. EditorFits(q, editors[q])'
  BY <1>1, <1>2, <1>3 DEF EditorFits, MadeFromParent, Shown
<1>5. NumbersDiffer' /\ NumbersFit' /\ ParentsFit' /\ ImagesKept' /\ EditorsFit'
  BY <1>1, <1>2, <1>4, EditorMoves
<1>6. StudioTypeOK'
  BY <1>1, <1>2 DEF StudioInv, StudioTypeOK
<1>7. DraftIsComplete' /\ OneSitePerAddress'
  BY <1>1 DEF StudioInv, DraftIsComplete, OneSitePerAddress, Opens
<1> QED BY <1>5, <1>6, <1>7 DEF StudioInv

LEMMA ReadLatestKeeps ==
  ASSUME StudioInv, NEW q \in Edits, ReadLatest(q)
  PROVE  StudioInv'
<1>1. /\ editors \in [Edits -> Editor] /\ editors[q].at = "latest"
      /\ UNCHANGED <<project, specs, images, site, taken, overtaken, unanswered>>
      /\ StudioTypeOK /\ NumbersFit
  BY DEF StudioInv, StudioTypeOK, ReadLatest
<1> PICK n : n = Latest
  OBVIOUS
<1>2. /\ n \in 0 .. Cardinality(Tried) + 1 /\ \A r \in specs : r.number <= n /\ r.number \in Nat
      /\ Cardinality(Tried) + 1 <= Cardinality(Edits)
      /\ Cardinality(Tried) \in Nat /\ Cardinality(Edits) \in Nat
  BY <1>1, EndedFacts, LatestFacts DEF Tried, NumbersFit
<1>3. n + 1 \in Numbers /\ n + 1 \in 1 .. Cardinality(Tried) + 2
  BY <1>2 DEF Numbers
<1>4. CASE Stores(q, "insert", Numbered(editors[q].output))
  <2> PICK row : row = Numbered(editors[q].output)
    OBVIOUS
  <2>1. editors[q].output \in Row
    BY <1>1 DEF Editor
  <2>2. /\ row \in Row /\ row.number = n + 1 /\ row.parent = editors[q].output.parent
        /\ row.source = editors[q].output.source /\ row.pictures = editors[q].output.pictures
        /\ row.content = editors[q].output.content
    BY <1>3, <2>1 DEF Numbered, Row
  <2>3. /\ editors' = [editors EXCEPT ![q] = editors'[q]]
        /\ editors'[q] \in Editor /\ editors'[q].at = "insert" /\ editors'[q].output = row
    BY <1>1, <1>4, <2>2, StoresMoves
  <2>4. EditorFits(q, editors[q])
    BY DEF StudioInv, EditorsFit
  <2>5. row.source \in Edited => MadeFromParent(row) /\ row.parent < row.number
    BY <1>1, <1>2, <2>2, <2>4 DEF EditorFits, MadeFromParent
  <2>6. row.source \in Edited => MadeFromParent(row)'
    BY <1>1, <2>5 DEF MadeFromParent
  <2>7. row.number \in 1 .. Cardinality(Tried)' + 2
    <3>1. Cardinality(Tried) <= Cardinality(Tried)' /\ Cardinality(Tried)' \in Nat
      BY <1>1, <2>3, EndedGrows
    <3> QED BY <1>2, <1>3, <2>2, <3>1
  <2>8. /\ row.pictures \subseteq Shown' \cup {q}
        /\ q \in row.pictures \ Shown' => row.source = "asset-generation" /\ q \in images'
    BY <1>1, <2>2, <2>4 DEF EditorFits, Shown
  <2>9. EditorFits(q, editors[q])'
    BY <2>3, <2>5, <2>6, <2>7, <2>8 DEF EditorFits, MadeFromParent
  <2> QED BY <1>1, <2>3, <2>9, OnlyEditorMoves
<1>5. CASE editors' = [editors EXCEPT ![q].at = "remove"]
  <2>1. /\ editors' = [editors EXCEPT ![q] = editors'[q]]
        /\ editors'[q] \in Editor /\ editors'[q].at = "remove"
    BY <1>1, <1>5 DEF Editor
  <2>2. EditorFits(q, editors[q])'
    BY <2>1 DEF EditorFits
  <2> QED BY <1>1, <2>1, <2>2, OnlyEditorMoves
<1> QED BY <1>4, <1>5 DEF ReadLatest

LEMMA InsertSpecKeeps ==
  ASSUME StudioInv, NEW q \in Edits, InsertSpec(q)
  PROVE  StudioInv'
<1> PICK row : row = editors[q].output
  OBVIOUS
<1>1. /\ StudioTypeOK /\ editors \in [Edits -> Editor] /\ editors[q].at = "insert"
      /\ row \in Row /\ UNCHANGED <<project, images, site, taken, overtaken>>
  BY DEF StudioInv, StudioTypeOK, InsertSpec, Editor
<1>2. EditorFits(q, editors[q])
  BY DEF StudioInv, EditorsFit
<1>3. ASSUME editors' = [editors EXCEPT ![q].at = "remove"] \/ EndEditor(q)
      PROVE  /\ editors' = [editors EXCEPT ![q] = editors'[q]]
             /\ editors'[q] \in Editor /\ editors'[q].at \in {"remove", "over"}
             /\ EditorFits(q, editors[q])'
  <2>1. CASE EndEditor(q)
    BY <1>1, <2>1, EndMoves
  <2>2. CASE editors' = [editors EXCEPT ![q].at = "remove"]
    <3>1. /\ editors' = [editors EXCEPT ![q] = editors'[q]]
          /\ editors'[q] \in Editor /\ editors'[q].at = "remove"
      BY <1>1, <2>2 DEF Editor
    <3> QED BY <3>1 DEF EditorFits
  <2> QED BY <1>3, <2>1, <2>2
<1>4. CASE specs' = specs \cup {row} /\ Free(row.number)
  <2>1. /\ editors' = [editors EXCEPT ![q].at = "remove"] \/ EndEditor(q)
        /\ unanswered \subseteq unanswered' /\ unanswered' \subseteq unanswered \cup {q}
        /\ q \in row.pictures => EndEditor(q) \/ q \in unanswered'
    <3>1. row \notin specs
      BY <1>4 DEF Free
    <3> QED BY <1>1, <1>4, <3>1 DEF InsertSpec, Removes
  <2>2. /\ editors' = [editors EXCEPT ![q] = editors'[q]]
        /\ editors'[q] \in Editor /\ editors'[q].at \in {"remove", "over"}
        /\ EditorFits(q, editors[q])'
    BY <1>3, <2>1
  <2>3. EndEditor(q) => editors'[q].at = "over"
    BY <1>1, EndMoves
  <2>4. q \notin Tried /\ q \in Tried'
    BY <1>1, <2>2 DEF Tried
  <2>5. /\ editors' \in [Edits -> Editor] /\ Cardinality(Tried)' = Cardinality(Tried) + 1
        /\ Cardinality(Tried) \in Nat
    BY <1>1, <2>2, <2>4, EndedGrows, EndedFacts
  <2>6. /\ row.number \in 1 .. Cardinality(Tried) + 2
        /\ row.source \in Edited => MadeFromParent(row) /\ row.parent < row.number
        /\ row.pictures \subseteq Shown \cup {q}
        /\ q \in row.pictures \ Shown => q \in images
    BY <1>1, <1>2 DEF EditorFits
  <2>7. ASSUME NEW r, MadeFromParent(r) PROVE MadeFromParent(r)'
    BY <1>4, <2>7 DEF MadeFromParent
  <2>8. Shown' = Shown \cup row.pictures
    BY <1>4 DEF Shown
  <2>9. StudioTypeOK'
    BY <1>1, <1>4, <2>1, <2>5 DEF StudioTypeOK
  <2>10. NumbersDiffer'
    BY <1>4 DEF StudioInv, NumbersDiffer, Free
  <2>11. NumbersFit'
    <3>1. \A r \in specs : r.number \in 1 .. Cardinality(Tried) + 1
      BY DEF StudioInv, NumbersFit
    <3> QED BY <1>4, <2>5, <2>6, <3>1 DEF NumbersFit
  <2>12. ParentsFit'
    <3>1. \A r \in specs' : r.source \in Edited => MadeFromParent(r) /\ r.parent < r.number
      BY <1>4, <2>6 DEF StudioInv, ParentsFit
    <3> QED BY <2>7, <3>1 DEF ParentsFit
  <2>13. ImagesKept'
    <3>1. ASSUME NEW x \in Shown'
          PROVE  x \in unanswered' \/ (x \in images' /\ editors'[x].at = "over")
      <4>1. CASE x \in Shown
        <5>1. x \in unanswered \/ (x \in Edits /\ x \in images /\ editors[x].at = "over")
          BY <1>1, <4>1 DEF StudioInv, StudioTypeOK, ImagesKept
        <5> QED BY <1>1, <2>1, <2>2, <5>1
      <4>2. CASE x \notin Shown
        <5>1. x = q /\ q \in row.pictures /\ q \in images
          BY <2>6, <2>8, <3>1, <4>2
        <5> QED BY <1>1, <2>1, <2>3, <5>1
      <4> QED BY <4>1, <4>2
    <3> QED BY <3>1 DEF ImagesKept
  <2>14. ASSUME NEW p \in Edits PROVE EditorFits(p, editors[p])'
    <3>1. CASE p = q
      BY <2>2, <3>1
    <3>2. CASE p # q
      <4>1. editors'[p] = editors[p] /\ EditorFits(p, editors[p])
        BY <1>1, <2>2, <3>2 DEF StudioInv, EditorsFit
      <4>2. editors[p].output.number \in 1 .. Cardinality(Tried) + 2
              => editors[p].output.number \in 1 .. Cardinality(Tried)' + 2
        BY <2>5
      <4>3. MadeFromParent(editors[p].output) => MadeFromParent(editors[p].output)'
        BY <1>4, <4>1 DEF MadeFromParent
      <4> QED BY <1>1, <2>8, <4>1, <4>2, <4>3 DEF EditorFits
    <3> QED BY <3>1, <3>2
  <2>15. DraftIsComplete' /\ OneSitePerAddress'
    BY <1>1 DEF StudioInv, DraftIsComplete, OneSitePerAddress, Opens
  <2> QED BY <2>9, <2>10, <2>11, <2>12, <2>13, <2>14, <2>15 DEF StudioInv, EditorsFit
<1>5. CASE UNCHANGED <<specs, unanswered>>
  <2>1. editors' = [editors EXCEPT ![q].at = "remove"] \/ EndEditor(q)
    BY DEF InsertSpec
  <2>2. /\ editors' = [editors EXCEPT ![q] = editors'[q]]
        /\ editors'[q] \in Editor /\ editors'[q].at \in {"remove", "over"}
        /\ EditorFits(q, editors[q])'
    BY <1>3, <2>1
  <2> QED BY <1>1, <1>5, <2>2, OnlyEditorMoves
<1> QED BY <1>4, <1>5 DEF InsertSpec

LEMMA RemoveImageKeeps ==
  ASSUME StudioInv, NEW q \in Edits, RemoveImage(q)
  PROVE  StudioInv'
<1>1. /\ StudioTypeOK /\ EndEditor(q) /\ editors[q].at = "remove" /\ images' = images \ {q}
      /\ UNCHANGED <<project, specs, site, taken, overtaken, unanswered>>
  BY DEF StudioInv, RemoveImage
<1>2. /\ editors' = [editors EXCEPT ![q] = editors'[q]]
      /\ editors'[q] \in Editor /\ editors'[q].at = "over"
      /\ EditorFits(q, editors[q])'
  BY <1>1, EndMoves
<1>3. NumbersDiffer' /\ NumbersFit' /\ ParentsFit' /\ ImagesKept' /\ EditorsFit'
  BY <1>1, <1>2, EditorMoves
<1>4. StudioTypeOK'
  BY <1>1, <1>2 DEF StudioTypeOK
<1>5. DraftIsComplete' /\ OneSitePerAddress'
  BY <1>1 DEF StudioInv, DraftIsComplete, OneSitePerAddress, Opens
<1> QED BY <1>3, <1>4, <1>5 DEF StudioInv

-----------------------------------------------------------------------------
(* Publication *)

LEMMA BeginPublishKeeps ==
  ASSUME StudioInv, NEW q \in Edits, BeginPublish(q)
  PROVE  StudioInv'
<1>1. /\ editors \in [Edits -> Editor] /\ site.slug \in Slugs \cup {NoSlug} /\ editors[q].at = "idle"
      /\ UNCHANGED <<project, specs, images, site, taken, overtaken, unanswered>>
  BY DEF StudioInv, StudioTypeOK, BeginPublish
<1>2. PICK row \in specs, given \in Slugs \cup {NoSlug} :
        editors' = [editors EXCEPT ![q].at = "publish", ![q].output = row, ![q].slug = given,
                                   ![q].seen = site.slug]
  BY DEF BeginPublish
<1>3. row \in Row /\ row.number # 0
  <2>1. row.number \in 1 .. Cardinality(Tried) + 1 /\ row \in Row
    BY DEF StudioInv, NumbersFit, StudioTypeOK
  <2> QED BY <2>1
<1>4. /\ editors' = [editors EXCEPT ![q] = editors'[q]]
      /\ editors'[q] \in Editor /\ editors'[q].at = "publish" /\ editors'[q].output = row
  BY <1>1, <1>2, <1>3 DEF Editor
<1>5. EditorFits(q, editors[q])'
  BY <1>3, <1>4 DEF EditorFits
<1> QED BY <1>1, <1>4, <1>5, OnlyEditorMoves

LEMMA PublishKeeps ==
  ASSUME StudioInv, NEW q \in Edits, Publish(q)
  PROVE  StudioInv'
<1>1. /\ StudioTypeOK /\ EndEditor(q) /\ editors[q].at = "publish"
      /\ UNCHANGED <<project, specs, images, taken, overtaken, unanswered>>
  BY DEF StudioInv, Publish
<1>2. /\ editors' = [editors EXCEPT ![q] = editors'[q]]
      /\ editors'[q] \in Editor /\ editors'[q].at = "over"
      /\ EditorFits(q, editors[q])'
  BY <1>1, EndMoves
<1>3. NumbersDiffer' /\ NumbersFit' /\ ParentsFit' /\ ImagesKept' /\ EditorsFit'
  BY <1>1, <1>2, EditorMoves
<1> PICK address : address = Address(editors[q].slug, editors[q].seen)
  OBVIOUS
<1>4. address \in Slugs /\ address # NoSlug
  BY <1>1, StudioAssumption DEF Address, StudioTypeOK, Editor
<1>5. editors[q].output.number \in Numbers /\ editors[q].output.number # 0
  BY <1>1 DEF StudioInv, StudioTypeOK, EditorsFit, EditorFits, Editor, Row
<1>6. site' = IF address \notin taken THEN [number |-> editors[q].output.number, slug |-> address]
              ELSE site
  BY DEF Publish, Available
<1>7. /\ site' \in [number : Numbers, slug : Slugs \cup {NoSlug}]
      /\ site'.number = 0 <=> site'.slug = NoSlug
      /\ site'.slug \notin taken
  BY <1>1, <1>4, <1>5, <1>6 DEF StudioInv, StudioTypeOK, OneSitePerAddress
<1>8. StudioTypeOK'
  BY <1>1, <1>2, <1>7 DEF StudioTypeOK
<1>9. DraftIsComplete' /\ OneSitePerAddress'
  BY <1>1, <1>7 DEF StudioInv, DraftIsComplete, OneSitePerAddress, Opens
<1> QED BY <1>3, <1>8, <1>9 DEF StudioInv

LEMMA VersionsRest ==
  ASSUME StudioInv, UNCHANGED <<specs, images, editors, unanswered>>
  PROVE  NumbersDiffer' /\ NumbersFit' /\ ParentsFit' /\ ImagesKept' /\ EditorsFit'
<1>1. Tried' = Tried /\ Shown' = Shown
  BY DEF Tried, Shown
<1>3. NumbersDiffer' /\ NumbersFit'
  BY <1>1 DEF StudioInv, NumbersDiffer, NumbersFit
<1>4. ParentsFit' /\ ImagesKept'
  BY <1>1 DEF StudioInv, ParentsFit, ImagesKept, MadeFromParent
<1>5. EditorsFit'
  <2> SUFFICES ASSUME NEW q \in Edits, EditorFits(q, editors[q]) PROVE EditorFits(q, editors[q])'
    BY DEF StudioInv, EditorsFit
  <2> QED BY <1>1 DEF EditorFits, MadeFromParent
<1> QED BY <1>3, <1>4, <1>5

LEMMA PublishOtherKeeps ==
  ASSUME StudioInv, NEW old, NEW new \in Slugs, PublishOther(old, new)
  PROVE  StudioInv'
<1>1. StudioTypeOK' /\ OneSitePerAddress'
  BY DEF StudioInv, PublishOther, StudioTypeOK, OneSitePerAddress
<1>2. NumbersDiffer' /\ NumbersFit' /\ ParentsFit' /\ ImagesKept' /\ EditorsFit'
  BY VersionsRest DEF PublishOther
<1>3. DraftIsComplete'
  BY DEF StudioInv, PublishOther, DraftIsComplete, Opens
<1> QED BY <1>1, <1>2, <1>3 DEF StudioInv

-----------------------------------------------------------------------------
(* What holds of a website *)

LEMMA StudioInitInv == StudioInit => StudioInv
<1> SUFFICES ASSUME StudioInit PROVE StudioInv
  OBVIOUS
<1>1. /\ Cardinality(Steps) \in Nat /\ Cardinality(Edits) \in Nat
      /\ \A brief \in SUBSET Steps : Cardinality(brief) \in 0 .. Cardinality(Steps)
  BY StudioAssumption, FS_Subset, FS_CardinalityType
<1>2. Tried = {} /\ Cardinality(Tried) = 0
  <2>1. Tried = {}
    BY DEF StudioInit, Tried, NewEditor
  <2> QED BY <2>1, FS_EmptySet
<1>3. /\ EmptyRow \in Row /\ Generated \in Row /\ Generated.number = 1 /\ Generated.pictures = {}
      /\ Generated.source \notin Edited
  BY <1>1 DEF EmptyRow, Generated, Row, Numbers, Edited
<1>4. NewEditor \in Editor /\ NewEditor.at = "idle"
  BY <1>3 DEF NewEditor, Editor
<1>5. project \in Project
  BY <1>1 DEF StudioInit, Project
<1>6. specs \subseteq {Generated}
  BY DEF StudioInit
<1>7. StudioTypeOK
  <2>1. site \in [number : Numbers, slug : Slugs \cup {NoSlug}]
        /\ (site.number = 0 <=> site.slug = NoSlug)
    BY <1>1 DEF StudioInit, Numbers
  <2>2. editors \in [Edits -> Editor]
    BY <1>4 DEF StudioInit
  <2> QED BY <1>3, <1>5, <1>6, <2>1, <2>2 DEF StudioInit, StudioTypeOK
<1>8. DraftIsComplete /\ OneSitePerAddress
  BY StudioAssumption DEF StudioInit, DraftIsComplete, OneSitePerAddress, Opens
<1>9. NumbersDiffer /\ NumbersFit /\ ParentsFit
  BY <1>2, <1>3, <1>6 DEF NumbersDiffer, NumbersFit, ParentsFit
<1>10. ImagesKept
  BY <1>3, <1>6 DEF ImagesKept, Shown
<1>11. EditorsFit
  BY <1>4 DEF StudioInit, EditorsFit, EditorFits
<1> QED BY <1>7, <1>8, <1>9, <1>10, <1>11 DEF StudioInv

LEMMA StudioNextInv == StudioInv /\ [StudioNext]_studioVars => StudioInv'
<1> SUFFICES ASSUME StudioInv, [StudioNext]_studioVars PROVE StudioInv'
  OBVIOUS
<1>1. CASE UNCHANGED studioVars
  <2>1. StudioTypeOK' /\ DraftIsComplete' /\ OneSitePerAddress'
    BY <1>1 DEF studioVars, StudioInv, StudioTypeOK, DraftIsComplete, OneSitePerAddress, Opens
  <2> QED BY <1>1, <2>1, VersionsRest DEF studioVars, StudioInv
<1>2. ASSUME NEW old, NEW new \in Slugs, PublishOther(old, new) PROVE StudioInv'
  BY <1>2, PublishOtherKeeps
<1>3. ASSUME NEW q \in Edits,
             BeginBrief(q) \/ WriteBrief(q) \/ BeginDraft(q) \/ WriteDraft(q)
      PROVE  StudioInv'
  BY <1>3, BeginBriefKeeps, WriteBriefKeeps, BeginDraftKeeps, WriteDraftKeeps
<1>4. ASSUME NEW q \in Edits,
             \/ BeginGenerate(q) \/ BeginEdit(q) \/ BeginImage(q) \/ StoreImage(q)
             \/ BeginRestore(q) \/ ReadLatest(q) \/ InsertSpec(q) \/ RemoveImage(q)
      PROVE  StudioInv'
  BY <1>4, BeginGenerateKeeps, BeginEditKeeps, BeginImageKeeps, StoreImageKeeps,
     BeginRestoreKeeps, ReadLatestKeeps, InsertSpecKeeps, RemoveImageKeeps
<1>5. ASSUME NEW q \in Edits, BeginPublish(q) \/ Publish(q) \/ Abandon(q) PROVE StudioInv'
  BY <1>5, BeginPublishKeeps, PublishKeeps, AbandonStudioKeeps
<1> QED BY <1>1, <1>2, <1>3, <1>4, <1>5 DEF StudioNext

\* At any instant, whatever requests overlap or fail half way: a draft has its whole brief
\* unless the brief was written while the draft was created; an edited version is numbered
\* after the one it was made from and contains it; the images of every version are there
\* unless its insert was answered as a failure; and no address has two sites.
THEOREM StudioIsSafe == StudioSpec => []StudioSafe
<1>1. StudioInv => StudioSafe
  <2> SUFFICES ASSUME StudioInv PROVE StudioSafe
    OBVIOUS
  <2>1. BuildsOnParent
    <3> SUFFICES ASSUME NEW r \in specs, r.source \in Edited
                 PROVE  /\ r.parent < r.number
                        /\ Version(r.parent).content \subseteq r.content
                        /\ Version(r.parent).pictures \subseteq r.pictures
      BY DEF BuildsOnParent, Edited
    <3>1. PICK s \in specs :
            s.number = r.parent /\ s.content \subseteq r.content /\ s.pictures \subseteq r.pictures
      BY DEF StudioInv, ParentsFit, MadeFromParent
    <3>2. Version(r.parent) \in specs /\ Version(r.parent).number = r.parent
      BY <3>1, VersionFacts
    <3>3. Version(r.parent) = s
      BY <3>1, <3>2 DEF StudioInv, NumbersDiffer
    <3> QED BY <3>1, <3>3 DEF StudioInv, ParentsFit
  <2>2. PicturesExist
    BY DEF StudioInv, ImagesKept, PicturesExist, Shown
  <2> QED BY <2>1, <2>2 DEF StudioInv, StudioSafe
<1> QED BY <1>1, StudioInitInv, StudioNextInv, PTL DEF StudioSpec

\* No request replaces or removes a version of another, and publishing a site anew without
\* naming an address does not move it to another one.
THEOREM VersionsStayTheorem == StudioSpec => VersionsStay
<1>1. StudioInv /\ StudioInv' /\ [StudioNext]_studioVars
        => [/\ specs \subseteq specs'
            /\ \A r, s \in specs' : r.number = s.number => r = s]_studioVars
  <2> SUFFICES ASSUME StudioInv, StudioInv', StudioNext
               PROVE  /\ specs \subseteq specs'
                      /\ \A r, s \in specs' : r.number = s.number => r = s
    OBVIOUS
  <2>1. specs \subseteq specs'
    BY DEF StudioNext, BeginBrief, WriteBrief, BeginDraft, WriteDraft, BeginGenerate, BeginEdit,
           BeginImage, StoreImage, BeginRestore, ReadLatest, InsertSpec, RemoveImage, BeginPublish,
           Publish, Abandon, PublishOther
  <2> QED BY <2>1 DEF StudioInv, NumbersDiffer
<1>2. StudioInv /\ [StudioNext]_studioVars
        => [\A q \in Edits :
              editors[q].at = "publish" /\ editors[q].slug = NoSlug /\ site.slug = editors[q].seen
                /\ site.slug # NoSlug /\ editors'[q].at = "over"
              => site'.slug = site.slug]_studioVars
  <2> SUFFICES ASSUME StudioInv, StudioNext, NEW q \in Edits, editors[q].at = "publish",
                      editors[q].slug = NoSlug, site.slug = editors[q].seen, site.slug # NoSlug,
                      editors'[q].at = "over", site' # site
               PROVE  site'.slug = site.slug
    OBVIOUS
  <2>1. \E p \in Edits : Publish(p)
    BY DEF StudioNext, BeginBrief, WriteBrief, BeginDraft, WriteDraft, BeginGenerate, BeginEdit,
           BeginImage, StoreImage, BeginRestore, ReadLatest, InsertSpec, RemoveImage, BeginPublish,
           Abandon, PublishOther
  <2>2. PICK p \in Edits : Publish(p)
    BY <2>1
  <2>3. p = q
    BY <2>2 DEF Publish, EndEditor, StudioInv, StudioTypeOK
  <2>4. Address(editors[q].slug, editors[q].seen) = site.slug
    BY DEF Address
  <2> QED BY <2>2, <2>3, <2>4 DEF Publish
<1> QED BY <1>1, <1>2, StudioInitInv, StudioNextInv, PTL
       DEF StudioSpec, VersionsStay, VersionsKept, AddressKept

-----------------------------------------------------------------------------
(* AssistantWorkspace: the inductive invariant *)

\* A plan, if it is one, that was made in c.
PlanOf(p, c, made) == p # 0 => p <= Len(made) /\ made[p] = c

\* What a handler in s carries over its await, f: what it is about, and which page it left,
\* as far as no answer has crossed another.
FlightFits(s, f, made, mixed) ==
  f # Nothing =>
    /\ s \in {"open", "open again"} =>
         /\ f.step \in {"load", "loaded", "resources"}
         /\ f.about \in Conversations
         /\ f.step = "loaded" => PlanOf(f.plan, f.about, made)
         /\ f.step = "resources" => f.about = f.seen[1]
    /\ s = "send" =>
         /\ f.step \in {"serve", "served", "stream", "resources"}
         /\ f.of # Nothing => f.about = f.of
         /\ f.step # "serve" => f.about \in Conversations
         /\ f.step = "serve" => f.about = f.of /\ f.plan = 0
         /\ f.step \in {"serve", "served"} => f.seen[1] = f.of /\ PlanOf(f.plan, f.about, made)
         /\ f.step \in {"stream", "resources"} => mixed \/ f.seen[1] = f.about
    /\ s = "work" =>
         /\ f.step \in {"draft", "run", "automatic"}
         /\ f.plan # 0
         /\ mixed \/ f.plan = f.seen[2]
    /\ s = "delete" => f.step = "delete"
    /\ s = "upload" =>
         /\ f.step \in {"create", "attach"}
         /\ f.step = "create" => f.seen[1] = Nothing
         /\ f.step = "attach" => f.about = f.seen[1]
    /\ s = "artifact" => f.step = "resources" /\ f.about = f.seen[1] /\ f.about \in Conversations

FlightsFit == \A s \in Slots : FlightFits(s, flights[s], plans, crossed)

\* The parts of a page belong together.
Together(page, made) ==
  /\ page.messages \subseteq {page.conversation, Unsent}
  /\ page.plan # 0 => page.plan <= Len(made) /\ made[page.plan] = page.conversation
  /\ page.draft # 0 => page.draft = page.plan
  /\ page.run # 0 => page.run = page.draft

\* Its sources are those of its conversation ...
Follows(page) ==
  /\ page.sources \in {Nothing, page.conversation}
  /\ page.chosen \subseteq {page.sources}

\* ... or a handler is about to list them.
Lists(f, page) == f # Nothing /\ f.step = "resources" /\ f.about = page.conversation

SourcesFit ==
  ~ crossed /\ ~ failed => Follows(shown) \/ \E s \in Slots : Lists(flights[s], shown)

PageInv ==
  /\ WorkspaceTypeOK
  /\ FlightsFit
  /\ ~ crossed => Together(shown, plans)
  /\ SourcesFit

LEMMA PageInvIsSafe == PageInv => PageSafe
<1> SUFFICES ASSUME PageInv PROVE PageSafe
  OBVIOUS
<1>1. Coherent
  BY DEF PageInv, Together, Coherent
<1>2. SourcesFollow
  BY DEF PageInv, SourcesFit, Follows, Lists, SourcesFollow
<1> QED
  BY <1>1, <1>2 DEF PageInv, PageSafe

LEMMA EmptyPageFits ==
  EmptyPage \in Page /\ Follows(EmptyPage) /\ \A made : Together(EmptyPage, made)
  BY DEF EmptyPage, Page, Places, Follows, Together

LEMMA PageInitInv == WorkspaceInit => PageInv
<1> SUFFICES ASSUME WorkspaceInit PROVE PageInv
  OBVIOUS
<1>1. plans \in Seq(Conversations) /\ Len(plans) <= MaxPlans
  <2>1. CASE plans = <<>>
    BY <2>1, WorkspaceBounds
  <2>2. ASSUME NEW c \in there, plans = <<c>> PROVE plans \in Seq(Conversations) /\ Len(plans) <= MaxPlans
    <3>1. c \in Conversations
      BY DEF WorkspaceInit
    <3>2. <<c>> \in Seq(Conversations) /\ Len(<<c>>) = 1
      BY <3>1
    <3> QED
      BY <2>2, <3>2, WorkspaceBounds
  <2> QED
    BY <2>1, <2>2 DEF WorkspaceInit
<1>2. WorkspaceTypeOK
  BY <1>1, EmptyPageFits DEF WorkspaceInit, WorkspaceTypeOK
<1>3. FlightsFit
  BY DEF WorkspaceInit, FlightsFit, FlightFits
<1> QED
  BY <1>2, <1>3, EmptyPageFits DEF PageInv, WorkspaceInit, SourcesFit

-----------------------------------------------------------------------------
(* What a step leaves *)

\* Plans are made, never changed; an answer that crossed another stays so.
Onwards ==
  /\ Len(plans) <= Len(plans')
  /\ \A p \in 1 .. Len(plans) : plans'[p] = plans[p]
  /\ crossed => crossed'

LEMMA PlanStays ==
  ASSUME PageInv, Onwards, NEW p \in {0} \cup PlanIds, NEW c, PlanOf(p, c, plans)
  PROVE  PlanOf(p, c, plans')
  BY WorkspaceBounds DEF PageInv, WorkspaceTypeOK, Onwards, PlanOf, PlanIds

LEMMA FitsOn ==
  ASSUME PageInv, Onwards, NEW s \in Slots
  PROVE  FlightFits(s, flights[s], plans', crossed')
<1>1. FlightFits(s, flights[s], plans, crossed)
  BY DEF PageInv, FlightsFit
<1>2. flights[s] # Nothing => flights[s].plan \in {0} \cup PlanIds
  BY DEF PageInv, WorkspaceTypeOK, Flight
<1>3. \A c : flights[s] # Nothing /\ PlanOf(flights[s].plan, c, plans) => PlanOf(flights[s].plan, c, plans')
  BY <1>2, PlanStays
<1>4. crossed => crossed'
  BY DEF Onwards
<1> HIDE DEF Onwards, PageInv
<1> QED
  BY <1>1, <1>3, <1>4 DEF FlightFits

\* Of the handlers only the one in s moves.
HandlerMoves(s, x) ==
  /\ flights' = [flights EXCEPT ![s] = x]
  /\ x \in Flight \cup {Nothing}
  /\ FlightFits(s, x, plans', crossed')

LEMMA PageStep ==
  ASSUME PageInv, Onwards, NEW s \in Slots, NEW x, HandlerMoves(s, x),
         shown' \in Page, there' \subseteq Conversations, drafted' \subseteq PlanIds,
         plans' \in Seq(Conversations), Len(plans') <= MaxPlans,
         crossed' \in BOOLEAN, failed' \in BOOLEAN,
         ~ crossed' => Together(shown', plans'), SourcesFit'
  PROVE  PageInv'
<1>1. flights' \in [Slots -> Flight \cup {Nothing}]
  BY DEF PageInv, WorkspaceTypeOK, HandlerMoves
<1>2. WorkspaceTypeOK'
  BY <1>1 DEF WorkspaceTypeOK
<1>3. ASSUME NEW t \in Slots PROVE FlightFits(t, flights'[t], plans', crossed')
  <2>1. CASE t = s
    BY <2>1 DEF PageInv, WorkspaceTypeOK, HandlerMoves
  <2>2. CASE t # s
    <3>1. flights'[t] = flights[t]
      BY <2>2 DEF PageInv, WorkspaceTypeOK, HandlerMoves
    <3> QED
      BY <3>1, FitsOn
  <2> QED
    BY <2>1, <2>2
<1>4. FlightsFit'
  BY <1>3 DEF FlightsFit
<1> QED
  BY <1>2, <1>4 DEF PageInv

\* Neither the server nor what has crossed or failed changes.
Calm == UNCHANGED <<there, plans, drafted, crossed, failed>>

LEMMA CalmOnwards == ASSUME Calm PROVE Onwards
  BY DEF Calm, Onwards

LEMMA CalmStep ==
  ASSUME PageInv, Calm, NEW s \in Slots, NEW x, HandlerMoves(s, x), shown' \in Page,
         ~ crossed => Together(shown', plans), SourcesFit'
  PROVE  PageInv'
  BY CalmOnwards, PageStep DEF Calm, PageInv, WorkspaceTypeOK

\* A handler that does not list the sources moves, and neither they nor the conversation do.
LEMMA SourcesStay ==
  ASSUME PageInv, NEW s \in Slots, NEW x, flights' = [flights EXCEPT ![s] = x],
         ~ Lists(flights[s], shown),
         crossed => crossed', failed => failed',
         shown'.conversation = shown.conversation, shown'.sources = shown.sources,
         shown'.chosen = shown.chosen
  PROVE  SourcesFit'
<1> SUFFICES ASSUME ~ crossed', ~ failed'
             PROVE  Follows(shown') \/ \E t \in Slots : Lists(flights'[t], shown')
  BY DEF SourcesFit
<1>1. CASE Follows(shown)
  BY <1>1 DEF Follows
<1>2. ASSUME NEW t \in Slots, Lists(flights[t], shown)
      PROVE  \E u \in Slots : Lists(flights'[u], shown')
  <2>1. t # s /\ flights'[t] = flights[t]
    BY <1>2 DEF PageInv, WorkspaceTypeOK
  <2> QED
    BY <1>2, <2>1 DEF Lists
<1> QED
  BY <1>1, <1>2 DEF PageInv, SourcesFit

\* A page without a conversation shows no sources.
LEMMA NothingListed ==
  ASSUME PageInv, ~ crossed, ~ failed, shown.conversation = Nothing
  PROVE  shown.sources = Nothing /\ shown.chosen = {}
<1>1. ASSUME NEW s \in Slots, Lists(flights[s], shown) PROVE FALSE
  <2>1. FlightFits(s, flights[s], plans, crossed)
    BY DEF PageInv, FlightsFit
  <2> QED
    BY <1>1, <2>1, WorkspaceBounds DEF Lists, FlightFits, Slots
<1>2. Follows(shown)
  BY <1>1 DEF PageInv, SourcesFit
<1>3. shown.chosen \subseteq Conversations
  BY DEF PageInv, WorkspaceTypeOK, Page
<1> QED
  BY <1>2, <1>3, WorkspaceBounds DEF Follows

-----------------------------------------------------------------------------
(* Handlers *)

\* A handler that departs, with what it was called with.
LEMMA Departs ==
  ASSUME PageInv, NEW s \in Slots, NEW step, NEW c \in Places, NEW p \in {0} \cup PlanIds,
         Depart(s, step, c, p),
         step \in {"load", "resources", "serve", "draft", "run", "automatic", "delete", "create", "attach"},
         FlightFits(s, [step |-> step, about |-> c, of |-> shown.conversation, plan |-> p,
                        seen |-> View(shown)], plans, crossed)
  PROVE  /\ Calm
         /\ HandlerMoves(s, [step |-> step, about |-> c, of |-> shown.conversation, plan |-> p,
                      seen |-> View(shown)])
         /\ flights[s] = Nothing
<1> DEFINE x == [step |-> step, about |-> c, of |-> shown.conversation, plan |-> p, seen |-> View(shown)]
<1>1. View(shown) \in Places \X ({0} \cup PlanIds) /\ shown.conversation \in Places
  BY DEF PageInv, WorkspaceTypeOK, Page, View
<1>2. x \in Flight
  BY <1>1 DEF Flight
<1>3. Calm
  BY DEF Depart, serverState, Calm
<1>4. FlightFits(s, x, plans', crossed')
  BY <1>3 DEF Calm
<1>5. flights' = [flights EXCEPT ![s] = x] /\ flights[s] = Nothing
  BY DEF Depart
<1> HIDE DEF x
<1>6. HandlerMoves(s, x)
  BY <1>2, <1>4, <1>5 DEF HandlerMoves
<1> QED
  BY <1>3, <1>5, <1>6 DEF x

\* One that departs and leaves the page as it is.
LEMMA DepartsOnly ==
  ASSUME PageInv, NEW s \in Slots, NEW step, NEW c \in Places, NEW p \in {0} \cup PlanIds,
         Depart(s, step, c, p), UNCHANGED shown,
         step \in {"load", "resources", "serve", "draft", "run", "automatic", "delete", "create", "attach"},
         FlightFits(s, [step |-> step, about |-> c, of |-> shown.conversation, plan |-> p,
                        seen |-> View(shown)], plans, crossed)
  PROVE  PageInv'
<1> DEFINE x == [step |-> step, about |-> c, of |-> shown.conversation, plan |-> p, seen |-> View(shown)]
<1>1. Calm /\ HandlerMoves(s, x) /\ flights[s] = Nothing
  BY Departs
<1> HIDE DEF x
<1>2. SourcesFit'
  BY <1>1, SourcesStay DEF Calm, HandlerMoves, Lists
<1> QED
  BY <1>1, <1>2, CalmStep DEF PageInv, WorkspaceTypeOK

\* The record a handler goes on with.
Onto(f, page, next, c) ==
  [step |-> next, about |-> c, of |-> f.of, plan |-> f.plan, seen |-> View(page)]

LEMMA GoesOnMoves ==
  ASSUME PageInv, NEW s \in Slots, flights[s] # Nothing, NEW page \in Page, NEW next, NEW c \in Places,
         GoesOn(s, page, next, c), next \in {"resources", "stream", "attach", "run"},
         FlightFits(s, Onto(flights[s], page, next, c), plans', crossed')
  PROVE  /\ Onto(flights[s], page, next, c) \in Flight
         /\ HandlerMoves(s, Onto(flights[s], page, next, c)) /\ shown' = page
<1>1. flights[s] \in Flight
  BY DEF PageInv, WorkspaceTypeOK
<1>2. View(page) \in Places \X ({0} \cup PlanIds)
  BY DEF Page, View
<1>3. Onto(flights[s], page, next, c) \in Flight
  BY <1>1, <1>2 DEF Onto, Flight
<1>4. flights[s] = [step |-> flights[s].step, about |-> flights[s].about, of |-> flights[s].of,
                    plan |-> flights[s].plan, seen |-> flights[s].seen]
  BY <1>1 DEF Flight
<1>5. flights' = [flights EXCEPT ![s] = Onto(flights[s], page, next, c)]
  <2>1. flights' = [flights EXCEPT ![s].step = next, ![s].about = c, ![s].seen = View(page)]
    BY DEF GoesOn
  <2>2. s \in DOMAIN flights /\ flights = [t \in Slots |-> flights[t]]
    BY DEF PageInv, WorkspaceTypeOK
  <2>3. flights'[s] = Onto(flights[s], page, next, c)
    BY <1>4, <2>1, <2>2 DEF Onto
  <2>4. \A t \in Slots \ {s} : flights'[t] = flights[t]
    BY <2>1, <2>2
  <2>5. flights' = [t \in Slots |-> flights'[t]]
    BY <2>1, <2>2
  <2> QED
    BY <2>2, <2>3, <2>4, <2>5
<1> QED
  BY <1>3, <1>5 DEF HandlerMoves, GoesOn

LEMMA EndsMoves ==
  ASSUME NEW s, NEW page, HandlerEnds(s, page)
  PROVE  HandlerMoves(s, Nothing) /\ shown' = page
<1>1. FlightFits(s, Nothing, plans', crossed')
  BY DEF FlightFits
<1> QED
  BY <1>1 DEF HandlerEnds, HandlerMoves

\* What a handler in s brings along.
LEMMA Carried ==
  ASSUME PageInv, NEW s \in Slots, flights[s] # Nothing
  PROVE  flights[s] \in Flight /\ FlightFits(s, flights[s], plans, crossed)
  BY DEF PageInv, WorkspaceTypeOK, FlightsFit

-----------------------------------------------------------------------------
(* Actions that leave the handlers as they are *)

LEMMA StillStep ==
  ASSUME PageInv, Calm, UNCHANGED flights, shown' \in Page,
         ~ crossed => Together(shown', plans), SourcesFit'
  PROVE  PageInv'
<1>1. "open" \in Slots /\ flights["open"] \in Flight \cup {Nothing}
  BY DEF PageInv, WorkspaceTypeOK, Slots
<1>2. flights' = [flights EXCEPT !["open"] = flights["open"]]
  BY <1>1 DEF PageInv, WorkspaceTypeOK
<1>3. FlightFits("open", flights["open"], plans', crossed')
  BY <1>1, CalmOnwards, FitsOn
<1>4. HandlerMoves("open", flights["open"])
  BY <1>1, <1>2, <1>3 DEF HandlerMoves
<1> QED
  BY <1>1, <1>4, CalmStep

LEMMA ResetPageKeeps == ASSUME PageInv, ResetPage PROVE PageInv'
<1>1. Calm /\ UNCHANGED flights /\ shown' = EmptyPage
  BY DEF ResetPage, serverState, Calm
<1>2. SourcesFit'
  BY <1>1, EmptyPageFits DEF SourcesFit
<1> QED
  BY <1>1, <1>2, EmptyPageFits, StillStep

LEMMA ToggleKeeps == ASSUME PageInv, Toggle PROVE PageInv'
<1>1. Calm /\ UNCHANGED flights
  BY DEF Toggle, serverState, Calm
<1> DEFINE Selected == IF shown.sources \in shown.chosen THEN shown.chosen \ {shown.sources}
                     ELSE shown.chosen \cup {shown.sources}
<1>2. shown \in Page /\ shown.sources # Nothing
  BY DEF Toggle, PageInv, WorkspaceTypeOK
<1>3. shown.sources \in Conversations /\ shown.chosen \subseteq Conversations
  BY <1>2 DEF Page, Places
<1>4. Selected \subseteq Conversations /\ (shown.chosen \subseteq {shown.sources} => Selected \subseteq {shown.sources})
  BY <1>3
<1>5. shown' = [shown EXCEPT !.chosen = Selected]
  BY DEF Toggle
<1> HIDE DEF Selected
<1>6. shown' \in Page
  BY <1>2, <1>4, <1>5 DEF Page
<1>7. /\ shown'.conversation = shown.conversation /\ shown'.messages = shown.messages
      /\ shown'.plan = shown.plan /\ shown'.draft = shown.draft /\ shown'.run = shown.run
      /\ shown'.sources = shown.sources /\ shown'.chosen = Selected
  BY <1>2, <1>5 DEF Page
<1>8. ~ crossed => Together(shown', plans)
  BY <1>7 DEF PageInv, Together
<1>9. SourcesFit'
  BY <1>1, <1>4, <1>7 DEF PageInv, SourcesFit, Follows, Lists, Calm
<1> QED
  BY <1>1, <1>6, <1>8, <1>9, StillStep

LEMMA DropPlanKeeps == ASSUME PageInv, DropPlan PROVE PageInv'
<1>1. Calm /\ UNCHANGED flights
  BY DEF DropPlan, serverState, Calm
<1>2. shown \in Page /\ shown' = [shown EXCEPT !.plan = 0, !.draft = 0, !.run = 0]
  BY DEF DropPlan, Unplanned, PageInv, WorkspaceTypeOK
<1>3. shown' \in Page
  BY <1>2 DEF Page
<1>4. /\ shown'.conversation = shown.conversation /\ shown'.messages = shown.messages
      /\ shown'.plan = 0 /\ shown'.draft = 0 /\ shown'.run = 0
      /\ shown'.sources = shown.sources /\ shown'.chosen = shown.chosen
  BY <1>2 DEF Page
<1>5. ~ crossed => Together(shown', plans)
  BY <1>4 DEF PageInv, Together
<1>6. SourcesFit'
  BY <1>1, <1>4 DEF PageInv, SourcesFit, Follows, Lists, Calm
<1> QED
  BY <1>1, <1>3, <1>5, <1>6, StillStep

-----------------------------------------------------------------------------
(* Actions by which a handler departs *)

LEMMA ShownPage ==
  ASSUME PageInv
  PROVE  /\ shown \in Page /\ shown.conversation \in Places
         /\ shown.plan \in {0} \cup PlanIds /\ shown.draft \in {0} \cup PlanIds
         /\ View(shown)[1] = shown.conversation /\ View(shown)[2] = shown.plan
         /\ ~ crossed => Together(shown, plans)
  BY DEF PageInv, WorkspaceTypeOK, Page, View

LEMMA OpenKeeps ==
  ASSUME PageInv, NEW s \in Slots, NEW c \in Conversations, Open(s, c) PROVE PageInv'
<1>1. c \in Places /\ 0 \in {0} \cup PlanIds
  BY DEF Places
<1>2. FlightFits(s, [step |-> "load", about |-> c, of |-> shown.conversation, plan |-> 0,
                     seen |-> View(shown)], plans, crossed)
  BY DEF Open, FlightFits
<1> QED
  BY <1>1, <1>2, DepartsOnly DEF Open

LEMMA BeginDeleteKeeps ==
  ASSUME PageInv, NEW c \in Conversations, BeginDelete(c) PROVE PageInv'
<1>1. c \in Places /\ 0 \in {0} \cup PlanIds /\ "delete" \in Slots
  BY DEF Places, Slots
<1>2. FlightFits("delete", [step |-> "delete", about |-> c, of |-> shown.conversation, plan |-> 0,
                            seen |-> View(shown)], plans, crossed)
  BY DEF FlightFits
<1> QED
  BY <1>1, <1>2, DepartsOnly DEF BeginDelete

LEMMA BeginUploadKeeps == ASSUME PageInv, BeginUpload PROVE PageInv'
<1> DEFINE step == IF shown.conversation = Nothing THEN "create" ELSE "attach"
<1>1. 0 \in {0} \cup PlanIds /\ "upload" \in Slots
  BY DEF Slots
<1>2. FlightFits("upload", [step |-> step, about |-> shown.conversation, of |-> shown.conversation,
                            plan |-> 0, seen |-> View(shown)], plans, crossed)
  BY ShownPage DEF FlightFits
<1>3. step \in {"create", "attach"}
  OBVIOUS
<1>4. Depart("upload", step, shown.conversation, 0) /\ UNCHANGED shown
  BY DEF BeginUpload
<1> HIDE DEF step
<1> QED
  BY <1>1, <1>2, <1>3, <1>4, ShownPage, DepartsOnly

LEMMA CreateArtifactKeeps == ASSUME PageInv, CreateArtifact PROVE PageInv'
<1>1. 0 \in {0} \cup PlanIds /\ "artifact" \in Slots
  BY DEF Slots
<1>2. FlightFits("artifact", [step |-> "resources", about |-> shown.conversation,
                              of |-> shown.conversation, plan |-> 0, seen |-> View(shown)],
                 plans, crossed)
  BY ShownPage DEF CreateArtifact, FlightFits, Places
<1> QED
  BY <1>1, <1>2, ShownPage, DepartsOnly DEF CreateArtifact

\* A handler of the one slot whose steps look at the plan.
LEMMA WorkDeparts ==
  ASSUME PageInv, NEW step \in {"draft", "run", "automatic"}, NEW p \in {0} \cup PlanIds, p # 0,
         crossed \/ p = shown.plan, Depart("work", step, shown.conversation, p), UNCHANGED shown
  PROVE  PageInv'
<1>1. "work" \in Slots
  BY DEF Slots
<1>2. FlightFits("work", [step |-> step, about |-> shown.conversation, of |-> shown.conversation,
                          plan |-> p, seen |-> View(shown)], plans, crossed)
  BY ShownPage DEF FlightFits
<1> QED
  BY <1>1, <1>2, ShownPage, DepartsOnly

LEMMA PrepareReviewKeeps == ASSUME PageInv, PrepareReview PROVE PageInv'
  BY ShownPage, WorkDeparts DEF PrepareReview

LEMMA RequestRunKeeps == ASSUME PageInv, RequestRun PROVE PageInv'
  BY ShownPage, WorkDeparts DEF RequestRun, Together

LEMMA RunAutomaticallyKeeps == ASSUME PageInv, RunAutomatically PROVE PageInv'
  BY ShownPage, WorkDeparts DEF RunAutomatically

LEMMA SubmitKeeps == ASSUME PageInv, Submit PROVE PageInv'
<1> DEFINE x == [step |-> "serve", about |-> shown.conversation, of |-> shown.conversation,
                 plan |-> 0, seen |-> View(shown)]
<1>1. 0 \in {0} \cup PlanIds /\ "send" \in Slots
  BY DEF Slots
<1>2. FlightFits("send", x, plans, crossed)
  BY ShownPage DEF FlightFits, PlanOf
<1>3. Depart("send", "serve", shown.conversation, 0)
      /\ shown' = [shown EXCEPT !.messages = @ \cup {Unsent}]
  BY DEF Submit
<1>4. Calm /\ HandlerMoves("send", x) /\ flights["send"] = Nothing
  BY <1>1, <1>2, <1>3, ShownPage, Departs
<1> HIDE DEF x
<1>5. shown' \in Page
  BY <1>3, ShownPage DEF Page
<1>6. /\ shown'.conversation = shown.conversation /\ shown'.messages = shown.messages \cup {Unsent}
      /\ shown'.plan = shown.plan /\ shown'.draft = shown.draft /\ shown'.run = shown.run
      /\ shown'.sources = shown.sources /\ shown'.chosen = shown.chosen
  BY <1>3, ShownPage DEF Page
<1>7. ~ crossed => Together(shown', plans)
  BY <1>6, ShownPage DEF Together
<1>8. SourcesFit'
  BY <1>1, <1>4, <1>6, SourcesStay DEF Calm, HandlerMoves, Lists
<1> QED
  BY <1>1, <1>4, <1>5, <1>7, <1>8, CalmStep

-----------------------------------------------------------------------------
(* Answers, and what the server does *)

\* An answer that lands across none lands on the page its handler left.
LEMMA LandsOn ==
  ASSUME PageInv, NEW s \in Slots, Lands(s)
  PROVE  /\ crossed' \in BOOLEAN /\ failed' = failed /\ (crossed => crossed')
         /\ ~ crossed' => /\ ~ crossed /\ flights[s].seen[1] = shown.conversation
                          /\ s = "work" => flights[s].seen[2] = shown.plan
<1>1. crossed \in BOOLEAN
  BY DEF PageInv, WorkspaceTypeOK
<1>2. Crosses(s) \in BOOLEAN
  BY DEF Crosses
<1> QED
  BY <1>1, <1>2 DEF Lands, Crosses

LEMMA FailKeeps == ASSUME PageInv, NEW s \in Slots, Fail(s) PROVE PageInv'
<1>1. HandlerMoves(s, Nothing) /\ shown' = shown
  BY EndsMoves DEF Fail
<1>2. failed' /\ UNCHANGED <<there, plans, drafted, crossed>>
  BY DEF Fail, serverState
<1>3. Onwards
  BY <1>2 DEF Onwards
<1>4. SourcesFit'
  BY <1>2 DEF SourcesFit
<1> QED
  BY <1>1, <1>2, <1>3, <1>4, PageStep DEF PageInv, WorkspaceTypeOK, Fail

LEMMA LandResourcesKeeps == ASSUME PageInv, NEW s \in Slots, LandResources(s) PROVE PageInv'
<1> DEFINE c == flights[s].about
           page == [shown EXCEPT !.sources = c, !.chosen = shown.chosen \cap {c}]
<1>1. flights[s] \in Flight /\ FlightFits(s, flights[s], plans, crossed) /\ flights[s] # Nothing
      /\ flights[s].step = "resources"
  BY Carried DEF LandResources, Awaits
<1>2. HandlerEnds(s, page) /\ Lands(s) /\ UNCHANGED <<there, plans, drafted>>
  BY DEF LandResources, Listed, serverState
<1>3. c \in Places
  BY <1>1 DEF Flight
<1>4. page \in Page
  BY <1>3, ShownPage DEF Page
<1>5. /\ page.conversation = shown.conversation /\ page.messages = shown.messages
      /\ page.plan = shown.plan /\ page.draft = shown.draft /\ page.run = shown.run
      /\ page.sources = c /\ page.chosen \subseteq {c}
  BY <1>3, ShownPage DEF Page
<1>6. ~ crossed' => c = shown.conversation
  <2>1. crossed \/ c = flights[s].seen[1]
    BY <1>1 DEF FlightFits, Slots
  <2> QED
    BY <1>2, <2>1, LandsOn
<1> HIDE DEF page, c
<1>7. HandlerMoves(s, Nothing) /\ shown' = page
  BY <1>2, EndsMoves
<1>8. crossed' \in BOOLEAN /\ failed' = failed /\ (crossed => crossed')
  BY <1>2, LandsOn
<1>9. Onwards
  BY <1>2, <1>8 DEF Onwards
<1>10. ~ crossed' => Together(shown', plans')
  BY <1>2, <1>5, <1>7, <1>8, ShownPage DEF Together
<1>11. SourcesFit'
  BY <1>5, <1>6, <1>7 DEF SourcesFit, Follows
<1> QED
  BY <1>2, <1>4, <1>7, <1>8, <1>9, <1>10, <1>11, PageStep DEF PageInv, WorkspaceTypeOK

LEMMA LatestPlanFits ==
  ASSUME PageInv, NEW c
  PROVE  LatestPlan(c) \in {0} \cup PlanIds /\ PlanOf(LatestPlan(c), c, plans)
<1> DEFINE S == {0} \cup {p \in 1 .. Len(plans) : plans[p] = c}
<1>1. Len(plans) \in Nat /\ Len(plans) <= MaxPlans
  BY DEF PageInv, WorkspaceTypeOK
<1>2. S \in SUBSET (0 .. Len(plans)) /\ S # {}
  BY <1>1
<1>3. Max(S) \in S
  BY <1>1, <1>2, MaxIsGreatest
<1>4. LatestPlan(c) = Max(S)
  BY DEF LatestPlan
<1>5. ASSUME NEW m \in S PROVE m \in {0} \cup PlanIds /\ PlanOf(m, c, plans)
  BY <1>1, WorkspaceBounds DEF PlanIds, PlanOf
<1> HIDE DEF S
<1> QED
  BY <1>3, <1>4, <1>5

\* What the server has found is brought to the handler, which has not run.
Brought(f, step, c, p) == [step |-> step, about |-> c, of |-> f.of, plan |-> p, seen |-> f.seen]

LEMMA BringsLoaded ==
  ASSUME PageInv, NEW s \in Slots, flights[s] # Nothing, NEW p \in {0} \cup PlanIds,
         flights' = [flights EXCEPT ![s].step = "loaded", ![s].plan = p]
  PROVE  /\ Brought(flights[s], "loaded", flights[s].about, p) \in Flight
         /\ flights' = [flights EXCEPT ![s] = Brought(flights[s], "loaded", flights[s].about, p)]
<1>1. flights[s] \in Flight
  BY Carried
<1>2. Brought(flights[s], "loaded", flights[s].about, p) \in Flight
  BY <1>1 DEF Brought, Flight
<1>3. flights[s] = [step |-> flights[s].step, about |-> flights[s].about, of |-> flights[s].of,
                    plan |-> flights[s].plan, seen |-> flights[s].seen]
  BY <1>1 DEF Flight
<1>4. s \in DOMAIN flights /\ flights = [t \in Slots |-> flights[t]]
  BY DEF PageInv, WorkspaceTypeOK
<1>5. flights'[s] = Brought(flights[s], "loaded", flights[s].about, p)
  BY <1>3, <1>4 DEF Brought
<1>6. \A t \in Slots \ {s} : flights'[t] = flights[t]
  BY <1>4
<1>7. flights' = [t \in Slots |-> flights'[t]]
  BY <1>4
<1> QED
  BY <1>2, <1>4, <1>5, <1>6, <1>7

ServedAnswer(s, c) == [flights EXCEPT ![s].step = "served", ![s].about = c]

ServedPlan(s, c, p) == [flights EXCEPT ![s].step = "served", ![s].about = c, ![s].plan = p]

LEMMA BringsServed ==
  ASSUME PageInv, NEW s \in Slots, flights[s] # Nothing, NEW p \in {0} \cup PlanIds, NEW c \in Places,
         flights' = ServedPlan(s, c, p) \/ (flights' = ServedAnswer(s, c) /\ p = flights[s].plan)
  PROVE  /\ Brought(flights[s], "served", c, p) \in Flight
         /\ flights' = [flights EXCEPT ![s] = Brought(flights[s], "served", c, p)]
<1>1. flights[s] \in Flight
  BY Carried
<1>2. Brought(flights[s], "served", c, p) \in Flight
  BY <1>1 DEF Brought, Flight
<1>3. flights[s] = [step |-> flights[s].step, about |-> flights[s].about, of |-> flights[s].of,
                    plan |-> flights[s].plan, seen |-> flights[s].seen]
  BY <1>1 DEF Flight
<1>4. s \in DOMAIN flights /\ flights = [t \in Slots |-> flights[t]]
  BY DEF PageInv, WorkspaceTypeOK
<1>5. flights'[s] = Brought(flights[s], "served", c, p)
  BY <1>3, <1>4 DEF Brought, ServedAnswer, ServedPlan
<1>6. \A t \in Slots \ {s} : flights'[t] = flights[t]
  BY <1>4 DEF ServedAnswer, ServedPlan
<1>7. flights' = [t \in Slots |-> flights'[t]]
  BY <1>4 DEF ServedAnswer, ServedPlan
<1> QED
  BY <1>2, <1>4, <1>5, <1>6, <1>7

LEMMA LoadKeeps == ASSUME PageInv, NEW s \in Slots, Load(s) PROVE PageInv'
<1> DEFINE c == flights[s].about
           p == LatestPlan(c)
           x == Brought(flights[s], "loaded", c, p)
<1>1. FlightFits(s, flights[s], plans, crossed) /\ flights[s] # Nothing /\ flights[s].step = "load"
  BY Carried DEF Load, Awaits
<1>2. p \in {0} \cup PlanIds /\ PlanOf(p, c, plans)
  BY LatestPlanFits
<1>3. Calm /\ UNCHANGED shown /\ flights' = [flights EXCEPT ![s].step = "loaded", ![s].plan = p]
  BY DEF Load, Calm, serverState
<1>4. x \in Flight /\ flights' = [flights EXCEPT ![s] = x]
  BY <1>1, <1>2, <1>3, BringsLoaded
<1>5. s \in {"open", "open again"} /\ c \in Conversations
  BY <1>1 DEF FlightFits, Slots
<1>6. FlightFits(s, x, plans', crossed')
  <2>1. x.step = "loaded" /\ x.about = c /\ x.plan = p
    BY DEF Brought
  <2> QED
    BY <1>2, <1>3, <1>5, <2>1 DEF FlightFits, Calm
<1> HIDE DEF x
<1>7. HandlerMoves(s, x)
  BY <1>4, <1>6 DEF HandlerMoves
<1>8. SourcesFit'
  BY <1>1, <1>3, <1>4, SourcesStay DEF Calm, Lists
<1> QED
  BY <1>3, <1>7, <1>8, ShownPage, CalmStep

LEMMA LandOpenedKeeps == ASSUME PageInv, NEW s \in Slots, LandOpened(s) PROVE PageInv'
<1> DEFINE c == flights[s].about
           p == flights[s].plan
           page == [shown EXCEPT !.conversation = c, !.messages = {c}, !.plan = p, !.draft = 0, !.run = 0]
           x == Onto(flights[s], page, "resources", c)
<1>1. flights[s] \in Flight /\ FlightFits(s, flights[s], plans, crossed) /\ flights[s] # Nothing
      /\ flights[s].step = "loaded"
  BY Carried DEF LandOpened, Awaits
<1>2. s \in {"open", "open again"} \/ s = "send"
  BY <1>1 DEF FlightFits, Slots
<1>3. GoesOn(s, page, "resources", c) /\ Calm
  BY DEF LandOpened, Opened, Calm, serverState
<1>4. s \in {"open", "open again"} /\ c \in Conversations /\ PlanOf(p, c, plans)
  BY <1>1, <1>2 DEF FlightFits
<1>5. c \in Places /\ p \in {0} \cup PlanIds
  BY <1>1 DEF Flight
<1>6. page \in Page
  BY <1>4, <1>5, ShownPage DEF Page
<1>7. /\ page.conversation = c /\ page.messages = {c} /\ page.plan = p
      /\ page.draft = 0 /\ page.run = 0
  BY ShownPage DEF Page
<1>8. x.step = "resources" /\ x.about = c /\ x.seen[1] = c
  BY <1>7 DEF Onto, View
<1>9. FlightFits(s, x, plans', crossed')
  BY <1>4, <1>8 DEF FlightFits
<1> HIDE DEF page, c, p
<1>10. x \in Flight /\ HandlerMoves(s, x) /\ shown' = page
  BY <1>1, <1>3, <1>5, <1>6, <1>9, GoesOnMoves
<1> HIDE DEF x
<1>11. Together(shown', plans)
  BY <1>4, <1>7, <1>10 DEF Together, PlanOf
<1>12. flights'[s] = x /\ x # Nothing
  BY <1>10, NothingAssumption DEF HandlerMoves, PageInv, WorkspaceTypeOK
<1>13. SourcesFit'
  BY <1>7, <1>8, <1>10, <1>12 DEF SourcesFit, Lists
<1> QED
  BY <1>3, <1>6, <1>10, <1>11, <1>13, CalmStep

LEMMA DeleteKeeps == ASSUME PageInv, Delete PROVE PageInv'
<1> DEFINE page == IF flights["delete"].of = flights["delete"].about THEN EmptyPage ELSE shown
<1>1. "delete" \in Slots /\ flights["delete"].step = "delete"
  BY DEF Delete, Awaits, Slots
<1>2. HandlerEnds("delete", page) /\ Lands("delete") /\ UNCHANGED <<plans, drafted>>
  BY DEF Delete
<1>3. there' \subseteq Conversations
  BY DEF Delete, PageInv, WorkspaceTypeOK
<1>4. page = EmptyPage \/ page = shown
  OBVIOUS
<1> HIDE DEF page
<1>5. HandlerMoves("delete", Nothing) /\ shown' = page
  BY <1>2, EndsMoves
<1>6. crossed' \in BOOLEAN /\ failed' = failed /\ (crossed => crossed')
  BY <1>1, <1>2, LandsOn
<1>7. Onwards
  BY <1>2, <1>6 DEF Onwards
<1>8. page \in Page /\ (~ crossed' => Together(shown', plans'))
  BY <1>2, <1>4, <1>5, <1>6, ShownPage, EmptyPageFits
<1>9. SourcesFit'
  <2>1. CASE page = EmptyPage
    BY <1>5, <2>1, EmptyPageFits DEF SourcesFit
  <2>2. CASE page = shown
    BY <1>1, <1>5, <1>6, <2>2, SourcesStay DEF HandlerMoves, Lists
  <2> QED
    BY <1>4, <2>1, <2>2
<1> QED
  BY <1>1, <1>2, <1>3, <1>5, <1>6, <1>7, <1>8, <1>9, PageStep DEF PageInv, WorkspaceTypeOK

LEMMA ServeKeeps == ASSUME PageInv, Serve PROVE PageInv'
<1> DEFINE f == flights["send"]
<1>1. "send" \in Slots /\ f # Nothing /\ f.step = "serve"
  BY DEF Serve, Awaits, Slots
<1>2. f \in Flight /\ FlightFits("send", f, plans, crossed)
  BY <1>1, Carried
<1>3. PICK c \in IF f.about = Nothing THEN Conversations \ there ELSE {f.about} \cap there :
        /\ there' = there \cup {c}
        /\ \/ /\ Len(plans) < MaxPlans
              /\ plans' = Append(plans, c)
              /\ flights' = ServedPlan("send", c, Len(plans'))
           \/ /\ UNCHANGED plans
              /\ flights' = ServedAnswer("send", c)
  BY DEF Serve, ServedAnswer, ServedPlan
<1>4. there \subseteq Conversations /\ plans \in Seq(Conversations) /\ Len(plans) <= MaxPlans
  BY DEF PageInv, WorkspaceTypeOK
<1>5. c \in Conversations /\ c \in Places /\ (f.about # Nothing => c = f.about)
  BY <1>4 DEF Places
<1>6. UNCHANGED <<drafted, shown, crossed, failed>>
  BY DEF Serve
<1>7. f.about = f.of /\ f.plan = 0 /\ f.seen[1] = f.of
  BY <1>1, <1>2 DEF FlightFits
\* The plan made, if one is.
<1>8. PICK p \in {0} \cup PlanIds :
        /\ PlanOf(p, c, plans')
        /\ plans' \in Seq(Conversations) /\ Len(plans') <= MaxPlans /\ Len(plans) <= Len(plans')
        /\ \A k \in 1 .. Len(plans) : plans'[k] = plans[k]
        /\ flights' = ServedPlan("send", c, p) \/ (flights' = ServedAnswer("send", c) /\ p = f.plan)
  <2>1. CASE /\ Len(plans) < MaxPlans
             /\ plans' = Append(plans, c)
             /\ flights' = ServedPlan("send", c, Len(plans'))
    <3>1. /\ plans' \in Seq(Conversations) /\ Len(plans') = Len(plans) + 1 /\ plans'[Len(plans')] = c
          /\ \A k \in 1 .. Len(plans) : plans'[k] = plans[k]
      BY <1>4, <1>5, <2>1
    <3>2. Len(plans') \in PlanIds /\ Len(plans') <= MaxPlans /\ Len(plans) <= Len(plans')
      BY <1>4, <2>1, <3>1, WorkspaceBounds DEF PlanIds
    <3>3. PlanOf(Len(plans'), c, plans')
      BY <3>1, <3>2 DEF PlanOf, PlanIds
    <3> QED
      BY <2>1, <3>1, <3>2, <3>3
  <2>2. CASE /\ UNCHANGED plans
             /\ flights' = ServedAnswer("send", c)
    BY <1>4, <1>7, <2>2 DEF PlanOf
  <2> QED
    BY <1>3, <2>1, <2>2
<1> DEFINE x == Brought(f, "served", c, p)
<1>9. x \in Flight /\ flights' = [flights EXCEPT !["send"] = x]
  BY <1>1, <1>5, <1>8, BringsServed
<1>10. FlightFits("send", x, plans', crossed')
  <2>1. x.step = "served" /\ x.about = c /\ x.of = f.of /\ x.plan = p /\ x.seen = f.seen
    BY DEF Brought
  <2>2. x.of # Nothing => c = x.of
    BY <1>5, <1>7, <2>1
  <2> HIDE DEF x
  <2> QED
    BY <1>5, <1>7, <1>8, <2>1, <2>2 DEF FlightFits
<1> HIDE DEF x
<1>11. HandlerMoves("send", x)
  BY <1>9, <1>10 DEF HandlerMoves
<1>12. Onwards
  BY <1>6, <1>8 DEF Onwards
<1>13. ~ crossed' => Together(shown', plans')
  <2>1. PlanOf(shown.plan, shown.conversation, plans) => PlanOf(shown.plan, shown.conversation, plans')
    BY <1>12, ShownPage, PlanStays
  <2> QED
    BY <1>6, <2>1, ShownPage DEF Together, PlanOf
<1>14. SourcesFit'
  BY <1>1, <1>6, <1>9, SourcesStay DEF Lists
<1>15. there' \subseteq Conversations
  BY <1>3, <1>4, <1>5
<1> QED
  BY <1>1, <1>6, <1>8, <1>11, <1>12, <1>13, <1>14, <1>15, ShownPage, PageStep DEF PageInv, WorkspaceTypeOK

\* A page that shows no conversation shows no plan, and no message but the user's own.
LEMMA NoConversation ==
  ASSUME PageInv, ~ crossed, shown.conversation = Nothing
  PROVE  /\ shown.messages \subseteq {Unsent}
         /\ shown.plan = 0 /\ shown.draft = 0 /\ shown.run = 0
<1>1. shown.messages \subseteq Conversations \cup {Unsent}
  BY ShownPage DEF Page
<1>2. shown.messages \subseteq {Nothing, Unsent}
  BY ShownPage DEF Together
<1>3. shown.plan = 0
  <2>1. SUFFICES ASSUME shown.plan # 0 PROVE FALSE
    OBVIOUS
  <2>2. plans \in Seq(Conversations) /\ shown.plan \in 1 .. Len(plans) /\ plans[shown.plan] = Nothing
    BY <2>1, ShownPage, WorkspaceBounds DEF PageInv, WorkspaceTypeOK, Together, PlanIds
  <2> QED
    BY <2>2, WorkspaceBounds
<1> QED
  BY <1>1, <1>2, <1>3, ShownPage, WorkspaceBounds DEF Together

\* An answer lands, and no plan is made.
LEMMA AnswerStep ==
  ASSUME PageInv, NEW s \in Slots, NEW x, HandlerMoves(s, x), Lands(s), UNCHANGED plans,
         there' \subseteq Conversations, drafted' \subseteq PlanIds, shown' \in Page,
         ~ crossed' => Together(shown', plans), SourcesFit'
  PROVE  PageInv'
<1>1. crossed' \in BOOLEAN /\ failed' \in BOOLEAN /\ (crossed => crossed')
  BY LandsOn DEF PageInv, WorkspaceTypeOK
<1>2. Onwards
  BY <1>1 DEF Onwards, PageInv, WorkspaceTypeOK
<1> QED
  BY <1>1, <1>2, PageStep DEF PageInv, WorkspaceTypeOK

\* The sources and the conversation of the page are as they were.
LEMMA SourcesStayOnLanding ==
  ASSUME PageInv, NEW s \in Slots, NEW x, HandlerMoves(s, x), Lands(s), ~ Lists(flights[s], shown),
         shown'.conversation = shown.conversation, shown'.sources = shown.sources,
         shown'.chosen = shown.chosen
  PROVE  SourcesFit'
<1>1. flights' = [flights EXCEPT ![s] = x]
  BY DEF HandlerMoves
<1>2. (crossed => crossed') /\ (failed => failed')
  BY LandsOn
<1> QED
  BY <1>1, <1>2, SourcesStay

LEMMA ListsAgain ==
  ASSUME PageInv, flights["send"] # Nothing, NEW page \in Page, ListAgain(page),
         flights["send"].of # Nothing => crossed' \/ page.conversation = flights["send"].of
  PROVE  shown' = page /\ \E x : HandlerMoves("send", x)
<1> DEFINE f == flights["send"]
           x == Onto(f, page, "resources", f.of)
<1>1. "send" \in Slots
  BY DEF Slots
<1>2. CASE f.of = Nothing
  BY <1>2, EndsMoves DEF ListAgain
<1>3. CASE f.of # Nothing
  <2>1. f \in Flight /\ FlightFits("send", f, plans, crossed)
    BY <1>1, Carried
  <2>2. f.of \in Conversations /\ f.of \in Places
    BY <1>3, <2>1 DEF Flight, Places
  <2>3. x.step = "resources" /\ x.about = f.of /\ x.of = f.of /\ x.seen[1] = page.conversation
    BY DEF Onto, View
  <2>4. FlightFits("send", x, plans', crossed')
    BY <1>3, <2>2, <2>3 DEF FlightFits
  <2>5. GoesOn("send", page, "resources", f.of)
    BY <1>3 DEF ListAgain
  <2> HIDE DEF x
  <2>6. HandlerMoves("send", x) /\ shown' = page
    BY <1>1, <2>2, <2>4, <2>5, GoesOnMoves DEF x
  <2> QED
    BY <2>6
<1> QED
  BY <1>2, <1>3

\* The page an answer is put on.
LEMMA ReplacedPage ==
  ASSUME PageInv, NEW c \in Conversations
  PROVE  /\ Replaced(shown, c) \in Page
         /\ Replaced(shown, c).conversation = c
         /\ Replaced(shown, c).messages \subseteq (shown.messages \ {Unsent}) \cup {c}
         /\ Replaced(shown, c).plan = shown.plan /\ Replaced(shown, c).draft = shown.draft
         /\ Replaced(shown, c).run = shown.run /\ Replaced(shown, c).sources = shown.sources
         /\ Replaced(shown, c).chosen = shown.chosen
<1> DEFINE M == IF Unsent \in shown.messages THEN (shown.messages \ {Unsent}) \cup {c} ELSE shown.messages
<1>1. shown \in Page /\ c \in Places
  BY ShownPage DEF Places
<1>2. Replaced(shown, c) = [shown EXCEPT !.conversation = c, !.messages = M]
  BY DEF Replaced
<1>3. M \in SUBSET (Conversations \cup {Unsent}) /\ M \subseteq (shown.messages \ {Unsent}) \cup {c}
  BY <1>1 DEF Page
<1> HIDE DEF M
<1> QED
  BY <1>1, <1>2, <1>3 DEF Page

LEMMA AnsweredPage ==
  ASSUME PageInv, NEW c \in Conversations, NEW p \in {0} \cup PlanIds
  PROVE  /\ Answered(shown, c, p) \in Page
         /\ Answered(shown, c, p).conversation = c
         /\ Answered(shown, c, p).messages \subseteq (shown.messages \ {Unsent}) \cup {c}
         /\ \/ /\ p = 0
               /\ Answered(shown, c, p).plan = shown.plan /\ Answered(shown, c, p).draft = shown.draft
               /\ Answered(shown, c, p).run = shown.run
            \/ /\ Answered(shown, c, p).plan = p /\ p # 0
               /\ Answered(shown, c, p).draft = 0 /\ Answered(shown, c, p).run = 0
         /\ Answered(shown, c, p).sources = shown.sources
         /\ Answered(shown, c, p).chosen = shown.chosen
<1> DEFINE page == Replaced(shown, c)
           page2 == [page EXCEPT !.messages = page.messages \cup {c}]
<1>1. Answered(shown, c, p) = IF p = 0 THEN page2 ELSE [page2 EXCEPT !.plan = p, !.draft = 0, !.run = 0]
  BY DEF Answered
<1>2. /\ page \in Page /\ page.conversation = c
      /\ page.messages \subseteq (shown.messages \ {Unsent}) \cup {c}
      /\ page.plan = shown.plan /\ page.draft = shown.draft /\ page.run = shown.run
      /\ page.sources = shown.sources /\ page.chosen = shown.chosen
  BY ReplacedPage
<1> HIDE DEF page
<1>3. /\ page2 \in Page /\ page2.conversation = c
      /\ page2.messages \subseteq (shown.messages \ {Unsent}) \cup {c}
      /\ page2.plan = shown.plan /\ page2.draft = shown.draft /\ page2.run = shown.run
      /\ page2.sources = shown.sources /\ page2.chosen = shown.chosen
  BY <1>2 DEF Page
<1> HIDE DEF page2
<1>4. CASE p = 0
  BY <1>1, <1>3, <1>4
<1>5. CASE p # 0
  <2>1. Answered(shown, c, p) = [page2 EXCEPT !.plan = p, !.draft = 0, !.run = 0]
    BY <1>1, <1>5
  <2> QED
    BY <1>3, <1>5, <2>1 DEF Page
<1> QED
  BY <1>4, <1>5

LEMMA LandAnswerKeeps == ASSUME PageInv, LandAnswer PROVE PageInv'
<1> DEFINE f == flights["send"]
           c == f.about
<1>1. "send" \in Slots /\ f # Nothing /\ f.step = "served"
  BY DEF LandAnswer, Awaits, Slots
<1>2. f \in Flight /\ FlightFits("send", f, plans, crossed)
  BY <1>1, Carried
<1>3. /\ c \in Conversations /\ (f.of # Nothing => c = f.of) /\ f.seen[1] = f.of
      /\ PlanOf(f.plan, c, plans)
  BY <1>1, <1>2 DEF FlightFits
<1>4. Lands("send") /\ UNCHANGED <<there, plans, drafted>>
  BY DEF LandAnswer, serverState
<1>5. c \in Places /\ f.plan \in {0} \cup PlanIds
  BY <1>2 DEF Flight
<1>6. ~ crossed' => ~ crossed /\ shown.conversation = f.of
  BY <1>1, <1>3, <1>4, LandsOn
\* Either way the page is one of c.
<1>7. PICK page \in Page :
        /\ shown' = page /\ \E x : HandlerMoves("send", x)
        /\ page.conversation = c /\ page.messages \subseteq (shown.messages \ {Unsent}) \cup {c}
        /\ \/ page.plan = shown.plan /\ page.draft = shown.draft /\ page.run = shown.run
           \/ page.plan = f.plan /\ page.draft = 0 /\ page.run = 0
        /\ page.sources = shown.sources /\ page.chosen = shown.chosen
  <2>1. CASE ListAgain(Answered(shown, f.about, f.plan))
    <3> DEFINE page == Answered(shown, c, f.plan)
    <3>1. /\ page \in Page
          /\ page.conversation = c /\ page.messages \subseteq (shown.messages \ {Unsent}) \cup {c}
          /\ \/ page.plan = shown.plan /\ page.draft = shown.draft /\ page.run = shown.run
             \/ page.plan = f.plan /\ page.draft = 0 /\ page.run = 0
          /\ page.sources = shown.sources /\ page.chosen = shown.chosen
      <4> HIDE DEF c, f
      <4>1. \A q \in {0} \cup PlanIds :
              /\ Answered(shown, c, q) \in Page
              /\ Answered(shown, c, q).conversation = c
              /\ Answered(shown, c, q).messages \subseteq (shown.messages \ {Unsent}) \cup {c}
              /\ \/ /\ q = 0
                    /\ Answered(shown, c, q).plan = shown.plan /\ Answered(shown, c, q).draft = shown.draft
                    /\ Answered(shown, c, q).run = shown.run
                 \/ /\ Answered(shown, c, q).plan = q /\ q # 0
                    /\ Answered(shown, c, q).draft = 0 /\ Answered(shown, c, q).run = 0
              /\ Answered(shown, c, q).sources = shown.sources
              /\ Answered(shown, c, q).chosen = shown.chosen
        BY <1>3, AnsweredPage
      <4> QED
        BY <1>5, <4>1
    <3>2. ListAgain(page)
      BY <2>1
    <3> HIDE DEF page
    <3>3. shown' = page /\ \E x : HandlerMoves("send", x)
      BY <1>1, <1>3, <3>1, <3>2, ListsAgain
    <3> QED
      BY <3>1, <3>3
  <2>2. CASE GoesOn("send", Replaced(shown, f.about), "stream", f.about)
    <3> DEFINE page == Replaced(shown, c)
               x == Onto(f, page, "stream", c)
    <3>1. /\ page \in Page
          /\ page.conversation = c /\ page.messages \subseteq (shown.messages \ {Unsent}) \cup {c}
          /\ page.plan = shown.plan /\ page.draft = shown.draft /\ page.run = shown.run
          /\ page.sources = shown.sources /\ page.chosen = shown.chosen
      BY <1>3, ReplacedPage
    <3>2. GoesOn("send", page, "stream", c)
      BY <2>2
    <3> HIDE DEF page
    <3>3. x.step = "stream" /\ x.about = c /\ x.of = f.of /\ x.seen[1] = c
      BY <3>1 DEF Onto, View
    <3> HIDE DEF x
    <3>4. FlightFits("send", x, plans', crossed')
      BY <1>3, <3>3 DEF FlightFits
    <3>5. HandlerMoves("send", x) /\ shown' = page
      BY <1>1, <1>5, <3>1, <3>2, <3>4, GoesOnMoves DEF x
    <3> QED
      BY <3>1, <3>5
  <2> QED
    BY <2>1, <2>2 DEF LandAnswer
<1>8. PICK x : HandlerMoves("send", x)
  BY <1>7
<1>9. there' \subseteq Conversations /\ drafted' \subseteq PlanIds
  BY <1>4 DEF PageInv, WorkspaceTypeOK
<1> HIDE DEF f
<1>10. ~ crossed' => Together(shown', plans)
  <2> SUFFICES ASSUME ~ crossed' PROVE Together(page, plans)
    BY <1>7
  <2>1. CASE f.of = Nothing
    <3>1. shown.messages \subseteq {Unsent} /\ shown.plan = 0 /\ shown.draft = 0 /\ shown.run = 0
      BY <1>6, <2>1, NoConversation
    <3> QED
      BY <1>3, <1>7, <3>1 DEF Together, PlanOf
  <2>2. CASE f.of # Nothing
    <3>1. Together(shown, plans) /\ shown.conversation = c
      BY <1>3, <1>6, <2>2, ShownPage
    <3> QED
      BY <1>3, <1>7, <3>1 DEF Together, PlanOf
  <2> QED
    BY <2>1, <2>2
<1>11. SourcesFit'
  <2> SUFFICES ASSUME ~ crossed', ~ failed' PROVE SourcesFit'
    BY DEF SourcesFit
  <2>1. CASE f.of = Nothing
    <3>1. ~ crossed /\ ~ failed /\ shown.conversation = Nothing
      BY <1>1, <1>4, <1>6, <2>1, LandsOn
    <3>2. shown.sources = Nothing /\ shown.chosen = {}
      BY <3>1, NothingListed
    <3> QED
      BY <1>7, <3>2 DEF SourcesFit, Follows
  <2>2. CASE f.of # Nothing
    <3>1. shown'.conversation = shown.conversation
      BY <1>3, <1>6, <1>7, <2>2
    <3> QED
      BY <1>1, <1>4, <1>7, <1>8, <3>1, SourcesStayOnLanding DEF Lists, f
  <2> QED
    BY <2>1, <2>2
<1> QED
  BY <1>1, <1>4, <1>7, <1>8, <1>9, <1>10, <1>11, AnswerStep

LEMMA LandStreamKeeps == ASSUME PageInv, LandStream PROVE PageInv'
<1> DEFINE f == flights["send"]
           c == f.about
           page == [shown EXCEPT !.messages = shown.messages \cup {c}]
<1>1. "send" \in Slots /\ f # Nothing /\ f.step = "stream"
  BY DEF LandStream, Awaits, Slots
<1>2. f \in Flight /\ FlightFits("send", f, plans, crossed)
  BY <1>1, Carried
<1>3. c \in Conversations /\ (f.of # Nothing => c = f.of) /\ (crossed \/ f.seen[1] = c)
  BY <1>1, <1>2 DEF FlightFits
<1>4. ListAgain(page) /\ Lands("send") /\ UNCHANGED <<there, plans, drafted>>
  BY DEF LandStream, Streamed, serverState
<1>5. ~ crossed' => ~ crossed /\ shown.conversation = c
  BY <1>1, <1>3, <1>4, LandsOn
<1>6. page \in Page
  BY <1>3, ShownPage DEF Page
<1>7. /\ page.conversation = shown.conversation /\ page.messages = shown.messages \cup {c}
      /\ page.plan = shown.plan /\ page.draft = shown.draft /\ page.run = shown.run
      /\ page.sources = shown.sources /\ page.chosen = shown.chosen
  BY ShownPage DEF Page
<1> HIDE DEF page
<1>8. f.of # Nothing => crossed' \/ page.conversation = f.of
  BY <1>3, <1>5, <1>7
<1>9. shown' = page /\ \E x : HandlerMoves("send", x)
  BY <1>1, <1>4, <1>6, <1>8, ListsAgain
<1>10. PICK x : HandlerMoves("send", x)
  BY <1>9
<1>11. ~ crossed' => Together(shown', plans)
  BY <1>5, <1>7, <1>9, ShownPage DEF Together
<1>12. SourcesFit'
  BY <1>1, <1>4, <1>7, <1>9, <1>10, SourcesStayOnLanding DEF Lists
<1>13. there' \subseteq Conversations /\ drafted' \subseteq PlanIds
  BY <1>4 DEF PageInv, WorkspaceTypeOK
<1> QED
  BY <1>1, <1>4, <1>6, <1>9, <1>10, <1>11, <1>12, <1>13, AnswerStep

LEMMA CreateForUploadKeeps == ASSUME PageInv, CreateForUpload PROVE PageInv'
<1> DEFINE f == flights["upload"]
<1>1. "upload" \in Slots /\ f # Nothing /\ f.step = "create"
  BY DEF CreateForUpload, Awaits, Slots
<1>2. f \in Flight /\ FlightFits("upload", f, plans, crossed)
  BY <1>1, Carried
<1>3. f.seen[1] = Nothing
  BY <1>1, <1>2 DEF FlightFits
<1>4. PICK c \in Conversations \ there :
        there' = there \cup {c} /\ GoesOn("upload", [shown EXCEPT !.conversation = c], "attach", c)
  BY DEF CreateForUpload
<1>5. Lands("upload") /\ UNCHANGED <<plans, drafted>>
  BY DEF CreateForUpload
<1> DEFINE page == [shown EXCEPT !.conversation = c]
           x == Onto(f, page, "attach", c)
<1>6. c \in Places
  BY DEF Places
<1>7. page \in Page
  BY <1>6, ShownPage DEF Page
<1>8. /\ page.conversation = c /\ page.messages = shown.messages
      /\ page.plan = shown.plan /\ page.draft = shown.draft /\ page.run = shown.run
      /\ page.sources = shown.sources /\ page.chosen = shown.chosen
  BY ShownPage DEF Page
<1>9. GoesOn("upload", page, "attach", c)
  BY <1>4
<1> HIDE DEF page
<1>10. x.step = "attach" /\ x.about = c /\ x.seen[1] = c
  BY <1>8 DEF Onto, View
<1> HIDE DEF x
<1>11. FlightFits("upload", x, plans', crossed')
  BY <1>10 DEF FlightFits
<1>12. HandlerMoves("upload", x) /\ shown' = page
  BY <1>1, <1>6, <1>7, <1>9, <1>11, GoesOnMoves DEF x
<1>13. ~ crossed' => ~ crossed /\ shown.conversation = Nothing
  BY <1>1, <1>3, <1>5, LandsOn
<1>14. ~ crossed' => Together(shown', plans)
  <2> SUFFICES ASSUME ~ crossed' PROVE Together(page, plans)
    BY <1>12
  <2>1. shown.messages \subseteq {Unsent} /\ shown.plan = 0 /\ shown.draft = 0 /\ shown.run = 0
    BY <1>13, NoConversation
  <2> QED
    BY <1>8, <2>1 DEF Together
<1>15. SourcesFit'
  <2> SUFFICES ASSUME ~ crossed', ~ failed' PROVE Follows(page)
    BY <1>12 DEF SourcesFit
  <2>1. shown.sources = Nothing /\ shown.chosen = {}
    BY <1>1, <1>5, <1>13, LandsOn, NothingListed
  <2> QED
    BY <1>8, <2>1 DEF Follows
<1>16. there' \subseteq Conversations /\ drafted' \subseteq PlanIds
  BY <1>4, <1>5 DEF PageInv, WorkspaceTypeOK
<1> QED
  BY <1>1, <1>5, <1>7, <1>12, <1>14, <1>15, <1>16, AnswerStep

LEMMA AttachKeeps == ASSUME PageInv, Attach PROVE PageInv'
<1> DEFINE c == flights["upload"].about
           page == [[shown EXCEPT !.sources = c, !.chosen = shown.chosen \cap {c}]
                      EXCEPT !.chosen = (shown.chosen \cap {c}) \cup {c}]
<1>1. "upload" \in Slots /\ flights["upload"] # Nothing /\ flights["upload"].step = "attach"
      /\ c \in there
  BY DEF Attach, Awaits, Slots
<1>2. FlightFits("upload", flights["upload"], plans, crossed)
  BY <1>1, Carried
<1>3. c = flights["upload"].seen[1]
  BY <1>1, <1>2 DEF FlightFits
<1>4. c \in Conversations /\ c \in Places
  BY <1>1 DEF PageInv, WorkspaceTypeOK, Places
<1>5. Lands("upload") /\ UNCHANGED <<there, plans, drafted>>
  BY DEF Attach, serverState
<1>6. HandlerEnds("upload", page)
  <2>1. [Listed(shown, c) EXCEPT !.chosen = @ \cup {c}] = page
    BY ShownPage DEF Listed, Page
  <2> QED
    BY <2>1 DEF Attach
<1>7. page \in Page
  BY <1>4, ShownPage DEF Page
<1>8. /\ page.conversation = shown.conversation /\ page.messages = shown.messages
      /\ page.plan = shown.plan /\ page.draft = shown.draft /\ page.run = shown.run
      /\ page.sources = c /\ page.chosen \subseteq {c}
  BY ShownPage DEF Page
<1> HIDE DEF page, c
<1>9. HandlerMoves("upload", Nothing) /\ shown' = page
  BY <1>6, EndsMoves
<1>10. ~ crossed' => ~ crossed /\ c = shown.conversation
  BY <1>1, <1>3, <1>5, LandsOn
<1>11. ~ crossed' => Together(shown', plans)
  BY <1>8, <1>9, <1>10, ShownPage DEF Together
<1>12. SourcesFit'
  BY <1>8, <1>9, <1>10 DEF SourcesFit, Follows
<1>13. there' \subseteq Conversations /\ drafted' \subseteq PlanIds
  BY <1>5 DEF PageInv, WorkspaceTypeOK
<1> QED
  BY <1>1, <1>5, <1>7, <1>9, <1>11, <1>12, <1>13, AnswerStep

\* What a handler about a plan carries.
LEMMA WorkCarries ==
  ASSUME PageInv, flights["work"] # Nothing, Lands("work")
  PROVE  /\ "work" \in Slots /\ flights["work"].about \in Places
         /\ flights["work"].plan \in PlanIds /\ flights["work"].plan # 0
         /\ flights["work"].step # "resources"
         /\ ~ crossed' => /\ Together(shown, plans)
                          /\ flights["work"].plan = shown.plan
<1>1. "work" \in Slots
  BY DEF Slots
<1>2. flights["work"] \in Flight /\ FlightFits("work", flights["work"], plans, crossed)
  BY <1>1, Carried
<1>3. /\ flights["work"].step \in {"draft", "run", "automatic"} /\ flights["work"].plan # 0
      /\ crossed \/ flights["work"].plan = flights["work"].seen[2]
  BY <1>2 DEF FlightFits
<1>4. flights["work"].about \in Places /\ flights["work"].plan \in PlanIds
  BY <1>2, <1>3 DEF Flight
<1> QED
  BY <1>1, <1>3, <1>4, LandsOn, ShownPage

\* The draft and the Run that are shown are of the plan p.
LEMMA WorkStep ==
  ASSUME PageInv, flights["work"] # Nothing, Lands("work"), UNCHANGED plans,
         there' \subseteq Conversations, drafted' \subseteq PlanIds, NEW x, HandlerMoves("work", x),
         shown' \in Page, shown'.conversation = shown.conversation,
         shown'.messages = shown.messages, shown'.plan = shown.plan,
         shown'.sources = shown.sources, shown'.chosen = shown.chosen,
         shown'.draft = flights["work"].plan,
         shown'.run \in {0, shown.run, flights["work"].plan}
  PROVE  PageInv'
<1>1. ~ crossed' => Together(shown', plans)
  BY WorkCarries DEF Together
<1>2. "work" \in Slots
  BY DEF Slots
<1>3. SourcesFit'
  BY <1>2, WorkCarries, SourcesStayOnLanding DEF Lists
<1> QED
  BY <1>1, <1>2, <1>3, AnswerStep

LEMMA LandDraftKeeps == ASSUME PageInv, LandDraft PROVE PageInv'
<1> DEFINE f == flights["work"]
           p == f.plan
<1>1. f # Nothing /\ Lands("work") /\ UNCHANGED <<there, plans>> /\ drafted' = drafted \cup {p}
  BY DEF LandDraft, Awaits
<1>2. p \in PlanIds /\ f.about \in Places /\ "work" \in Slots /\ (~ crossed' => p = shown.plan)
  BY <1>1, WorkCarries
<1>3. there' \subseteq Conversations /\ drafted' \subseteq PlanIds
  BY <1>1, <1>2 DEF PageInv, WorkspaceTypeOK
<1>4. CASE HandlerEnds("work", Drafted(p))
  <2> DEFINE page == [shown EXCEPT !.draft = p, !.run = 0]
  <2>1. /\ page \in Page /\ page.conversation = shown.conversation /\ page.messages = shown.messages
        /\ page.plan = shown.plan /\ page.sources = shown.sources /\ page.chosen = shown.chosen
        /\ page.draft = p /\ page.run = 0
    BY <1>2, ShownPage DEF Page
  <2>2. HandlerEnds("work", page)
    BY <1>4 DEF Drafted
  <2> HIDE DEF page
  <2>3. HandlerMoves("work", Nothing) /\ shown' = page
    BY <2>2, EndsMoves
  <2> QED
    BY <1>1, <1>3, <2>1, <2>3, WorkStep
<1>5. CASE GoesOn("work", [shown EXCEPT !.draft = p], "run", f.about)
  <2> DEFINE page == [shown EXCEPT !.draft = p]
             x == Onto(f, page, "run", f.about)
  <2>1. /\ page \in Page /\ page.conversation = shown.conversation /\ page.messages = shown.messages
        /\ page.plan = shown.plan /\ page.sources = shown.sources /\ page.chosen = shown.chosen
        /\ page.draft = p /\ page.run = shown.run
    BY <1>2, ShownPage DEF Page
  <2>2. GoesOn("work", page, "run", f.about)
    BY <1>5
  <2> HIDE DEF page
  <2>3. x.step = "run" /\ x.plan = p /\ x.seen[2] = shown.plan
    BY <2>1 DEF Onto, View
  <2> HIDE DEF x
  <2>4. p # 0
    BY <1>1, WorkCarries
  <2>5. FlightFits("work", x, plans', crossed')
    BY <1>2, <2>3, <2>4 DEF FlightFits
  <2>6. HandlerMoves("work", x) /\ shown' = page
    BY <1>1, <1>2, <2>1, <2>2, <2>5, GoesOnMoves DEF x
  <2> QED
    BY <1>1, <1>3, <2>1, <2>6, WorkStep
<1> QED
  BY <1>4, <1>5 DEF LandDraft

LEMMA LandRunKeeps == ASSUME PageInv, LandRun PROVE PageInv'
<1> DEFINE p == flights["work"].plan
           page == [shown EXCEPT !.draft = p, !.run = p]
<1>1. flights["work"] # Nothing /\ Lands("work") /\ UNCHANGED <<there, plans, drafted>>
  BY DEF LandRun, Awaits, serverState
<1>2. p \in PlanIds
  BY <1>1, WorkCarries
<1>3. /\ page \in Page /\ page.conversation = shown.conversation /\ page.messages = shown.messages
      /\ page.plan = shown.plan /\ page.sources = shown.sources /\ page.chosen = shown.chosen
      /\ page.draft = p /\ page.run = p
  BY <1>2, ShownPage DEF Page
<1>4. HandlerEnds("work", page)
  BY DEF LandRun
<1>5. there' \subseteq Conversations /\ drafted' \subseteq PlanIds
  BY <1>1 DEF PageInv, WorkspaceTypeOK
<1> HIDE DEF page
<1>6. HandlerMoves("work", Nothing) /\ shown' = page
  BY <1>4, EndsMoves
<1> QED
  BY <1>1, <1>3, <1>5, <1>6, WorkStep

-----------------------------------------------------------------------------
(* The page at any instant *)

LEMMA PageNextInv == PageInv /\ [WorkspaceNext]_workspaceVars => PageInv'
<1> SUFFICES ASSUME PageInv, [WorkspaceNext]_workspaceVars PROVE PageInv'
  OBVIOUS
<1>1. CASE ResetPage
  BY <1>1, ResetPageKeeps
<1>2. CASE Submit
  BY <1>2, SubmitKeeps
<1>3. CASE BeginUpload
  BY <1>3, BeginUploadKeeps
<1>4. CASE Toggle
  BY <1>4, ToggleKeeps
<1>5. CASE CreateArtifact
  BY <1>5, CreateArtifactKeeps
<1>6. CASE PrepareReview
  BY <1>6, PrepareReviewKeeps
<1>7. CASE RequestRun
  BY <1>7, RequestRunKeeps
<1>8. CASE RunAutomatically
  BY <1>8, RunAutomaticallyKeeps
<1>9. CASE DropPlan
  BY <1>9, DropPlanKeeps
<1>10. ASSUME NEW c \in Conversations, NEW s \in Slots, Open(s, c) PROVE PageInv'
  BY <1>10, OpenKeeps
<1>11. ASSUME NEW c \in Conversations, BeginDelete(c) PROVE PageInv'
  BY <1>11, BeginDeleteKeeps
<1>12. ASSUME NEW s \in Slots, Load(s) PROVE PageInv'
  BY <1>12, LoadKeeps
<1>13. ASSUME NEW s \in Slots, LandOpened(s) PROVE PageInv'
  BY <1>13, LandOpenedKeeps
<1>14. ASSUME NEW s \in Slots, LandResources(s) PROVE PageInv'
  BY <1>14, LandResourcesKeeps
<1>15. ASSUME NEW s \in Slots, Fail(s) PROVE PageInv'
  BY <1>15, FailKeeps
<1>16. CASE Delete
  BY <1>16, DeleteKeeps
<1>17. CASE Serve
  BY <1>17, ServeKeeps
<1>18. CASE LandAnswer
  BY <1>18, LandAnswerKeeps
<1>19. CASE LandStream
  BY <1>19, LandStreamKeeps
<1>20. CASE CreateForUpload
  BY <1>20, CreateForUploadKeeps
<1>21. CASE Attach
  BY <1>21, AttachKeeps
<1>22. CASE LandDraft
  BY <1>22, LandDraftKeeps
<1>23. CASE LandRun
  BY <1>23, LandRunKeeps
<1>24. CASE UNCHANGED workspaceVars
  <2>1. Calm /\ UNCHANGED <<flights, shown>>
    BY <1>24 DEF workspaceVars, serverState, Calm
  <2>2. SourcesFit'
    BY <2>1 DEF Calm, PageInv, SourcesFit
  <2> QED
    BY <2>1, <2>2, ShownPage, StillStep
<1> QED
  BY <1>1, <1>2, <1>3, <1>4, <1>5, <1>6, <1>7, <1>8, <1>9, <1>10, <1>11, <1>12, <1>13, <1>14, <1>15,
     <1>16, <1>17, <1>18, <1>19, <1>20, <1>21, <1>22, <1>23, <1>24 DEF WorkspaceNext

\* For any conversations, plans and handlers: as long as no answer lands on a page that has
\* turned to something else, the messages and the plan of the page are of its conversation,
\* its draft of its plan and its Run of its draft; and when all have landed, none of them
\* after a failure, the sources listed and selected are those of the conversation.
THEOREM PageIsSafe == WorkspaceSpec => []PageSafe
<1>1. PageInv => PageSafe
  BY PageInvIsSafe
<1>2. WorkspaceInit => PageInv
  BY PageInitInv
<1>3. PageInv /\ [WorkspaceNext]_workspaceVars => PageInv'
  BY PageNextInv
<1> QED
  BY <1>1, <1>2, <1>3, PTL DEF WorkspaceSpec

=============================================================================
