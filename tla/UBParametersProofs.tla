-------------------------- MODULE UBParametersProofs --------------------------
(***************************************************************************)
(* Theorems about UBParameters, for any vehicle, and any number of retries,  *)
(* operations and late messages.                                             *)
(***************************************************************************)
EXTENDS UBParameters, SequenceTheorems, FiniteSetTheorems, WellFoundedInduction, TLAPS

-----------------------------------------------------------------------------
(* Queues, which are filled at the end and emptied at the head.             *)

\* A sequence, and its elements, after one more.
LEMMA Appending ==
  ASSUME NEW S, NEW s \in Seq(S), NEW e \in S
  PROVE  /\ Append(s, e) \in Seq(S) /\ Range(Append(s, e)) = Range(s) \cup {e}
         /\ DOMAIN Append(s, e) = DOMAIN s \cup {Len(s) + 1}
         /\ \A k \in DOMAIN s : k \in Nat /\ k < Len(s) + 1 /\ Append(s, e)[k] = s[k]
         /\ Append(s, e)[Len(s) + 1] = e
<1>1. /\ DOMAIN s = 1..Len(s) /\ Len(s) \in Nat
      /\ DOMAIN Append(s, e) = 1..(Len(s) + 1)
      /\ \A k \in 1..Len(s) : Append(s, e)[k] = s[k]
      /\ Append(s, e)[Len(s) + 1] = e /\ Append(s, e) \in Seq(S)
  BY AppendProperties, LenProperties
<1>2. DOMAIN Append(s, e) = DOMAIN s \cup {Len(s) + 1}
  BY <1>1
<1>3. Range(Append(s, e)) = Range(s) \cup {e}
  BY <1>1, <1>2 DEF Range
<1> QED BY <1>1, <1>2, <1>3

\* A sequence, and its elements, without the first.
LEMMA TakingHead ==
  ASSUME NEW S, NEW s \in Seq(S), s # <<>>
  PROVE  /\ Head(s) \in S /\ Tail(s) \in Seq(S) /\ s[1] = Head(s) /\ 1 \in DOMAIN s
         /\ Range(s) = {Head(s)} \cup Range(Tail(s))
         /\ \A k \in DOMAIN Tail(s) : k \in Nat /\ k > 0 /\ k + 1 \in DOMAIN s /\ Tail(s)[k] = s[k + 1]
<1>1. /\ DOMAIN s = 1..Len(s) /\ Len(s) \in Nat \ {0}
      /\ Tail(s) \in Seq(S) /\ Len(Tail(s)) = Len(s) - 1 /\ DOMAIN Tail(s) = 1..(Len(s) - 1)
      /\ \A k \in 1..(Len(s) - 1) : Tail(s)[k] = s[k + 1]
      /\ Head(s) \in S /\ Head(s) = s[1]
  BY HeadTailProperties, LenProperties, EmptySeq
<1>2. Range(s) = {Head(s)} \cup Range(Tail(s))
  <2>1. ASSUME NEW x \in Range(s) PROVE x \in {Head(s)} \cup Range(Tail(s))
    <3>1. PICK k \in 1..Len(s) : x = s[k]
      BY <1>1 DEF Range
    <3>2. CASE k = 1
      BY <3>1, <3>2, <1>1
    <3>3. CASE k # 1
      <4>1. k - 1 \in 1..(Len(s) - 1) /\ (k - 1) + 1 = k
        BY <1>1, <3>3
      <4> QED BY <3>1, <1>1, <4>1 DEF Range
    <3> QED BY <3>2, <3>3
  <2>2. ASSUME NEW x \in {Head(s)} \cup Range(Tail(s)) PROVE x \in Range(s)
    BY <1>1, <2>2 DEF Range
  <2> QED BY <2>1, <2>2
<1> QED BY <1>1, <1>2

-----------------------------------------------------------------------------
(* Positions.                                                              *)

\* Any set of positions has a first one.
LEMMA FirstPosition ==
  ASSUME NEW T, T \subseteq Nat, T # {}
  PROVE  \E i \in T : \A j \in T : i <= j
<1> DEFINE R == {ss \in Nat \X Nat : ss[1] < ss[2]}
<1>1. IsWellFoundedOn(R, Nat)
  BY NatLessThanWellFounded DEF OpToRel
<1>2. PICK i \in T : \A j \in T : ~ (<<j, i>> \in R)
  <2> HIDE DEF R
  <2> QED BY <1>1, WFMin
<1>3. i \in Nat /\ \A j \in T : j \in Nat /\ ~ (j < i)
  BY <1>2
<1> QED BY <1>3

-----------------------------------------------------------------------------
(* The maps of what is awaited, with retries up to n.                        *)

Waiting(n) == UNION {[D -> 0..n] : D \in SUBSET Param}

\* A map of some of the parameters to counts of retries.
LEMMA WaitingMeans ==
  ASSUME NEW n \in Nat, NEW w
  PROVE  w \in Waiting(n) <=> DOMAIN w \subseteq Param /\ w \in [DOMAIN w -> 0..n]
<1>1. ASSUME w \in Waiting(n) PROVE DOMAIN w \subseteq Param /\ w \in [DOMAIN w -> 0..n]
  <2>1. PICK D \in SUBSET Param : w \in [D -> 0..n]
    BY <1>1 DEF Waiting
  <2> QED BY <2>1
<1>2. ASSUME DOMAIN w \subseteq Param, w \in [DOMAIN w -> 0..n] PROVE w \in Waiting(n)
  BY <1>2 DEF Waiting
<1> QED BY <1>1, <1>2

\* Nothing is awaited if the map has no parameter.
LEMMA Nothing ==
  ASSUME NEW S, NEW w, w \in [DOMAIN w -> S]
  PROVE  w = Empty <=> DOMAIN w = {}
<1>1. Empty \in [{} -> S] /\ DOMAIN Empty = {}
  <2>1. <<>> \in Seq(S) /\ Len(<<>>) = 0
    BY EmptySeq
  <2>2. <<>> \in [1..0 -> S] /\ DOMAIN <<>> = 1..0
    BY <2>1, LenProperties
  <2>3. 1..0 = {}
    OBVIOUS
  <2> QED BY <2>2, <2>3 DEF Empty
<1>2. ASSUME DOMAIN w = {} PROVE w = Empty
  BY <1>1, <1>2
<1> QED BY <1>1, <1>2

\* What is no longer awaited leaves the map,
LEMMA Removing ==
  ASSUME NEW n \in Nat, NEW w \in Waiting(n), NEW S
  PROVE  /\ Without(w, S) \in Waiting(n)
         /\ DOMAIN Without(w, S) = DOMAIN w \ S
<1>1. DOMAIN w \subseteq Param /\ w \in [DOMAIN w -> 0..n]
  BY WaitingMeans
<1>2. Without(w, S) \in [DOMAIN w \ S -> 0..n]
  BY <1>1 DEF Without, Restrict
<1> QED BY <1>1, <1>2, WaitingMeans

\* what is awaited anew enters it with no retry,
LEMMA Adding ==
  ASSUME NEW n \in Nat, NEW w \in Waiting(n), NEW p \in Param
  PROVE  /\ With(w, p, 0) \in Waiting(n)
         /\ DOMAIN With(w, p, 0) = DOMAIN w \cup {p}
<1>1. DOMAIN w \subseteq Param /\ w \in [DOMAIN w -> 0..n]
  BY WaitingMeans
<1>2. With(w, p, 0) \in [DOMAIN w \cup {p} -> 0..n]
  BY <1>1 DEF With
<1> QED BY <1>1, <1>2, WaitingMeans

\* and what is asked for again stays, as long as its retries are below the limit.
LEMMA Repeating ==
  ASSUME NEW n \in Nat, NEW w \in Waiting(n), NEW p \in DOMAIN w, ~(w[p] >= n)
  PROVE  /\ [w EXCEPT ![p] = @ + 1] \in Waiting(n)
         /\ DOMAIN [w EXCEPT ![p] = @ + 1] = DOMAIN w
<1>1. DOMAIN w \subseteq Param /\ w \in [DOMAIN w -> 0..n]
  BY WaitingMeans
<1>2. w[p] + 1 \in 0..n
  BY <1>1
<1>3. [w EXCEPT ![p] = @ + 1] \in [DOMAIN w -> 0..n]
  BY <1>1, <1>2
<1> QED BY <1>1, <1>3, WaitingMeans

-----------------------------------------------------------------------------
(* Loops over the parameters.                                                *)

Size == Len(Parameters)

\* What is computed turn by turn exists.
Computed(g, R, s) ==
  \E f \in [0..Size -> R] : f[0] = s /\ \A i \in 1..Size : f[i] = g[<<f[i - 1], i>>]

\* A loop whose turns map a set into itself has a value after every turn.
LEMMA Iterated ==
  ASSUME NEW R, NEW g \in [R \X (1..Size) -> R], NEW s \in R
  PROVE  Computed(g, R, s)
<1> DEFINE Run(k, f) == f[0] = s /\ \A i \in 1..k : f[i] = g[<<f[i - 1], i>>]
           Done == {k \in 0..Size : \E f \in [0..k -> R] : Run(k, f)}
           T == (0..Size) \ Done
<1>1. Size \in Nat
  BY ParametersAssumption, LenProperties DEF Size
<1>2. 0 \in Done
  <2> DEFINE f == [i \in 0..0 |-> s]
  <2>1. f \in [0..0 -> R] /\ Run(0, f)
    OBVIOUS
  <2> HIDE DEF f
  <2>2. 0 \in 0..Size
    BY <1>1
  <2> QED BY <2>1, <2>2
<1>3. ASSUME NEW k \in 1..Size, k - 1 \in Done PROVE k \in Done
  <2>1. PICK f \in [0..(k - 1) -> R] : Run(k - 1, f)
    BY <1>3
  <2> DEFINE h == [i \in 0..k |-> IF i = k THEN g[<<f[k - 1], k>>] ELSE f[i]]
  <2>2. k \in 0..Size /\ k - 1 \in 0..(k - 1) /\ k # 0 /\ k \notin 0..(k - 1) /\ 0 \in 0..k
    BY <1>1
  <2>3. h[k] = g[<<f[k - 1], k>>] /\ h[k] \in R
    BY <2>1, <2>2
  <2>4. \A i \in 0..k : i # k => i \in 0..(k - 1) /\ h[i] = f[i]
    BY <1>1
  <2>5. h \in [0..k -> R] /\ h[0] = s
    BY <2>1, <2>2, <2>3, <2>4
  <2>6. ASSUME NEW i \in 1..k PROVE h[i] = g[<<h[i - 1], i>>]
    <3>1. i - 1 \in 0..k /\ i - 1 # k /\ i \in 0..k
      BY <1>1
    <3>2. h[i - 1] = f[i - 1]
      BY <2>4, <3>1
    <3>3. CASE i = k
      BY <2>3, <3>2, <3>3
    <3>4. CASE i # k
      <4>1. i \in 1..(k - 1) /\ h[i] = f[i]
        BY <1>1, <2>4, <3>1, <3>4
      <4> QED BY <2>1, <3>2, <4>1
    <3> QED BY <3>3, <3>4
  <2> HIDE DEF h
  <2> QED BY <2>2, <2>5, <2>6
<1>4. T = {}
  <2> SUFFICES ASSUME T # {} PROVE FALSE
    OBVIOUS
  <2> HIDE DEF Done
  <2>1. PICK k \in T : \A j \in T : k <= j
    <3>1. T \subseteq Nat
      BY <1>1
    <3> QED BY <3>1, FirstPosition
  <2>2. k \in 1..Size /\ k - 1 \in 0..Size /\ ~(k <= k - 1)
    BY <1>1, <1>2
  <2>3. k - 1 \in Done
    BY <2>1, <2>2
  <2> QED BY <1>3, <2>2, <2>3
<1>5. Size \in Done
  <2> HIDE DEF Done
  <2> QED BY <1>1, <1>4
<1> QED BY <1>5 DEF Computed

\* Whatever runs through the turns stays in the sets.
LEMMA Stays ==
  ASSUME NEW n \in Nat, NEW S, NEW f, f[0] \in S[0],
         \A i \in 1..n : f[i - 1] \in S[i - 1] => f[i] \in S[i]
  PROVE  f[n] \in S[n]
<1> DEFINE T == {k \in 0..n : f[k] \notin S[k]}
<1> SUFFICES ASSUME f[n] \notin S[n] PROVE FALSE
  OBVIOUS
<1>1. T \subseteq Nat /\ n \in T
  OBVIOUS
<1>2. PICK k \in T : \A j \in T : k <= j
  BY <1>1, FirstPosition
<1>3. k \in 1..n /\ k - 1 \in 0..n /\ ~(k <= k - 1)
  <2>1. k \in 0..n /\ k # 0
    OBVIOUS
  <2> QED BY <2>1
<1> QED BY <1>2, <1>3

-----------------------------------------------------------------------------
(* The batches of requests.                                                  *)

ReadMessage == [type : {"read"}, param : Param]

\* A loop over the awaited indices: what is in the batch is awaited, and as long as there is
\* nothing in it, what it has gone past, G, is given up.
FillState == [wait : Waiting(MaxIndexRetry), batch : SUBSET {Index(p) : p \in Param},
              failed : SUBSET Param, sent : Seq(ReadMessage)]
FillAt(D, G) ==
  {s \in FillState :
     /\ DOMAIN s.wait \subseteq D
     /\ IsFiniteSet(s.batch) /\ Cardinality(s.batch) <= MaxBatch + 1
     /\ s.batch \subseteq {Index(p) : p \in DOMAIN s.wait}
     /\ s.batch = {} => G \cap DOMAIN s.wait = {}}

\* The manager's limits are natural numbers.
LEMMA Bounds == /\ MaxListRetry \in Nat /\ MaxIndexRetry \in Nat /\ MaxNameRetry \in Nat
                /\ MaxBatch \in Nat /\ MaxOps \in Nat /\ MaxLate \in Nat
BY ParametersAssumption

\* The vehicle's parameters are a list, which holds each of them.
LEMMA TheParameters ==
  /\ Parameters \in Seq(Nat \X Nat) /\ Size \in Nat
  /\ \A i \in 1..Size : Parameters[i] \in Param
  /\ \A p \in Param : \E i \in 1..Size : p = Parameters[i]
  /\ Parameters \in Seq(Param)
<1>1. Parameters \in Seq(Nat \X Nat) /\ DOMAIN Parameters = 1..Size /\ Size \in Nat
  BY ParametersAssumption, LenProperties DEF Size
<1>2. /\ \A i \in 1..Size : Parameters[i] \in Param
      /\ \A p \in Param : \E i \in 1..Size : p = Parameters[i]
  BY <1>1 DEF Param, Range
<1>3. Parameters \in Seq(Param)
  BY <1>1, SeqOfRange DEF Param
<1> QED BY <1>1, <1>2, <1>3

\* A turn of the loop requests a parameter, gives it up, or finds the batch full or the
\* parameter not awaited; if the batch is still empty, the parameter is not awaited any more.
LEMMA RequestedKeeps ==
  ASSUME NEW D, NEW G, NEW p \in Param, NEW s \in FillAt(D, G)
  PROVE  Requested(s, p) \in FillAt(D, G \cup {p})
<1> DEFINE t == Requested(s, p)
<1>1. /\ s \in FillState
      /\ s.wait \in Waiting(MaxIndexRetry) /\ s.batch \subseteq {Index(q) : q \in Param}
      /\ s.failed \subseteq Param /\ s.sent \in Seq(ReadMessage)
      /\ DOMAIN s.wait \subseteq D /\ IsFiniteSet(s.batch) /\ Cardinality(s.batch) <= MaxBatch + 1
      /\ s.batch \subseteq {Index(q) : q \in DOMAIN s.wait}
      /\ s.batch = {} => G \cap DOMAIN s.wait = {}
  BY DEF FillAt, FillState
<1>2. Cardinality(s.batch) \in Nat /\ MaxBatch \in Nat /\ MaxIndexRetry \in Nat
  BY <1>1, FS_CardinalityType, Bounds
<1>3. CASE p \notin DOMAIN s.wait \/ Index(p) \in s.batch \/ Cardinality(s.batch) > MaxBatch
  <2>1. t = s
    BY <1>3 DEF Requested
  <2>2. s.batch = {} => p \notin DOMAIN s.wait
    <3>1. SUFFICES ASSUME s.batch = {} PROVE p \notin DOMAIN s.wait
      OBVIOUS
    <3>2. Cardinality(s.batch) = 0
      BY <3>1, FS_EmptySet
    <3> QED BY <1>2, <1>3, <3>1, <3>2
  <2> HIDE DEF t
  <2> QED BY <1>1, <2>1, <2>2 DEF FillAt, t
<1>4. CASE /\ p \in DOMAIN s.wait /\ Index(p) \notin s.batch /\ ~(Cardinality(s.batch) > MaxBatch)
           /\ s.wait[p] >= MaxIndexRetry
  <2>1. t = [wait |-> Without(s.wait, {p}), batch |-> s.batch, failed |-> s.failed \cup {p}, sent |-> s.sent]
    BY <1>1, <1>4 DEF Requested, FillState
  <2>2. Without(s.wait, {p}) \in Waiting(MaxIndexRetry) /\ DOMAIN Without(s.wait, {p}) = DOMAIN s.wait \ {p}
    BY <1>1, <1>2, Removing
  <2> HIDE DEF t
  <2>3. t \in FillState
    BY <1>1, <2>1, <2>2 DEF FillState
  <2>4. s.batch \subseteq {Index(q) : q \in DOMAIN s.wait \ {p}}
    BY <1>1, <1>4
  <2>5. t.wait = Without(s.wait, {p}) /\ t.batch = s.batch
    BY <2>1
  <2>6. t \in FillAt(D, G \cup {p})
    BY <1>1, <2>2, <2>3, <2>4, <2>5 DEF FillAt
  <2> QED BY <2>6 DEF t
<1>5. CASE /\ p \in DOMAIN s.wait /\ Index(p) \notin s.batch /\ ~(Cardinality(s.batch) > MaxBatch)
           /\ ~(s.wait[p] >= MaxIndexRetry)
  <2> DEFINE w == [s.wait EXCEPT ![p] = @ + 1]
             b == s.batch \cup {Index(p)}
  <2>1. t = [wait |-> w, batch |-> b, failed |-> s.failed, sent |-> Append(s.sent, Read(p))]
    BY <1>1, <1>5 DEF Requested, FillState
  <2>2. w \in Waiting(MaxIndexRetry) /\ DOMAIN w = DOMAIN s.wait
    BY <1>1, <1>2, <1>5, Repeating
  <2>3. Append(s.sent, Read(p)) \in Seq(ReadMessage)
    <3>1. Read(p) \in ReadMessage
      BY <1>1 DEF Read, ReadMessage
    <3> QED BY <1>1, <3>1, AppendProperties
  <2>4. IsFiniteSet(b) /\ Cardinality(b) <= MaxBatch + 1
    <3>1. IsFiniteSet(b) /\ Cardinality(b) = Cardinality(s.batch) + 1
      BY <1>1, <1>5, FS_AddElement
    <3> QED BY <1>2, <1>5, <3>1
  <2>5. b \subseteq {Index(q) : q \in DOMAIN s.wait} /\ b # {} /\ b \subseteq {Index(q) : q \in Param}
    BY <1>1, <1>5
  <2> HIDE DEF t, w, b
  <2>6. t \in FillState
    BY <1>1, <2>1, <2>2, <2>3, <2>5 DEF FillState
  <2>7. t.wait = w /\ t.batch = b
    BY <2>1
  <2>8. t \in FillAt(D, G \cup {p})
    BY <1>1, <2>2, <2>4, <2>5, <2>6, <2>7 DEF FillAt
  <2> QED BY <2>8 DEF t
<1> QED BY <1>3, <1>4, <1>5

\* A batch that is still empty after the loop means that no index is awaited.
LEMMA Filled ==
  ASSUME NEW D, NEW s \in FillAt(D, {})
  PROVE  _fillIndexBatchQueue(s) \in FillAt(D, Param)
<1> DEFINE R == FillAt(D, {})
           Past(i) == {Parameters[j] : j \in 1..i}
           S == [i \in 0..Size |-> FillAt(D, Past(i))]
           g == [x \in R \X (1..Size) |-> Requested(x[1], Parameters[x[2]])]
           Run(f) == f = [i \in 0..Size |-> IF i = 0 THEN s ELSE Requested(f[i - 1], Parameters[i])]
<1>1. /\ Size \in Nat /\ \A i \in 1..Size : i \in 0..Size /\ i - 1 \in 0..Size /\ i # 0
      /\ \A i \in 1..Size : Parameters[i] \in Param
  BY TheParameters
<1>2. ASSUME NEW i \in 1..Size, NEW x \in S[i - 1] PROVE Requested(x, Parameters[i]) \in S[i]
  <2>1. Past(i) = Past(i - 1) \cup {Parameters[i]}
    <3>1. 1..i = (1..(i - 1)) \cup {i}
      BY <1>1
    <3> QED BY <3>1
  <2>2. x \in FillAt(D, Past(i - 1)) /\ S[i] = FillAt(D, Past(i))
    BY <1>1
  <2> HIDE DEF S, Past
  <2> QED BY <1>1, <2>1, <2>2, RequestedKeeps
<1>3. s \in S[0] /\ S[Size] = FillAt(D, Param)
  <2>1. 0 \in 0..Size /\ Size \in 0..Size /\ Past(0) = {}
    BY <1>1
  <2>2. Past(Size) = Param
    BY TheParameters
  <2> HIDE DEF Past
  <2> QED BY <2>1, <2>2
<1>4. \A i \in 1..Size : \A x \in R : Requested(x, Parameters[i]) \in R
  <2> TAKE i \in 1..Size
  <2> TAKE x \in R
  <2>1. Requested(x, Parameters[i]) \in FillAt(D, {} \cup {Parameters[i]})
    BY <1>1, RequestedKeeps
  <2> QED BY <2>1 DEF FillAt
<1> HIDE DEF S
<1>5. PICK f \in [0..Size -> R] : f[0] = s /\ \A i \in 1..Size : f[i] = Requested(f[i - 1], Parameters[i])
  <2>1. g \in [R \X (1..Size) -> R] /\ \A i \in 1..Size : \A x \in R : g[<<x, i>>] = Requested(x, Parameters[i])
    BY <1>4
  <2> HIDE DEF g, R
  <2>2. s \in R
    BY DEF R
  <2>3. Computed(g, R, s)
    BY <2>1, <2>2, Iterated
  <2>4. PICK f \in [0..Size -> R] : f[0] = s /\ \A i \in 1..Size : f[i] = g[<<f[i - 1], i>>]
    BY <2>3 DEF Computed
  <2>5. \A i \in 1..Size : f[i] = Requested(f[i - 1], Parameters[i])
    BY <1>1, <2>1, <2>4
  <2> QED BY <2>4, <2>5
<1>6. Run(f)
  <2> DEFINE h == [i \in 0..Size |-> IF i = 0 THEN s ELSE Requested(f[i - 1], Parameters[i])]
  <2>1. \A i \in 0..Size : i = 0 \/ i \in 1..Size
    BY <1>1
  <2>2. \A i \in 0..Size : f[i] = h[i]
    BY <1>5, <2>1
  <2>3. f = [i \in 0..Size |-> f[i]] /\ h = [i \in 0..Size |-> h[i]]
    BY <1>5
  <2> HIDE DEF h
  <2>4. f = h
    BY <2>2, <2>3
  <2> QED BY <2>4 DEF h
<1> DEFINE after[i \in 0..Size] == IF i = 0 THEN s ELSE Requested(after[i - 1], Parameters[i])
<1>7. _fillIndexBatchQueue(s) = after[Size]
  BY DEF _fillIndexBatchQueue, InOrder, Size
<1>8. after = [i \in 0..Size |-> IF i = 0 THEN s ELSE Requested(after[i - 1], Parameters[i])]
  BY <1>6
<1> HIDE DEF after, Run
<1>9. after[0] = s /\ \A i \in 1..Size : after[i] = Requested(after[i - 1], Parameters[i])
  <2>1. 0 \in 0..Size
    BY <1>1
  <2> QED BY <1>1, <1>8, <2>1
<1>10. after[0] \in S[0] /\ \A i \in 1..Size : after[i - 1] \in S[i - 1] => after[i] \in S[i]
  BY <1>2, <1>3, <1>9
<1>11. after[Size] \in S[Size]
  BY <1>1, <1>10, Stays
<1> QED BY <1>3, <1>7, <1>11

\* A loop over the awaited writes, or reads: those that are not awaited any more have failed,
\* and what is sent are their messages.
ResendState(M) == [wait : Waiting(MaxNameRetry), failed : SUBSET Param, sent : Seq(M)]
ResendAt(D, M) == {s \in ResendState(M) : DOMAIN s.wait \cup s.failed = D}

\* A turn that repeats a write or a read keeps what is awaited within D, and what is sent within M.
LEMMA ResentKeeps ==
  ASSUME NEW D, NEW M, NEW p \in Param, NEW message, p \in D => message \in M,
         NEW s \in ResendAt(D, M)
  PROVE  Resent(s, p, message) \in ResendAt(D, M)
<1> DEFINE t == Resent(s, p, message)
<1>1. /\ s \in ResendState(M) /\ s.wait \in Waiting(MaxNameRetry)
      /\ s.failed \subseteq Param /\ s.sent \in Seq(M)
      /\ DOMAIN s.wait \cup s.failed = D /\ MaxNameRetry \in Nat
  BY Bounds DEF ResendAt, ResendState
<1>2. CASE p \notin DOMAIN s.wait \/ Len(s.sent) > MaxBatch
  BY <1>2 DEF Resent
<1>3. CASE p \in DOMAIN s.wait /\ ~(Len(s.sent) > MaxBatch) /\ s.wait[p] >= MaxNameRetry
  <2>1. t = [wait |-> Without(s.wait, {p}), failed |-> s.failed \cup {p}, sent |-> s.sent]
    BY <1>1, <1>3 DEF Resent, ResendState
  <2>2. Without(s.wait, {p}) \in Waiting(MaxNameRetry) /\ DOMAIN Without(s.wait, {p}) = DOMAIN s.wait \ {p}
    BY <1>1, Removing
  <2> HIDE DEF t
  <2>3. t \in ResendState(M)
    BY <1>1, <2>1, <2>2 DEF ResendState
  <2>4. DOMAIN t.wait \cup t.failed = D
    BY <1>1, <1>3, <2>1, <2>2
  <2> QED BY <2>3, <2>4 DEF ResendAt, t
<1>4. CASE p \in DOMAIN s.wait /\ ~(Len(s.sent) > MaxBatch) /\ ~(s.wait[p] >= MaxNameRetry)
  <2> DEFINE w == [s.wait EXCEPT ![p] = @ + 1]
  <2>1. t = [wait |-> w, failed |-> s.failed, sent |-> Append(s.sent, message)]
    BY <1>1, <1>4 DEF Resent, ResendState
  <2>2. w \in Waiting(MaxNameRetry) /\ DOMAIN w = DOMAIN s.wait
    BY <1>1, <1>4, Repeating
  <2>3. Append(s.sent, message) \in Seq(M)
    BY <1>1, <1>4, AppendProperties
  <2> HIDE DEF t, w
  <2>4. t \in ResendState(M)
    BY <1>1, <2>1, <2>2, <2>3 DEF ResendState
  <2>5. DOMAIN t.wait \cup t.failed = D
    BY <1>1, <2>1, <2>2
  <2> QED BY <2>4, <2>5 DEF ResendAt, t
<1> QED BY <1>2, <1>3, <1>4

\* So does the whole loop over the writes or the reads that are awaited.
LEMMA Resending ==
  ASSUME NEW wait \in Waiting(MaxNameRetry), NEW M, NEW messages,
         \A p \in DOMAIN wait : messages[p] \in M
  PROVE  Resend(messages, wait) \in ResendAt(DOMAIN wait, M)
<1> DEFINE s == [wait |-> wait, failed |-> {}, sent |-> <<>>]
           R == ResendAt(DOMAIN wait, M)
           S == [i \in 0..Size |-> R]
           g == [x \in R \X (1..Size) |-> Resent(x[1], Parameters[x[2]], messages[Parameters[x[2]]])]
           Run(f) == f = [i \in 0..Size |-> IF i = 0 THEN s
                                            ELSE Resent(f[i - 1], Parameters[i], messages[Parameters[i]])]
<1>1. /\ Size \in Nat /\ \A i \in 1..Size : i \in 0..Size /\ i - 1 \in 0..Size /\ i # 0
      /\ \A i \in 1..Size : Parameters[i] \in Param
  BY TheParameters
<1>2. s \in R
  <2>1. <<>> \in Seq(M)
    BY EmptySeq
  <2> QED BY <2>1 DEF ResendAt, ResendState
<1> HIDE DEF s
<1>3. \A i \in 1..Size : \A x \in R : Resent(x, Parameters[i], messages[Parameters[i]]) \in R
  BY <1>1, ResentKeeps
<1>4. PICK f \in [0..Size -> R] :
        f[0] = s /\ \A i \in 1..Size : f[i] = Resent(f[i - 1], Parameters[i], messages[Parameters[i]])
  <2>1. /\ g \in [R \X (1..Size) -> R]
        /\ \A i \in 1..Size : \A x \in R : g[<<x, i>>] = Resent(x, Parameters[i], messages[Parameters[i]])
    BY <1>3
  <2> HIDE DEF g, R
  <2>2. Computed(g, R, s)
    BY <1>2, <2>1, Iterated
  <2>3. PICK f \in [0..Size -> R] : f[0] = s /\ \A i \in 1..Size : f[i] = g[<<f[i - 1], i>>]
    BY <2>2 DEF Computed
  <2>4. \A i \in 1..Size : f[i] = Resent(f[i - 1], Parameters[i], messages[Parameters[i]])
    BY <1>1, <2>1, <2>3
  <2> QED BY <2>3, <2>4
<1>5. Run(f)
  <2> DEFINE h == [i \in 0..Size |-> IF i = 0 THEN s
                                     ELSE Resent(f[i - 1], Parameters[i], messages[Parameters[i]])]
  <2>1. \A i \in 0..Size : i = 0 \/ i \in 1..Size
    BY <1>1
  <2>2. \A i \in 0..Size : f[i] = h[i]
    BY <1>4, <2>1
  <2>3. f = [i \in 0..Size |-> f[i]] /\ h = [i \in 0..Size |-> h[i]]
    BY <1>4
  <2> HIDE DEF h
  <2>4. f = h
    BY <2>2, <2>3
  <2> QED BY <2>4 DEF h
<1> DEFINE after[i \in 0..Size] == IF i = 0 THEN s
                                   ELSE Resent(after[i - 1], Parameters[i], messages[Parameters[i]])
<1>6. Resend(messages, wait) = after[Size]
  BY DEF Resend, InOrder, Size, s
<1>7. Run(after)
  BY <1>5
<1> HIDE DEF after
<1>8. /\ after[0] = s
      /\ \A i \in 1..Size : after[i] = Resent(after[i - 1], Parameters[i], messages[Parameters[i]])
  <2>1. 0 \in 0..Size
    BY <1>1
  <2> QED BY <1>1, <1>7, <2>1
<1> HIDE DEF Run, R
<1>9. after[0] \in S[0] /\ \A i \in 1..Size : after[i - 1] \in S[i - 1] => after[i] \in S[i]
  BY <1>1, <1>2, <1>3, <1>8
<1>10. S[Size] = R
  BY <1>1
<1> HIDE DEF S
<1>11. after[Size] \in S[Size]
  BY <1>1, <1>9, Stays
<1> QED BY <1>6, <1>10, <1>11 DEF R

-----------------------------------------------------------------------------
(* The inductive invariant.                                                  *)

SetMessage == [type : {"set"}, param : Param, value : Values]
UpMessage == {List} \cup ReadMessage \cup SetMessage
DownMessage == [param : Param, value : Values, indexed : BOOLEAN]

Facts ==
  /\ DOMAIN fact \subseteq Param /\ fact \in [DOMAIN fact -> Values] /\ value \in [Param -> Values]
  /\ seen = {Component(p) : p \in DOMAIN fact}
  /\ described \cup overtaken \cup reported \subseteq DOMAIN fact

Awaited ==
  /\ waitIndex \in Waiting(MaxIndexRetry)
  /\ waitName \in Waiting(MaxNameRetry) /\ waitWrite \in Waiting(MaxNameRetry)
  /\ DOMAIN waitName \cup DOMAIN waitWrite \subseteq DOMAIN fact
  /\ \A p \in DOMAIN waitIndex : Component(p) \in seen
  /\ failed \subseteq Param
  /\ IsFiniteSet(batch) /\ Cardinality(batch) <= MaxBatch + 1
  /\ batch \subseteq {Index(p) : p \in DOMAIN waitIndex}

Flags ==
  /\ {batchActive, initialTimer, waitingTimer, waitingForDefault, parametersReady} \subseteq BOOLEAN
  /\ listRetries \in 0..(MaxListRetry + 1) /\ asked \in 0..MaxOps
  /\ initialTimer => DOMAIN fact = {} /\ DOMAIN waitIndex = {} /\ listRetries <= MaxListRetry

Messages == up \in Seq(UpMessage) /\ down \in Seq(DownMessage) /\ streaming \in Seq(Param)

\* The messages about p, and those which say that it is v.
Of(M, p) == {m \in M : m.param = p}
Saying(M, p, v) == {m \in M : m.param = p /\ m.value = v}

\* All that is on the way up (u) or down (d), and the vehicle's x, is v.
Steady(u, d, x, p, v) ==
  /\ Range(d) \cap Of(DownMessage, p) \subseteq Saying(DownMessage, p, v)
  /\ x = v
  /\ Range(u) \cap Of(SetMessage, p) \subseteq Saying(SetMessage, p, v)

\* Once there is one of G, the following of W are all of G.
Turned(s, W, G) == \A j \in DOMAIN s : \A i \in 1..j : s[i] \in G /\ s[j] \in W => s[j] \in G

\* Once v is on its way, it is followed by nothing else: what is on the way down, at the
\* vehicle and on the way up, in this order, turns to v for good.
Turning(u, d, x, p, v) ==
  /\ Turned(d, Of(DownMessage, p), Saying(DownMessage, p, v))
  /\ Range(d) \cap Saying(DownMessage, p, v) # {} => x = v
  /\ x = v => Range(u) \cap Of(SetMessage, p) \subseteq Saying(SetMessage, p, v)
  /\ Turned(u, Of(SetMessage, p), Saying(SetMessage, p, v))

\* Before p is known, nothing but its first value is on the way.  A write that is awaited
\* turns it, if nothing else was written meanwhile; then it is steady again.
Written ==
  \A p \in Param \ (overtaken \cup reported) :
    IF p \notin DOMAIN fact THEN Steady(up, down, value[p], p, value[p])
    ELSE IF p \in DOMAIN waitWrite THEN Turning(up, down, value[p], p, fact[p])
    ELSE Steady(up, down, value[p], p, fact[p])

Types == Facts /\ Awaited /\ Flags /\ Messages
ParametersInv == Types /\ Attended /\ Written

-----------------------------------------------------------------------------
(* What the two long handlers do.                                            *)

TheWrites == {Set(p, fact[p]) : p \in DOMAIN waitWrite}

\* An empty batch to begin with.
LEMMA EmptyBatch ==
  ASSUME NEW w \in Waiting(MaxIndexRetry), NEW F, F \subseteq Param
  PROVE  [wait |-> w, batch |-> {}, failed |-> F, sent |-> <<>>] \in FillAt(DOMAIN w, {})
<1> DEFINE s == [wait |-> w, batch |-> {}, failed |-> F, sent |-> <<>>]
<1>1. IsFiniteSet({}) /\ Cardinality({}) = 0 /\ MaxBatch \in Nat
  BY FS_EmptySet, Bounds
<1>2. <<>> \in Seq(ReadMessage)
  BY EmptySeq
<1>3. s \in FillState
  BY <1>2 DEF FillState
<1>4. s.wait = w /\ s.batch = {}
  OBVIOUS
<1> HIDE DEF s
<1>5. s \in FillAt(DOMAIN w, {})
  BY <1>1, <1>3, <1>4 DEF FillAt
<1> QED BY <1>5 DEF s

\* A timeout asks for the indices anew, or repeats the writes, or the reads; a timer that
\* is not started again leaves nothing behind.
TimeoutDoes ==
  /\ waitIndex' \in Waiting(MaxIndexRetry) /\ DOMAIN waitIndex' \subseteq DOMAIN waitIndex
  /\ IsFiniteSet(batch') /\ Cardinality(batch') <= MaxBatch + 1
  /\ batch' \subseteq {Index(p) : p \in DOMAIN waitIndex'} /\ failed' \subseteq Param
  /\ waitName' \in Waiting(MaxNameRetry) /\ DOMAIN waitName' \subseteq DOMAIN waitName
  /\ waitWrite' \in Waiting(MaxNameRetry) /\ DOMAIN waitWrite' \subseteq DOMAIN waitWrite
  /\ DOMAIN waitWrite \ DOMAIN waitWrite' \subseteq reported'
  /\ reported \subseteq reported' /\ reported' \subseteq reported \cup DOMAIN waitWrite
  /\ \E ms \in Seq(ReadMessage \cup TheWrites) : up' = up \o ms
  /\ waitingTimer' \in BOOLEAN
  /\ waitingTimer' \/ (waitIndex' = Empty /\ waitName = Empty /\ waitWrite = Empty)

\* What _waitingParamTimeout does to the variables, with its loops summed up.
LEMMA TimeoutEffect ==
  ASSUME Types, _waitingParamTimeout
  PROVE  TimeoutDoes
<1> DEFINE s == [wait |-> waitIndex, batch |-> {}, failed |-> failed, sent |-> <<>>]
           filled == _fillIndexBatchQueue(s)
           requested == filled.batch # {}
           defaultMissing == ~requested /\ ~waitingForDefault /\ ~DefaultKnown
           writes == IF requested \/ defaultMissing THEN [wait |-> waitWrite, failed |-> {}, sent |-> <<>>]
                     ELSE Resend(Writes, waitWrite)
           reads == IF requested \/ defaultMissing \/ waitWrite # Empty
                    THEN [wait |-> waitName, failed |-> {}, sent |-> <<>>]
                    ELSE Resend(Reads, waitName)
<1>1. /\ waitIndex \in Waiting(MaxIndexRetry) /\ failed \subseteq Param
      /\ waitName \in Waiting(MaxNameRetry) /\ waitWrite \in Waiting(MaxNameRetry)
      /\ DOMAIN waitName \cup DOMAIN waitWrite \subseteq DOMAIN fact /\ DOMAIN fact \subseteq Param
  BY DEF Types, Awaited, Facts
<1>2. /\ waitIndex' = filled.wait /\ batch' = filled.batch /\ failed' = filled.failed
      /\ waitWrite' = writes.wait /\ reported' = reported \cup writes.failed /\ waitName' = reads.wait
      /\ waitingTimer' = (requested \/ defaultMissing \/ waitWrite # Empty \/ waitName # Empty)
      /\ up' = up \o (filled.sent \o writes.sent \o reads.sent)
  BY DEF _waitingParamTimeout, Send
<1>3. filled \in FillAt(DOMAIN waitIndex, Param)
  <2>1. s \in FillAt(DOMAIN waitIndex, {})
    BY <1>1, EmptyBatch
  <2> HIDE DEF s
  <2> QED BY <2>1, Filled
<1>4. writes \in ResendAt(DOMAIN waitWrite, TheWrites)
  <2>1. [wait |-> waitWrite, failed |-> {}, sent |-> <<>>] \in ResendAt(DOMAIN waitWrite, TheWrites)
    <3>1. <<>> \in Seq(TheWrites)
      BY EmptySeq
    <3> QED BY <1>1, <3>1 DEF ResendAt, ResendState
  <2>2. Resend(Writes, waitWrite) \in ResendAt(DOMAIN waitWrite, TheWrites)
    <3>1. \A p \in DOMAIN waitWrite : Writes[p] \in TheWrites
      BY <1>1 DEF Writes, TheWrites
    <3> QED BY <1>1, <3>1, Resending
  <2> QED BY <2>1, <2>2
<1>5. reads \in ResendAt(DOMAIN waitName, ReadMessage)
  <2>1. [wait |-> waitName, failed |-> {}, sent |-> <<>>] \in ResendAt(DOMAIN waitName, ReadMessage)
    <3>1. <<>> \in Seq(ReadMessage)
      BY EmptySeq
    <3> QED BY <1>1, <3>1 DEF ResendAt, ResendState
  <2>2. Resend(Reads, waitName) \in ResendAt(DOMAIN waitName, ReadMessage)
    <3>1. \A p \in DOMAIN waitName : Reads[p] \in ReadMessage
      BY <1>1 DEF Reads, Read, ReadMessage
    <3> QED BY <1>1, <3>1, Resending
  <2> QED BY <2>1, <2>2
<1>6. waitingTimer' \/ (waitIndex' = Empty /\ waitName = Empty /\ waitWrite = Empty)
  <2> SUFFICES ASSUME ~waitingTimer' PROVE waitIndex' = Empty /\ waitName = Empty /\ waitWrite = Empty
    OBVIOUS
  <2>1. filled.batch = {} /\ waitName = Empty /\ waitWrite = Empty
    BY <1>2
  <2> HIDE DEF filled
  <2>2. filled.wait \in Waiting(MaxIndexRetry) /\ Param \cap DOMAIN filled.wait = {}
    BY <1>3, <2>1 DEF FillAt, FillState
  <2>3. DOMAIN filled.wait = {} /\ filled.wait \in [DOMAIN filled.wait -> 0..MaxIndexRetry]
    BY <2>2, WaitingMeans, Bounds
  <2> QED BY <1>2, <2>1, <2>3, Nothing
<1>7. waitingTimer' \in BOOLEAN
  BY <1>2
<1> HIDE DEF filled, writes, reads, requested, defaultMissing
<1>8. \E ms \in Seq(ReadMessage \cup TheWrites) : up' = up \o ms
  <2> DEFINE M == ReadMessage \cup TheWrites
  <2>1. filled.sent \in Seq(M) /\ writes.sent \in Seq(M) /\ reads.sent \in Seq(M)
    <3>1. filled.sent \in Seq(ReadMessage) /\ writes.sent \in Seq(TheWrites) /\ reads.sent \in Seq(ReadMessage)
      BY <1>3, <1>4, <1>5 DEF FillAt, FillState, ResendAt, ResendState
    <3> QED BY <3>1, SeqMonotonic
  <2>2. filled.sent \o writes.sent \o reads.sent \in Seq(M)
    BY <2>1, ConcatProperties
  <2> QED BY <1>2, <2>2
<1>9. /\ waitIndex' \in Waiting(MaxIndexRetry) /\ DOMAIN waitIndex' \subseteq DOMAIN waitIndex
      /\ IsFiniteSet(batch') /\ Cardinality(batch') <= MaxBatch + 1
      /\ batch' \subseteq {Index(p) : p \in DOMAIN waitIndex'} /\ failed' \subseteq Param
  BY <1>2, <1>3 DEF FillAt, FillState
<1>10. waitName' \in Waiting(MaxNameRetry) /\ DOMAIN waitName' \subseteq DOMAIN waitName
  BY <1>2, <1>5 DEF ResendAt, ResendState
<1>11. /\ waitWrite' \in Waiting(MaxNameRetry) /\ DOMAIN waitWrite' \subseteq DOMAIN waitWrite
       /\ DOMAIN waitWrite \ DOMAIN waitWrite' \subseteq reported'
       /\ reported \subseteq reported' /\ reported' \subseteq reported \cup DOMAIN waitWrite
  BY <1>2, <1>4 DEF ResendAt, ResendState
<1> QED BY <1>6, <1>7, <1>8, <1>9, <1>10, <1>11 DEF TimeoutDoes

\* A value that is not disregarded is taken over, and may make the batch be filled up.
UpdateDoes ==
  LET m == Head(down) IN
  /\ fact' = With(fact, m.param, m.value) /\ seen' = seen \cup {Component(m.param)}
  /\ waitIndex' \in Waiting(MaxIndexRetry)
  /\ \A p \in DOMAIN waitIndex' : Component(p) \in seen'
  /\ IsFiniteSet(batch') /\ Cardinality(batch') <= MaxBatch + 1
  /\ batch' \subseteq {Index(p) : p \in DOMAIN waitIndex'} /\ failed' \subseteq Param
  /\ waitName' = Without(waitName, {m.param}) /\ waitWrite' = Without(waitWrite, {m.param})
  /\ \E ms \in Seq(ReadMessage) : up' = up \o ms
  /\ overtaken' = IF m.param \in DOMAIN waitWrite /\ m.value # fact[m.param]
                  THEN overtaken \cup {m.param} ELSE overtaken
  /\ initialTimer' = FALSE /\ waitingForDefault' = waitingForDefault /\ listRetries' = listRetries
  /\ waitingTimer' = (~DefaultKnown \/ waitIndex' # Empty \/ waitName' # Empty \/ waitWrite' # Empty)
  /\ parametersReady' \in BOOLEAN
  /\ described' \subseteq described \cup DOMAIN fact'

\* What _parameterUpdate does, of a parameter it does not disregard.
LEMMA UpdateEffect ==
  ASSUME Types, _parameterUpdate, ~Disregarded(Head(down))
  PROVE  UpdateDoes
<1> DEFINE m == Head(down)
           p == m.param
           before == IF Component(p) \in seen THEN waitIndex
                     ELSE [q \in DOMAIN waitIndex \cup {q \in Param : Component(q) = Component(p)} |->
                             IF q \in DOMAIN waitIndex THEN waitIndex[q] ELSE 0]
           read == [wait |-> Without(before, {p}), batch |-> batch \ {Index(p)}, failed |-> failed, sent |-> <<>>]
           answered == m.indexed /\ p \in DOMAIN before
           s == IF ~answered THEN [read EXCEPT !.wait = before, !.batch = batch]
                ELSE IF batchActive THEN _fillIndexBatchQueue(read) ELSE read
           D == DOMAIN before
<1>1. /\ waitIndex \in Waiting(MaxIndexRetry) /\ failed \subseteq Param
      /\ \A q \in DOMAIN waitIndex : Component(q) \in seen
      /\ IsFiniteSet(batch) /\ Cardinality(batch) <= MaxBatch + 1
      /\ batch \subseteq {Index(q) : q \in DOMAIN waitIndex}
  BY DEF Types, Awaited
<1>2. m \in DownMessage /\ p \in Param /\ m.value \in Values
  <2>1. down \in Seq(DownMessage) /\ down # <<>>
    BY DEF Types, Messages, _parameterUpdate
  <2>2. m \in DownMessage
    BY <2>1, HeadTailProperties
  <2> QED BY <2>2 DEF DownMessage
<1>3. /\ fact' = With(fact, p, m.value) /\ seen' = seen \cup {Component(p)}
      /\ waitIndex' = s.wait /\ batch' = s.batch /\ failed' = s.failed /\ up' = up \o s.sent
      /\ waitName' = Without(waitName, {p}) /\ waitWrite' = Without(waitWrite, {p})
      /\ overtaken' = IF p \in DOMAIN waitWrite /\ m.value # fact[p] THEN overtaken \cup {p} ELSE overtaken
      /\ initialTimer' = FALSE /\ waitingForDefault' = waitingForDefault /\ listRetries' = listRetries
      /\ waitingTimer' = (~DefaultKnown \/ waitIndex' # Empty \/ waitName' # Empty \/ waitWrite' # Empty)
      /\ described' = IF Component(p) = Default /\ LastOfComponent(before, Default) /\ described = {}
                      THEN {q \in DOMAIN fact' : Component(q) = Default} ELSE described
      /\ parametersReady' = (parametersReady \/ (waitIndex' = Empty /\ DefaultKnown'))
  BY DEF _parameterUpdate, Send, StillWaiting, _checkInitialLoadComplete
<1>4. /\ before \in Waiting(MaxIndexRetry) /\ DOMAIN waitIndex \subseteq DOMAIN before
      /\ \A q \in DOMAIN before : Component(q) \in seen'
  <2>1. CASE Component(p) \in seen
    BY <1>1, <1>3, <2>1
  <2>2. CASE Component(p) \notin seen
    <3>1. DOMAIN waitIndex \subseteq Param /\ waitIndex \in [DOMAIN waitIndex -> 0..MaxIndexRetry]
      BY <1>1, WaitingMeans, Bounds
    <3>2. 0 \in 0..MaxIndexRetry
      BY Bounds
    <3>3. before = [q \in DOMAIN waitIndex \cup {q \in Param : Component(q) = Component(p)} |->
                             IF q \in DOMAIN waitIndex THEN waitIndex[q] ELSE 0]
      BY <2>2
    <3> HIDE DEF before
    <3>4. DOMAIN before = DOMAIN waitIndex \cup {q \in Param : Component(q) = Component(p)}
      BY <3>3
    <3>5. before \in [DOMAIN before -> 0..MaxIndexRetry] /\ DOMAIN before \subseteq Param
      BY <3>1, <3>2, <3>3, <3>4
    <3>6. before \in Waiting(MaxIndexRetry)
      BY <3>5, WaitingMeans, Bounds
    <3> QED BY <1>1, <1>3, <3>4, <3>6
  <2> QED BY <2>1, <2>2
<1> HIDE DEF before
<1>5. <<>> \in Seq(ReadMessage)
  BY EmptySeq
<1>6. CASE ~answered
  <2>1. s.wait = before /\ s.batch = batch /\ s.failed = failed /\ s.sent = <<>>
    BY <1>6
  <2> HIDE DEF s
  <2>2. batch \subseteq {Index(q) : q \in DOMAIN before}
    BY <1>1, <1>4
  <2> QED BY <1>1, <1>3, <1>4, <1>5, <2>1, <2>2 DEF UpdateDoes
<1>7. CASE answered
  <2>1. read \in FillAt(D, {})
    <3>1. Without(before, {p}) \in Waiting(MaxIndexRetry) /\ DOMAIN Without(before, {p}) = D \ {p}
      BY <1>4, Removing, Bounds
    <3>2. IsFiniteSet(batch \ {Index(p)}) /\ Cardinality(batch \ {Index(p)}) <= MaxBatch + 1
      <4>1. batch \ {Index(p)} \in SUBSET batch
        OBVIOUS
      <4>2. IsFiniteSet(batch \ {Index(p)}) /\ Cardinality(batch \ {Index(p)}) <= Cardinality(batch)
        BY <1>1, <4>1, FS_Subset
      <4>3. Cardinality(batch \ {Index(p)}) \in Nat /\ Cardinality(batch) \in Nat /\ MaxBatch \in Nat
        BY <1>1, <4>2, FS_CardinalityType, Bounds
      <4> QED BY <1>1, <4>2, <4>3
    <3>3. batch \ {Index(p)} \subseteq {Index(q) : q \in D \ {p}}
      BY <1>1, <1>4
    <3>4. D \subseteq Param
      BY <1>4, WaitingMeans, Bounds
    <3>5. read.wait = Without(before, {p}) /\ read.batch = batch \ {Index(p)}
      OBVIOUS
    <3>6. read \in FillState
      BY <1>1, <1>5, <3>1, <3>3, <3>4 DEF FillState
    <3> HIDE DEF read, p, D
    <3> QED BY <3>1, <3>2, <3>3, <3>5, <3>6 DEF FillAt
  <2> HIDE DEF read
  <2>2. s \in FillAt(D, {})
    <3>1. _fillIndexBatchQueue(read) \in FillAt(D, Param)
      BY <2>1, Filled
    <3>2. FillAt(D, Param) \subseteq FillAt(D, {})
      BY DEF FillAt
    <3> QED BY <1>7, <2>1, <3>1, <3>2
  <2> HIDE DEF s
  <2>3. /\ s.wait \in Waiting(MaxIndexRetry) /\ DOMAIN s.wait \subseteq D /\ s.failed \subseteq Param
        /\ IsFiniteSet(s.batch) /\ Cardinality(s.batch) <= MaxBatch + 1
        /\ s.batch \subseteq {Index(q) : q \in DOMAIN s.wait} /\ s.sent \in Seq(ReadMessage)
    BY <2>2 DEF FillAt, FillState
  <2> QED BY <1>3, <1>4, <2>3 DEF UpdateDoes
<1> QED BY <1>6, <1>7

-----------------------------------------------------------------------------
(* Types.                                                                    *)

\* The invariant holds when nothing was asked for or heard.
LEMMA Starts == Init => ParametersInv
<1> SUFFICES ASSUME Init PROVE ParametersInv
  OBVIOUS
<1>1. DOMAIN Empty = {} /\ \A S : Empty \in [{} -> S] /\ \A n \in Nat : Empty \in Waiting(n)
  <2>1. \A S : <<>> \in Seq(S) /\ Len(<<>>) = 0
    BY EmptySeq
  <2>2. \A S : <<>> \in [1..0 -> S] /\ DOMAIN <<>> = 1..0
    BY <2>1, LenProperties
  <2>3. 1..0 = {}
    OBVIOUS
  <2>4. DOMAIN Empty = {} /\ \A S : Empty \in [{} -> S]
    BY <2>2, <2>3 DEF Empty
  <2> QED BY <2>4, WaitingMeans
<1>2. Facts
  BY <1>1, ParametersAssumption DEF Init, Facts
<1>3. Awaited
  <2>1. IsFiniteSet({}) /\ Cardinality({}) = 0 /\ MaxBatch \in Nat
    BY FS_EmptySet, Bounds
  <2> QED BY <1>1, <2>1, Bounds DEF Init, Awaited
<1>4. Flags
  <2>1. DOMAIN fact = {} /\ DOMAIN waitIndex = {}
    BY <1>1 DEF Init
  <2>2. listRetries \in 0..(MaxListRetry + 1) /\ listRetries <= MaxListRetry /\ asked \in 0..MaxOps
    BY Bounds DEF Init
  <2>3. {batchActive, initialTimer, waitingTimer, waitingForDefault, parametersReady} \subseteq BOOLEAN
    BY DEF Init
  <2> QED BY <2>1, <2>2, <2>3 DEF Flags
<1>5. up = <<List>> /\ down = <<>> /\ streaming = <<>>
  BY DEF Init
<1>6. Messages
  <2>1. List \in UpMessage
    BY DEF UpMessage
  <2> QED BY <1>5, <2>1, EmptySeq DEF Messages
<1>7. Attended
  BY DEF Init, Attended
<1>8. Written
  <2>1. \A m \in Range(down) : FALSE
    BY <1>5, EmptySeq, LenProperties DEF Range
  <2>2. \A m \in Range(up) : m = List
    BY <1>5 DEF Range
  <2>3. List \notin SetMessage
    BY DEF List, SetMessage
  <2>4. \A p : Steady(up, down, value[p], p, value[p])
    BY <2>1, <2>2, <2>3 DEF Steady, Of
  <2>5. DOMAIN fact = {}
    BY <1>1 DEF Init
  <2> QED BY <2>4, <2>5 DEF Written
<1> QED BY <1>2, <1>3, <1>4, <1>6, <1>7, <1>8 DEF ParametersInv, Types

\* Messages sent up are added to those of the link,
LEMMA Sending ==
  ASSUME up \in Seq(UpMessage), NEW ms \in Seq(UpMessage), up' = up \o ms
  PROVE  up' \in Seq(UpMessage)
BY ConcatProperties

\* as is one alone.
LEMMA OneMessage ==
  ASSUME up \in Seq(UpMessage), NEW m \in UpMessage, up' = up \o <<m>>
  PROVE  up' \in Seq(UpMessage)
<1>1. <<m>> \in Seq(UpMessage)
  OBVIOUS
<1> QED BY <1>1, Sending

\* What the vehicle takes from the link is a message of the type it handles.
LEMMA HandlingTypes ==
  ASSUME NEW type, up \in Seq(UpMessage), up # <<>>, Head(up).type = type, up' = Tail(up)
  PROVE  /\ up' \in Seq(UpMessage) /\ Head(up) \in UpMessage
         /\ type = "read" => Head(up).param \in Param
         /\ type = "set" => Head(up) \in SetMessage /\ Head(up).param \in Param /\ Head(up).value \in Values
<1>1. up' \in Seq(UpMessage) /\ Head(up) \in UpMessage
  BY HeadTailProperties
<1>2. List.type = "list" /\ \A m \in ReadMessage : m.type = "read" /\ m.param \in Param
  BY DEF List, ReadMessage
<1>3. \A m \in SetMessage : m.type = "set" /\ m.param \in Param /\ m.value \in Values
  BY DEF SetMessage
<1> QED BY <1>1, <1>2, <1>3 DEF UpMessage

\* The vehicle's answers are messages with a value of the parameter.
LEMMA Responding ==
  ASSUME Messages, value' \in [Param -> Values], NEW p \in Param, NEW indexed \in BOOLEAN,
         Respond(p, indexed)
  PROVE  down' \in Seq(DownMessage)
<1> DEFINE m == [param |-> p, value |-> value'[p], indexed |-> indexed]
<1>1. m \in DownMessage
  BY DEF DownMessage
<1>2. down' = Append(down, m) /\ down \in Seq(DownMessage)
  BY DEF Respond, Messages
<1> HIDE DEF m
<1> QED BY <1>1, <1>2, AppendProperties

\* What the vehicle does keeps the types.
LEMMA VehicleTypes ==
  ASSUME Types, Vehicle
  PROVE  Types'
<1>1. UNCHANGED manager
  BY DEF Vehicle, _handleParamRequestList, _paramRequestListWorker, _handleParamRequestRead,
         _handleParamSet, Handle
<1>2. value \in [Param -> Values] /\ Messages /\ up \in Seq(UpMessage) /\ streaming \in Seq(Param)
  BY DEF Types, Facts, Messages
<1>3. value' \in [Param -> Values] /\ Messages'
  <2>1. CASE _handleParamRequestList
    <3>1. up' \in Seq(UpMessage)
      BY <1>2, <2>1, HandlingTypes DEF _handleParamRequestList, Handle
    <3>2. streaming' \in Seq(Param) /\ UNCHANGED <<value, down>>
      BY <2>1, TheParameters DEF _handleParamRequestList
    <3> QED BY <1>2, <3>1, <3>2 DEF Messages
  <2>2. CASE _paramRequestListWorker
    <3>1. /\ streaming # <<>> /\ streaming' = Tail(streaming) /\ value' = value /\ up' = up
          /\ Respond(Head(streaming), TRUE)
      BY <2>2 DEF _paramRequestListWorker
    <3>2. streaming' \in Seq(Param) /\ Head(streaming) \in Param
      BY <1>2, <3>1, HeadTailProperties
    <3>3. down' \in Seq(DownMessage)
      BY <1>2, <3>1, <3>2, Responding
    <3> QED BY <1>2, <3>1, <3>2, <3>3 DEF Messages
  <2>3. CASE _handleParamRequestRead
    <3>1. up # <<>> /\ Head(up).type = "read" /\ up' = Tail(up) /\ UNCHANGED <<value, streaming>>
          /\ Respond(Head(up).param, TRUE)
      BY <2>3 DEF _handleParamRequestRead, Handle
    <3>2. up' \in Seq(UpMessage) /\ Head(up).param \in Param
      BY <1>2, <3>1, HandlingTypes
    <3>3. down' \in Seq(DownMessage)
      BY <1>2, <3>1, <3>2, Responding
    <3> QED BY <1>2, <3>1, <3>2, <3>3 DEF Messages
  <2>4. CASE _handleParamSet
    <3>1. /\ up # <<>> /\ Head(up).type = "set" /\ up' = Tail(up) /\ UNCHANGED streaming
          /\ value' = [value EXCEPT ![Head(up).param] = Head(up).value]
          /\ Respond(Head(up).param, TRUE)
      BY <2>4 DEF _handleParamSet, Handle
    <3>2. up' \in Seq(UpMessage) /\ Head(up).param \in Param /\ Head(up).value \in Values
      BY <1>2, <3>1, HandlingTypes
    <3>3. value' \in [Param -> Values]
      BY <1>2, <3>1, <3>2
    <3>4. down' \in Seq(DownMessage)
      BY <1>2, <3>1, <3>2, <3>3, Responding
    <3> QED BY <1>2, <3>1, <3>2, <3>3, <3>4 DEF Messages
  <2> QED BY <2>1, <2>2, <2>3, <2>4 DEF Vehicle
<1> QED BY <1>1, <1>3 DEF Types, Facts, Awaited, Flags, Messages, manager, waits, timers, load, history

\* So do lost messages and changes on board.
LEMMA LinkTypes ==
  ASSUME Types, Lose \/ \E p \in Param : Announce(p)
  PROVE  Types'
<1>1. CASE Lose
  <2>1. UNCHANGED <<manager, vehicle>>
    BY <1>1 DEF Lose
  <2>2. up \in Seq(UpMessage) /\ down \in Seq(DownMessage) /\ streaming \in Seq(Param)
    BY DEF Types, Messages
  <2>3. up' \in Seq(UpMessage) /\ down' \in Seq(DownMessage)
    BY <1>1, <2>2, HeadTailProperties DEF Lose
  <2> QED BY <2>1, <2>2, <2>3 DEF Types, Facts, Awaited, Flags, Messages, manager, vehicle, waits, timers, load, history
<1>2. ASSUME NEW p \in Param, Announce(p) PROVE Types'
  <2>1. /\ UNCHANGED <<fact, waits, batch, batchActive, timers, load, overtaken, reported, streaming, up>>
        /\ asked < MaxOps /\ asked' = asked + 1 /\ value' = value /\ Respond(p, FALSE)
    BY <1>2 DEF Announce
  <2>2. down' \in Seq(DownMessage)
    BY <2>1, Responding DEF Types, Facts
  <2>3. asked' \in 0..MaxOps
    BY <2>1, Bounds DEF Types, Flags
  <2> QED BY <2>1, <2>2, <2>3 DEF Types, Facts, Awaited, Flags, Messages, waits, timers, load
<1> QED BY <1>1, <1>2

\* So do the reads, writes and refreshes of the user.
LEMMA UserTypes ==
  ASSUME Types, User
  PROVE  Types'
<1>1. /\ up \in Seq(UpMessage) /\ DOMAIN fact \subseteq Param
      /\ fact \in [DOMAIN fact -> Values] /\ value \in [Param -> Values]
      /\ waitIndex \in Waiting(MaxIndexRetry)
      /\ waitName \in Waiting(MaxNameRetry) /\ waitWrite \in Waiting(MaxNameRetry)
      /\ DOMAIN waitName \cup DOMAIN waitWrite \subseteq DOMAIN fact
      /\ \A p \in DOMAIN waitIndex : Component(p) \in seen
      /\ seen = {Component(p) : p \in DOMAIN fact}
      /\ MaxNameRetry \in Nat /\ MaxIndexRetry \in Nat
  BY Bounds DEF Types, Messages, Facts, Awaited
<1>2. Ask => asked' \in 0..MaxOps
  BY Bounds DEF Ask, Types, Flags
<1>3. Ask => Ask /\ UNCHANGED <<failed, seen, batch, batchActive, initialTimer, listRetries,
                                 waitingForDefault, load, vehicle, down>>
  BY DEF Ask
<1>4. ASSUME NEW p \in DOMAIN fact, refreshParameter(p) PROVE Types'
  <2>1. /\ Ask /\ waitName' = With(waitName, p, 0) /\ waitingTimer' = TRUE /\ up' = up \o <<Read(p)>>
        /\ UNCHANGED <<fact, waitIndex, waitWrite, overtaken, reported>>
    BY <1>4 DEF refreshParameter, Send
  <2>2. p \in Param /\ Read(p) \in UpMessage
    BY <1>1 DEF Read, ReadMessage, UpMessage
  <2>3. up' \in Seq(UpMessage)
    BY <1>1, <2>1, <2>2, OneMessage
  <2>4. waitName' \in Waiting(MaxNameRetry) /\ DOMAIN waitName' = DOMAIN waitName \cup {p}
    BY <1>1, <2>1, <2>2, Adding
  <2> QED BY <1>1, <1>2, <1>3, <2>1, <2>3, <2>4 DEF Types, Facts, Awaited, Flags, Messages, load, vehicle
<1>5. ASSUME NEW p \in DOMAIN fact, NEW v \in Values, _valueUpdated(p, v) PROVE Types'
  <2>1. /\ Ask /\ fact' = [fact EXCEPT ![p] = v] /\ waitWrite' = With(waitWrite, p, 0) /\ waitingTimer' = TRUE
        /\ overtaken' \subseteq overtaken \cup {p} /\ reported' \subseteq reported
        /\ up' = up \o <<Set(p, v)>> /\ UNCHANGED <<waitIndex, waitName>>
    BY <1>5 DEF _valueUpdated, Send
  <2>2. p \in Param /\ Set(p, v) \in UpMessage
    BY <1>1 DEF Set, SetMessage, UpMessage
  <2>3. up' \in Seq(UpMessage)
    BY <1>1, <2>1, <2>2, OneMessage
  <2>4. waitWrite' \in Waiting(MaxNameRetry) /\ DOMAIN waitWrite' = DOMAIN waitWrite \cup {p}
    BY <1>1, <2>1, <2>2, Adding
  <2>5. fact' \in [DOMAIN fact -> Values] /\ DOMAIN fact' = DOMAIN fact
    BY <1>1, <2>1
  <2>6. Facts'
    BY <1>1, <1>3, <2>1, <2>5 DEF Types, Facts, load, vehicle
  <2>7. Awaited'
    BY <1>1, <1>3, <2>1, <2>4, <2>5 DEF Types, Awaited
  <2>8. Flags' /\ Messages'
    BY <1>2, <1>3, <2>1, <2>3, <2>5 DEF Types, Flags, Messages, load, vehicle
  <2> QED BY <2>6, <2>7, <2>8 DEF Types
<1>6. ASSUME Refresh PROVE Types'
  <2>1. /\ Ask /\ waitIndex' = [p \in {q \in Param : Component(q) \in seen} |-> 0] /\ up' = up \o <<List>>
        /\ UNCHANGED <<fact, waitName, waitWrite, waitingTimer, overtaken, reported>>
    BY <1>6 DEF Refresh, refreshAllParameters, Send
  <2>2. up' \in Seq(UpMessage)
    <3>1. List \in UpMessage
      BY DEF UpMessage
    <3> QED BY <1>1, <2>1, <3>1, OneMessage
  <2>3. DOMAIN waitIndex' = {q \in Param : Component(q) \in seen}
    BY <2>1
  <2>4. waitIndex' \in Waiting(MaxIndexRetry)
    <3>1. waitIndex' \in [DOMAIN waitIndex' -> 0..MaxIndexRetry] /\ DOMAIN waitIndex' \subseteq Param
      BY <1>1, <2>1, <2>3
    <3> QED BY <1>1, <3>1, WaitingMeans
  <2>5. DOMAIN waitIndex \subseteq DOMAIN waitIndex'
    BY <1>1, <2>3, WaitingMeans
  <2>6. Awaited'
    BY <1>1, <1>3, <2>1, <2>3, <2>4, <2>5 DEF Types, Awaited
  <2>7. Flags'
    BY <1>2, <1>3, <1>1, <2>1, <2>3 DEF Types, Flags, load
  <2> QED BY <1>3, <2>1, <2>2, <2>6, <2>7 DEF Types, Facts, Messages, load, vehicle
<1> QED BY <1>4, <1>5, <1>6 DEF User

\* So does the timeout of the first request, which runs while nothing was heard.
LEMMA InitialTimeoutTypes ==
  ASSUME Types, _initialRequestTimeout
  PROVE  Types' /\ DOMAIN waitIndex' = {}
<1>1. /\ up \in Seq(UpMessage) /\ DOMAIN fact = {} /\ DOMAIN waitIndex = {} /\ seen = {}
      /\ waitIndex \in Waiting(MaxIndexRetry) /\ batch = {}
      /\ initialTimer /\ listRetries \in 0..MaxListRetry /\ MaxListRetry \in Nat /\ MaxIndexRetry \in Nat
  <2>1. initialTimer /\ DOMAIN fact = {} /\ DOMAIN waitIndex = {} /\ listRetries <= MaxListRetry
    BY DEF _initialRequestTimeout, Types, Flags
  <2>2. listRetries \in 0..MaxListRetry
    BY <2>1, Bounds DEF Types, Flags
  <2> QED BY <2>1, <2>2, Bounds DEF Types, Facts, Awaited, Messages
<1>2. /\ listRetries' = listRetries + 1
      /\ UNCHANGED <<fact, waitName, waitWrite, failed, seen, batch, batchActive, waitingTimer,
                     waitingForDefault, load, vehicle, down, history>>
      /\ IF listRetries < MaxListRetry THEN refreshAllParameters /\ UNCHANGED initialTimer
         ELSE initialTimer' = FALSE /\ UNCHANGED <<waitIndex, up>>
  BY DEF _initialRequestTimeout
<1>3. /\ waitIndex' \in Waiting(MaxIndexRetry) /\ DOMAIN waitIndex' = {} /\ up' \in Seq(UpMessage)
      /\ initialTimer' \in BOOLEAN /\ initialTimer' => listRetries < MaxListRetry
  <2>1. CASE listRetries < MaxListRetry
    <3>1. waitIndex' = [p \in {q \in Param : Component(q) \in seen} |-> 0] /\ up' = up \o <<List>>
      BY <1>2, <2>1 DEF refreshAllParameters, Send
    <3>2. List \in UpMessage
      BY DEF UpMessage
    <3>3. up' \in Seq(UpMessage)
      BY <1>1, <3>1, <3>2, OneMessage
    <3>4. DOMAIN waitIndex' = {} /\ waitIndex' \in [DOMAIN waitIndex' -> 0..MaxIndexRetry]
      BY <1>1, <3>1
    <3>5. waitIndex' \in Waiting(MaxIndexRetry)
      BY <1>1, <3>4, WaitingMeans
    <3> QED BY <1>1, <1>2, <2>1, <3>3, <3>4, <3>5
  <2>2. CASE ~(listRetries < MaxListRetry)
    BY <1>1, <1>2, <2>2
  <2> QED BY <2>1, <2>2
<1>4. listRetries' \in 0..(MaxListRetry + 1) /\ (initialTimer' => listRetries' <= MaxListRetry)
  <2>1. listRetries' \in 0..(MaxListRetry + 1) /\ (listRetries < MaxListRetry => listRetries' <= MaxListRetry)
    BY <1>1, <1>2
  <2> QED BY <1>3, <2>1
<1>5. Awaited'
  BY <1>1, <1>2, <1>3 DEF Types, Awaited
<1>6. Flags'
  BY <1>1, <1>2, <1>3, <1>4 DEF Types, Flags, load, history
<1> QED BY <1>2, <1>3, <1>5, <1>6 DEF Types, Facts, Messages, load, vehicle, history

\* So does the timeout of what is awaited.
LEMMA TimeoutTypes ==
  ASSUME Types, _waitingParamTimeout
  PROVE  Types'
<1>1. TimeoutDoes
  BY TimeoutEffect
<1>2. /\ UNCHANGED <<fact, seen, initialTimer, listRetries, described, vehicle, down, asked, overtaken>>
      /\ batchActive' = TRUE /\ waitingForDefault' \in BOOLEAN /\ parametersReady' \in BOOLEAN
  BY DEF _waitingParamTimeout, _checkInitialLoadComplete, Types, Flags
<1>3. up' \in Seq(UpMessage)
  <2>1. PICK ms \in Seq(ReadMessage \cup TheWrites) : up' = up \o ms
    BY <1>1 DEF TimeoutDoes
  <2>2. ReadMessage \cup TheWrites \subseteq UpMessage
    <3>1. \A p \in DOMAIN waitWrite : p \in Param /\ fact[p] \in Values
      BY DEF Types, Awaited, Facts
    <3> QED BY <3>1 DEF TheWrites, Set, SetMessage, UpMessage
  <2>3. ms \in Seq(UpMessage)
    BY <2>1, <2>2, SeqMonotonic
  <2> QED BY <2>1, <2>3, Sending DEF Types, Messages
<1>4. Facts'
  BY <1>1, <1>2 DEF Types, Facts, Awaited, TimeoutDoes, vehicle
<1>5. Awaited'
  BY <1>1, <1>2 DEF Types, Awaited, TimeoutDoes
<1>6. Flags'
  BY <1>1, <1>2 DEF Types, Flags, TimeoutDoes
<1> QED BY <1>2, <1>3, <1>4, <1>5, <1>6 DEF Types, Messages, vehicle

\* So does a value received.
LEMMA UpdateTypes ==
  ASSUME Types, _parameterUpdate
  PROVE  Types'
<1> DEFINE m == Head(down)
           p == m.param
<1>1. /\ down \in Seq(DownMessage) /\ down # <<>> /\ down' = Tail(down) /\ up \in Seq(UpMessage)
      /\ UNCHANGED <<batchActive, vehicle, asked, reported>>
  BY DEF _parameterUpdate, Types, Messages
<1>2. down' \in Seq(DownMessage) /\ m \in DownMessage /\ p \in Param /\ m.value \in Values
  <2>1. down' \in Seq(DownMessage) /\ m \in DownMessage
    BY <1>1, HeadTailProperties
  <2> QED BY <2>1 DEF DownMessage
<1>3. CASE Disregarded(m)
  <2>1. UNCHANGED <<fact, waits, batch, timers, load, up, overtaken>>
    BY <1>3 DEF _parameterUpdate
  <2> QED BY <1>1, <1>2, <2>1 DEF Types, Facts, Awaited, Flags, Messages, waits, timers, load, vehicle
<1>4. CASE ~Disregarded(m)
  <2>1. UpdateDoes
    BY <1>4, UpdateEffect
  <2>2. up' \in Seq(UpMessage)
    <3>1. PICK ms \in Seq(ReadMessage) : up' = up \o ms
      BY <2>1 DEF UpdateDoes
    <3>2. ms \in Seq(UpMessage)
      BY <3>1, SeqMonotonic DEF UpMessage
    <3> QED BY <1>1, <3>1, <3>2, Sending
  <2>3. /\ fact' = With(fact, p, m.value) /\ seen' = seen \cup {Component(p)}
        /\ waitName' = Without(waitName, {p}) /\ waitWrite' = Without(waitWrite, {p})
        /\ overtaken' \subseteq overtaken \cup (DOMAIN waitWrite)
        /\ initialTimer' = FALSE /\ waitingForDefault' = waitingForDefault /\ listRetries' = listRetries
        /\ waitingTimer' \in BOOLEAN /\ parametersReady' \in BOOLEAN
        /\ described' \subseteq described \cup DOMAIN fact'
    BY <2>1 DEF UpdateDoes
  <2>4. DOMAIN fact' = DOMAIN fact \cup {p} /\ fact' \in [DOMAIN fact' -> Values]
    BY <1>2, <2>3 DEF With, Types, Facts
  <2>5. /\ waitName' \in Waiting(MaxNameRetry) /\ DOMAIN waitName' = DOMAIN waitName \ {p}
        /\ waitWrite' \in Waiting(MaxNameRetry) /\ DOMAIN waitWrite' = DOMAIN waitWrite \ {p}
    BY <2>3, Removing, Bounds DEF Types, Awaited
  <2>6. Facts'
    BY <1>1, <1>2, <2>3, <2>4 DEF Types, Facts, Awaited, vehicle
  <2>7. Awaited'
    BY <2>1, <2>4, <2>5 DEF Types, Awaited, UpdateDoes
  <2>8. Flags'
    BY <1>1, <2>3 DEF Types, Flags
  <2> QED BY <1>1, <1>2, <2>2, <2>6, <2>7, <2>8 DEF Types, Messages, vehicle
<1> QED BY <1>3, <1>4

\* Every step keeps the types.
LEMMA TypesKept == Types /\ [Next]_vars => Types'
<1> SUFFICES ASSUME Types, [Next]_vars PROVE Types'
  OBVIOUS
<1>1. CASE User
  BY <1>1, UserTypes
<1>2. CASE Timeout
  BY <1>2, TimeoutTypes, InitialTimeoutTypes DEF Timeout
<1>3. CASE _parameterUpdate
  BY <1>3, UpdateTypes
<1>4. CASE Vehicle
  BY <1>4, VehicleTypes
<1>5. CASE Lose \/ \E p \in Param : Announce(p)
  BY <1>5, LinkTypes
<1>6. CASE UNCHANGED vars
  BY <1>6 DEF vars, Types, Facts, Awaited, Flags, Messages, waits, timers, load, vehicle, history
<1> QED BY <1>1, <1>2, <1>3, <1>4, <1>5, <1>6 DEF Next

-----------------------------------------------------------------------------
(* What is awaited has a timer.                                              *)

\* Every step that leaves something awaited leaves the timer running: a timeout that repeats
\* nothing found nothing to repeat.
LEMMA AttendedKept ==
  ASSUME Types, Attended, [Next]_vars
  PROVE  Attended'
<1>1. Types'
  BY TypesKept
<1>2. /\ waitIndex' = Empty <=> DOMAIN waitIndex' = {}
      /\ waitIndex = Empty <=> DOMAIN waitIndex = {}
      /\ waitName = Empty <=> DOMAIN waitName = {}
      /\ waitName' = Empty <=> DOMAIN waitName' = {}
      /\ waitWrite = Empty <=> DOMAIN waitWrite = {}
      /\ waitWrite' = Empty <=> DOMAIN waitWrite' = {}
  <2>1. \A n \in Nat : \A w \in Waiting(n) : w = Empty <=> DOMAIN w = {}
    BY WaitingMeans, Nothing
  <2> QED BY <1>1, <2>1, Bounds DEF Types, Awaited
<1>3. CASE User
  <2>1. CASE \E p \in DOMAIN fact : refreshParameter(p) \/ \E v \in Values : _valueUpdated(p, v)
    BY <2>1 DEF Attended, refreshParameter, _valueUpdated
  <2>2. CASE Refresh
    BY <2>2 DEF Attended, Refresh, Ask, load
  <2> QED BY <1>3, <2>1, <2>2 DEF User
<1>4. CASE _waitingParamTimeout
  <2>1. TimeoutDoes
    BY <1>4, TimeoutEffect
  <2> QED BY <1>2, <2>1 DEF Attended, TimeoutDoes
<1>5. CASE _initialRequestTimeout
  <2>1. DOMAIN waitIndex' = {} /\ UNCHANGED <<waitName, waitWrite, waitingTimer>>
    BY <1>5, InitialTimeoutTypes DEF _initialRequestTimeout
  <2> QED BY <1>2, <2>1 DEF Attended
<1>6. CASE _parameterUpdate
  <2>1. CASE Disregarded(Head(down))
    <3>1. UNCHANGED <<waits, timers, load>>
      BY <1>6, <2>1 DEF _parameterUpdate
    <3> QED BY <3>1 DEF Attended, waits, timers, load
  <2>2. CASE ~Disregarded(Head(down))
    <3>1. UpdateDoes
      BY <1>6, <2>2, UpdateEffect
    <3> QED BY <3>1 DEF Attended, UpdateDoes
  <2> QED BY <2>1, <2>2
<1>7. CASE Vehicle \/ Lose \/ (\E p \in Param : Announce(p)) \/ UNCHANGED vars
  <2>1. UNCHANGED <<waits, timers, load>>
    BY <1>7 DEF Vehicle, _handleParamRequestList, _paramRequestListWorker, _handleParamRequestRead,
                _handleParamSet, Handle, Lose, Announce, manager, vars
  <2> QED BY <2>1 DEF Attended, waits, timers, load
<1> QED BY <1>3, <1>4, <1>5, <1>6, <1>7 DEF Next, Timeout

-----------------------------------------------------------------------------
(* Values that turn, and what sending, losing and answering does to them.    *)

\* What a sequence of one holds.
LEMMA Single == ASSUME NEW m PROVE Range(<<m>>) = {m}
BY DEF Range

\* A sequence stays turned when only G is put to the end of what there is of W,
LEMMA TurnedMore ==
  ASSUME NEW S, NEW s \in Seq(S), NEW t \in Seq(S), NEW W, NEW G,
         Turned(s, W, G), Range(t) \cap W \subseteq G
  PROVE  Turned(s \o t, W, G)
<1> DEFINE c == s \o t
<1>1. /\ Len(s) \in Nat /\ Len(t) \in Nat /\ DOMAIN c = 1..(Len(s) + Len(t))
      /\ \A i \in 1..(Len(s) + Len(t)) : c[i] = IF i <= Len(s) THEN s[i] ELSE t[i - Len(s)]
      /\ DOMAIN s = 1..Len(s) /\ DOMAIN t = 1..Len(t)
  BY ConcatProperties, LenProperties
<1> HIDE DEF c
<1>2. ASSUME NEW j \in DOMAIN c, NEW i \in 1..j, c[i] \in G, c[j] \in W PROVE c[j] \in G
  <2>1. CASE j <= Len(s)
    <3>1. j \in DOMAIN s /\ c[j] = s[j] /\ c[i] = s[i]
      BY <1>1, <2>1
    <3> QED BY <1>2, <3>1 DEF Turned
  <2>2. CASE ~(j <= Len(s))
    <3>1. j - Len(s) \in DOMAIN t /\ c[j] = t[j - Len(s)]
      BY <1>1, <2>2
    <3> QED BY <1>2, <3>1 DEF Range
  <2> QED BY <2>1, <2>2
<1> QED BY <1>2 DEF Turned, c

\* and when its head is taken: if that is of G, the rest of W is.
LEMMA TurnedLess ==
  ASSUME NEW S, NEW s \in Seq(S), s # <<>>, NEW W, NEW G, Turned(s, W, G)
  PROVE  Turned(Tail(s), W, G) /\ (Head(s) \in G => Range(Tail(s)) \cap W \subseteq G)
<1> DEFINE t == Tail(s)
<1>1. /\ \A k \in DOMAIN t : k \in Nat /\ k > 0 /\ k + 1 \in DOMAIN s /\ t[k] = s[k + 1]
      /\ s[1] = Head(s) /\ DOMAIN t = 1..Len(t) /\ Len(t) \in Nat
  BY TakingHead, LenProperties
<1> HIDE DEF t
<1>2. ASSUME NEW j \in DOMAIN t, NEW i \in 1..j, t[i] \in G, t[j] \in W PROVE t[j] \in G
  <2>1. i \in DOMAIN t /\ j + 1 \in DOMAIN s /\ i + 1 \in 1..(j + 1) /\ t[i] = s[i + 1] /\ t[j] = s[j + 1]
    BY <1>1
  <2> QED BY <1>2, <2>1 DEF Turned
<1>3. ASSUME NEW j \in DOMAIN t, s[1] \in G, t[j] \in W PROVE t[j] \in G
  <2>1. j + 1 \in DOMAIN s /\ 1 \in 1..(j + 1) /\ t[j] = s[j + 1]
    BY <1>1
  <2> QED BY <1>3, <2>1 DEF Turned
<1> QED BY <1>1, <1>2, <1>3 DEF Turned, Range, t

\* One that has nothing of G is turned.
LEMMA TurnedNot ==
  ASSUME NEW S, NEW s \in Seq(S), NEW W, NEW G, Range(s) \cap G = {}
  PROVE  Turned(s, W, G)
<1>1. \A j \in DOMAIN s : \A i \in 1..j : i \in DOMAIN s
  BY LenProperties
<1> QED BY <1>1 DEF Turned, Range

\* Sending up nothing but v about p keeps p steady or turning to v,
LEMMA SendingKeeps ==
  ASSUME NEW u \in Seq(UpMessage), NEW ms \in Seq(UpMessage), NEW d, NEW x, NEW p, NEW v,
         Range(ms) \cap Of(SetMessage, p) \subseteq Saying(SetMessage, p, v)
  PROVE  /\ Steady(u, d, x, p, v) => Steady(u \o ms, d, x, p, v)
         /\ Turning(u, d, x, p, v) => Turning(u \o ms, d, x, p, v)
<1>1. Range(u \o ms) = Range(u) \cup Range(ms)
  BY RangeConcatenation
<1>2. /\ Turned(u, Of(SetMessage, p), Saying(SetMessage, p, v))
         => Turned(u \o ms, Of(SetMessage, p), Saying(SetMessage, p, v))
  BY TurnedMore
<1> QED BY <1>1, <1>2 DEF Steady, Turning

\* and so does the loss of the first message either way.
LEMMA LosingKeeps ==
  ASSUME NEW u \in Seq(UpMessage), NEW d \in Seq(DownMessage), NEW x, NEW p, NEW v
  PROVE  /\ u # <<>> /\ Steady(u, d, x, p, v) => Steady(Tail(u), d, x, p, v)
         /\ u # <<>> /\ Turning(u, d, x, p, v) => Turning(Tail(u), d, x, p, v)
         /\ d # <<>> /\ Steady(u, d, x, p, v) => Steady(u, Tail(d), x, p, v)
         /\ d # <<>> /\ Turning(u, d, x, p, v) => Turning(u, Tail(d), x, p, v)
<1>1. u # <<>> => Range(Tail(u)) \subseteq Range(u)
  BY TakingHead
<1>2. d # <<>> => Range(Tail(d)) \subseteq Range(d)
  BY TakingHead
<1>3. u # <<>> /\ Turned(u, Of(SetMessage, p), Saying(SetMessage, p, v))
        => Turned(Tail(u), Of(SetMessage, p), Saying(SetMessage, p, v))
  BY TurnedLess
<1>4. d # <<>> /\ Turned(d, Of(DownMessage, p), Saying(DownMessage, p, v))
        => Turned(Tail(d), Of(DownMessage, p), Saying(DownMessage, p, v))
  BY TurnedLess
<1> QED BY <1>1, <1>2, <1>3, <1>4 DEF Steady, Turning

\* The vehicle answers with its value.
LEMMA AnsweringKeeps ==
  ASSUME NEW u \in Seq(UpMessage), NEW d \in Seq(DownMessage), NEW x, NEW p, NEW v,
         NEW m \in DownMessage, m.param = p => m.value = x
  PROVE  /\ Steady(u, d, x, p, v) => Steady(u, Append(d, m), x, p, v)
         /\ Turning(u, d, x, p, v) => Turning(u, Append(d, m), x, p, v)
<1> DEFINE W == Of(DownMessage, p)
           G == Saying(DownMessage, p, v)
<1>1. Append(d, m) = d \o <<m>> /\ <<m>> \in Seq(DownMessage) /\ Range(<<m>>) = {m}
  BY AppendIsConcat, Single
<1>2. Range(Append(d, m)) = Range(d) \cup {m} /\ Append(d, m) \in Seq(DownMessage)
  BY Appending
<1>3. m \in G => x = v
  BY DEF Saying
<1>4. m \in W /\ x = v => m \in G
  BY DEF Of, Saying
<1>5. ASSUME Turning(u, d, x, p, v) PROVE Turned(Append(d, m), W, G)
  <2>1. CASE x = v
    <3>1. Turned(d, W, G) /\ Range(<<m>>) \cap W \subseteq G
      BY <1>1, <1>4, <1>5, <2>1 DEF Turning
    <3> HIDE DEF W, G
    <3>2. Turned(d \o <<m>>, W, G)
      BY <1>1, <3>1, TurnedMore
    <3> QED BY <1>1, <3>2
  <2>2. CASE x # v
    <3>1. Range(Append(d, m)) \cap G = {}
      BY <1>2, <1>3, <1>5, <2>2 DEF Turning
    <3> QED BY <1>2, <3>1, TurnedNot
  <2> QED BY <2>1, <2>2
<1>6. Steady(u, d, x, p, v) => Steady(u, Append(d, m), x, p, v)
  BY <1>2, <1>4 DEF Steady
<1>7. ASSUME Turning(u, d, x, p, v) PROVE Turning(u, Append(d, m), x, p, v)
  BY <1>2, <1>3, <1>5, <1>7 DEF Turning
<1> QED BY <1>6, <1>7

\* The vehicle takes over a value.
LEMMA SettingKeeps ==
  ASSUME NEW u \in Seq(UpMessage), u # <<>>, NEW d, NEW x, NEW p, NEW v,
         Head(u) \in Of(SetMessage, p)
  PROVE  /\ Steady(u, d, x, p, v) => Steady(Tail(u), d, Head(u).value, p, v)
         /\ Turning(u, d, x, p, v) => Turning(Tail(u), d, Head(u).value, p, v)
<1> DEFINE W == Of(SetMessage, p)
           G == Saying(SetMessage, p, v)
<1>1. Range(u) = {Head(u)} \cup Range(Tail(u))
  BY TakingHead
<1>2. Head(u) \in G <=> Head(u).value = v
  BY DEF Of, Saying
<1>3. Turned(u, W, G) => Turned(Tail(u), W, G) /\ (Head(u) \in G => Range(Tail(u)) \cap W \subseteq G)
  BY TurnedLess
<1>4. Steady(u, d, x, p, v) => Steady(Tail(u), d, Head(u).value, p, v)
  BY <1>1, <1>2 DEF Steady
<1>5. Turning(u, d, x, p, v) => Turning(Tail(u), d, Head(u).value, p, v)
  BY <1>1, <1>2, <1>3 DEF Turning
<1> QED BY <1>4, <1>5

\* The written value arrives.
LEMMA ArrivingKeeps ==
  ASSUME NEW u, NEW d \in Seq(DownMessage), d # <<>>, NEW x, NEW p, NEW v,
         Head(d) \in Saying(DownMessage, p, v), Turning(u, d, x, p, v)
  PROVE  Steady(u, Tail(d), x, p, v)
<1> DEFINE W == Of(DownMessage, p)
           G == Saying(DownMessage, p, v)
<1>1. Range(d) = {Head(d)} \cup Range(Tail(d))
  BY TakingHead
<1>2. Range(Tail(d)) \cap W \subseteq G
  BY TurnedLess DEF Turning
<1>3. x = v
  BY <1>1 DEF Turning
<1> QED BY <1>2, <1>3 DEF Turning, Steady

\* A new value is written while another one is steady, or nothing is on the way.
LEMMA WritingTurns ==
  ASSUME NEW u \in Seq(UpMessage), NEW d \in Seq(DownMessage), NEW x, NEW p \in Param, NEW v \in Values,
         \/ \E w : w # v /\ Steady(u, d, x, p, w)
         \/ Range(u) \cap Of(SetMessage, p) = {} /\ Range(d) \cap Of(DownMessage, p) = {}
  PROVE  Turning(u \o <<Set(p, v)>>, d, x, p, v)
<1> DEFINE W == Of(SetMessage, p)
           G == Saying(SetMessage, p, v)
           D == Saying(DownMessage, p, v)
           c == u \o <<Set(p, v)>>
<1>1. Set(p, v) \in G /\ Set(p, v) \in UpMessage
  BY DEF Set, SetMessage, Saying, UpMessage
<1>2. <<Set(p, v)>> \in Seq(UpMessage) /\ Range(<<Set(p, v)>>) = {Set(p, v)}
  BY <1>1, Single
<1>3. Range(c) = Range(u) \cup {Set(p, v)}
  <2>1. \A t \in Seq(UpMessage) : Range(u \o t) = Range(u) \cup Range(t)
    BY RangeConcatenation
  <2> QED BY <1>2, <2>1
<1>4. Range(u) \cap G = {} /\ Range(d) \cap D = {}
  BY DEF Steady, Of, Saying
<1>5. Turned(d, Of(DownMessage, p), D) /\ Turned(u, W, G)
  BY <1>4, TurnedNot
<1>6. Turned(c, W, G)
  <2>1. Range(<<Set(p, v)>>) \cap W \subseteq G
    BY <1>1, <1>2
  <2> HIDE DEF W, G
  <2> QED BY <1>2, <1>5, <2>1, TurnedMore
<1>7. x = v => Range(c) \cap W \subseteq G
  <2>1. x = v => Range(u) \cap W = {}
    BY DEF Steady
  <2> QED BY <1>1, <1>3, <2>1
<1> QED BY <1>4, <1>5, <1>6, <1>7 DEF Turning

-----------------------------------------------------------------------------
(* Writes take hold.                                                         *)

\* What holds of p now, of the six variables it depends on.
WrittenOf(p) ==
  p \notin overtaken \cup reported =>
    IF p \notin DOMAIN fact THEN Steady(up, down, value[p], p, value[p])
    ELSE IF p \in DOMAIN waitWrite THEN Turning(up, down, value[p], p, fact[p])
    ELSE Steady(up, down, value[p], p, fact[p])

\* A request for a value writes none.
LEMMA ReadsAreNoWrites ==
  ASSUME NEW ms \in Seq(ReadMessage), NEW p
  PROVE  Range(ms) \cap Of(SetMessage, p) = {}
<1>1. Range(ms) \subseteq ReadMessage
  BY RangeOfSeq
<1> QED BY <1>1 DEF Of, ReadMessage, SetMessage

\* A timeout repeats the write with the value of the fact, or reports it as failed.
LEMMA WrittenThroughTimeout ==
  ASSUME Types, _waitingParamTimeout, NEW p \in Param, WrittenOf(p)
  PROVE  WrittenOf(p)'
<1>1. TimeoutDoes /\ UNCHANGED <<fact, value, down, overtaken>>
  BY TimeoutEffect DEF _waitingParamTimeout, vehicle
<1>2. PICK ms \in Seq(ReadMessage \cup TheWrites) : up' = up \o ms
  BY <1>1 DEF TimeoutDoes
<1>3. up \in Seq(UpMessage) /\ ms \in Seq(UpMessage)
  <2>1. \A q \in DOMAIN waitWrite : q \in Param /\ fact[q] \in Values
    BY DEF Types, Awaited, Facts
  <2>2. ReadMessage \cup TheWrites \subseteq UpMessage
    BY <2>1 DEF TheWrites, Set, SetMessage, UpMessage
  <2> QED BY <2>2, SeqMonotonic DEF Types, Messages
<1>4. Range(ms) \subseteq ReadMessage \cup TheWrites
  BY RangeOfSeq
<1>5. \A m \in Range(ms) \cap Of(SetMessage, p) : m \in TheWrites /\ p \in DOMAIN waitWrite /\ m.value = fact[p]
  <2>1. \A m \in ReadMessage : m \notin SetMessage
    BY DEF ReadMessage, SetMessage
  <2>2. \A m \in TheWrites : \E q \in DOMAIN waitWrite : m.param = q /\ m.value = fact[q]
    BY DEF TheWrites, Set
  <2> QED BY <1>4, <2>1, <2>2 DEF Of
<1>6. \A v : v = fact[p] \/ p \notin DOMAIN waitWrite => Range(ms) \cap Of(SetMessage, p) \subseteq Saying(SetMessage, p, v)
  BY <1>5 DEF Of, Saying
<1>7. \A x, v : v = fact[p] \/ p \notin DOMAIN waitWrite =>
        /\ Steady(up, down, x, p, v) => Steady(up', down, x, p, v)
        /\ Turning(up, down, x, p, v) => Turning(up', down, x, p, v)
  <2> TAKE x, v
  <2> HAVE v = fact[p] \/ p \notin DOMAIN waitWrite
  <2>1. Range(ms) \cap Of(SetMessage, p) \subseteq Saying(SetMessage, p, v)
    BY <1>6
  <2> QED BY <1>2, <1>3, <2>1, SendingKeeps
<1>8. /\ DOMAIN waitWrite' \subseteq DOMAIN waitWrite /\ reported \subseteq reported'
      /\ DOMAIN waitWrite \ DOMAIN waitWrite' \subseteq reported' /\ DOMAIN waitWrite \subseteq DOMAIN fact
  BY <1>1 DEF TimeoutDoes, Types, Awaited
<1> QED BY <1>1, <1>7, <1>8 DEF WrittenOf

\* A value received ends the wait for the write: if it is that value, everything behind it is
\* too; if it is another, p is overtaken.
LEMMA WrittenThroughUpdate ==
  ASSUME Types, _parameterUpdate, NEW p \in Param, WrittenOf(p)
  PROVE  WrittenOf(p)'
<1> DEFINE m == Head(down)
<1>1. /\ down \in Seq(DownMessage) /\ down # <<>> /\ down' = Tail(down) /\ up \in Seq(UpMessage)
      /\ UNCHANGED <<value, reported>>
  BY DEF _parameterUpdate, Types, Messages, vehicle
<1>2. m \in DownMessage /\ m.param \in Param /\ m \in Range(down)
  <2>1. m \in DownMessage /\ m \in Range(down)
    BY <1>1, TakingHead
  <2> QED BY <2>1 DEF DownMessage
<1>3. \A x, v : /\ Steady(up, down, x, p, v) => Steady(up, down', x, p, v)
                /\ Turning(up, down, x, p, v) => Turning(up, down', x, p, v)
  BY <1>1, LosingKeeps
<1>4. CASE Disregarded(m)
  <2>1. UNCHANGED <<fact, waitWrite, up, overtaken>>
    BY <1>4 DEF _parameterUpdate, waits
  <2> QED BY <1>1, <1>3, <2>1 DEF WrittenOf
<1>5. CASE ~Disregarded(m)
  <2>1. UpdateDoes
    BY <1>5, UpdateEffect
  <2>2. PICK ms \in Seq(ReadMessage) : up' = up \o ms
    BY <2>1 DEF UpdateDoes
  <2>3. \A x, v : /\ Steady(up, down', x, p, v) => Steady(up', down', x, p, v)
                  /\ Turning(up, down', x, p, v) => Turning(up', down', x, p, v)
    <3>1. ms \in Seq(UpMessage)
      BY SeqMonotonic DEF UpMessage
    <3>2. Range(ms) \cap Of(SetMessage, p) = {}
      BY ReadsAreNoWrites
    <3>3. \A v : Range(ms) \cap Of(SetMessage, p) \subseteq Saying(SetMessage, p, v)
      BY <3>2
    <3> QED BY <1>1, <2>2, <3>1, <3>3, SendingKeeps
  <2>4. /\ fact' = With(fact, m.param, m.value) /\ waitWrite' = Without(waitWrite, {m.param})
        /\ overtaken' = IF m.param \in DOMAIN waitWrite /\ m.value # fact[m.param]
                        THEN overtaken \cup {m.param} ELSE overtaken
    BY <2>1 DEF UpdateDoes
  <2>5. /\ DOMAIN fact' = DOMAIN fact \cup {m.param} /\ fact'[m.param] = m.value
        /\ \A q \in DOMAIN fact : q # m.param => fact'[q] = fact[q]
        /\ DOMAIN waitWrite' = DOMAIN waitWrite \ {m.param} /\ DOMAIN waitWrite \subseteq DOMAIN fact
        /\ overtaken \subseteq DOMAIN fact
    BY <2>4 DEF With, Without, Restrict, Types, Awaited, Facts
  <2>6. CASE p # m.param
    BY <1>1, <1>3, <2>3, <2>4, <2>5, <2>6 DEF WrittenOf
  <2>7. CASE p = m.param
    <3> SUFFICES ASSUME p \notin overtaken' \cup reported' PROVE Steady(up', down', value[p], p, m.value)
      BY <1>1, <2>5, <2>7 DEF WrittenOf
    <3>1. p \notin overtaken \cup reported /\ (p \in DOMAIN waitWrite => m.value = fact[p])
      BY <1>1, <2>4, <2>7
    <3>2. m \in Range(down) \cap Of(DownMessage, p)
      BY <1>2, <2>7 DEF Of
    <3>3. \A x, v : Steady(up, down, x, p, v) => m.value = v
      BY <3>2 DEF Steady, Saying
    <3>4. CASE p \notin DOMAIN waitWrite
      BY <1>3, <2>3, <3>1, <3>3, <3>4 DEF WrittenOf
    <3>5. CASE p \in DOMAIN waitWrite
      <4>1. Turning(up, down, value[p], p, m.value)
        BY <2>5, <3>1, <3>5 DEF WrittenOf
      <4>2. m \in Saying(DownMessage, p, m.value)
        BY <3>2 DEF Of, Saying
      <4>3. \A x, v : m \in Saying(DownMessage, p, v) /\ Turning(up, down, x, p, v) => Steady(up, down', x, p, v)
        BY <1>1, ArrivingKeeps
      <4>4. Steady(up, down', value[p], p, m.value)
        BY <4>1, <4>2, <4>3
      <4> QED BY <2>3, <4>4
    <3> QED BY <3>4, <3>5
  <2> QED BY <2>6, <2>7
<1> QED BY <1>4, <1>5

\* It is enough that messages and vehicle keep p steady or turning, whichever the value.
LEMMA WrittenThroughMessages ==
  ASSUME NEW p \in Param, WrittenOf(p), UNCHANGED <<fact, waitWrite, overtaken, reported>>,
         \A v : /\ Steady(up, down, value[p], p, v) => Steady(up', down', value'[p], p, v)
                /\ Turning(up, down, value[p], p, v) => Turning(up', down', value'[p], p, v)
  PROVE  WrittenOf(p)'
<1>1. Steady(up, down, value[p], p, value[p]) => value'[p] = value[p]
  BY DEF Steady
<1> QED BY <1>1 DEF WrittenOf

\* The vehicle's answers, writes it carries out, changes on board and lost messages do so.
LEMMA WrittenThroughLink ==
  ASSUME Types, Vehicle \/ Lose \/ \E q \in Param : Announce(q), NEW p \in Param, WrittenOf(p)
  PROVE  WrittenOf(p)'
<1>1. /\ up \in Seq(UpMessage) /\ down \in Seq(DownMessage) /\ streaming \in Seq(Param)
      /\ value \in [Param -> Values]
  BY DEF Types, Facts, Messages
<1>2. UNCHANGED <<fact, waitWrite, overtaken, reported>>
  BY DEF Vehicle, _handleParamRequestList, _paramRequestListWorker, _handleParamRequestRead,
         _handleParamSet, Handle, Lose, Announce, manager, waits, history
<1>3. \A v : \A u \in Seq(UpMessage), x \in Values, q \in Param, indexed \in BOOLEAN :
        (q = p => value'[q] = x) /\ value'[q] \in Values /\ Respond(q, indexed) =>
          /\ Steady(u, down, x, p, v) => Steady(u, down', x, p, v)
          /\ Turning(u, down, x, p, v) => Turning(u, down', x, p, v)
  <2> TAKE v
  <2> TAKE u \in Seq(UpMessage), x \in Values, q \in Param, indexed \in BOOLEAN
  <2> HAVE (q = p => value'[q] = x) /\ value'[q] \in Values /\ Respond(q, indexed)
  <2>1. PICK m \in DownMessage : m = [param |-> q, value |-> value'[q], indexed |-> indexed]
    BY DEF DownMessage
  <2>2. down' = Append(down, m) /\ (m.param = p => m.value = x)
    BY <2>1 DEF Respond
  <2> QED BY <1>1, <2>2, AnsweringKeeps
<1>4. \A x, v : up # <<>> => /\ Steady(up, down, x, p, v) => Steady(Tail(up), down, x, p, v)
                             /\ Turning(up, down, x, p, v) => Turning(Tail(up), down, x, p, v)
  BY <1>1, LosingKeeps
<1>5. value[p] \in Values
  BY <1>1
<1>6. \A v : /\ Steady(up, down, value[p], p, v) => Steady(up', down', value'[p], p, v)
             /\ Turning(up, down, value[p], p, v) => Turning(up', down', value'[p], p, v)
  <2>1. CASE _handleParamRequestList
    BY <1>4, <2>1 DEF _handleParamRequestList, Handle
  <2>2. CASE _paramRequestListWorker
    <3>1. streaming # <<>> /\ value' = value /\ up' = up /\ Respond(Head(streaming), TRUE)
      BY <2>2 DEF _paramRequestListWorker
    <3>2. Head(streaming) \in Param
      BY <1>1, <3>1, HeadTailProperties
    <3>3. value'[Head(streaming)] \in Values
      BY <1>1, <3>1, <3>2
    <3> QED BY <1>1, <1>3, <1>5, <3>1, <3>2, <3>3
  <2>3. CASE _handleParamRequestRead
    <3>1. /\ up # <<>> /\ Head(up).type = "read" /\ up' = Tail(up) /\ value' = value
          /\ Respond(Head(up).param, TRUE)
      BY <2>3 DEF _handleParamRequestRead, Handle
    <3>2. up' \in Seq(UpMessage) /\ Head(up).param \in Param
      BY <1>1, <3>1, HandlingTypes
    <3>3. value'[Head(up).param] \in Values
      BY <1>1, <3>1, <3>2
    <3>4. \A v : /\ Steady(up', down, value[p], p, v) => Steady(up', down', value[p], p, v)
                 /\ Turning(up', down, value[p], p, v) => Turning(up', down', value[p], p, v)
      BY <1>3, <1>5, <3>1, <3>2, <3>3
    <3> QED BY <1>4, <3>1, <3>4
  <2>4. CASE _handleParamSet
    <3>1. /\ up # <<>> /\ Head(up).type = "set" /\ up' = Tail(up)
          /\ value' = [value EXCEPT ![Head(up).param] = Head(up).value]
          /\ Respond(Head(up).param, TRUE)
      BY <2>4 DEF _handleParamSet, Handle
    <3>2. up' \in Seq(UpMessage) /\ Head(up) \in SetMessage /\ Head(up).param \in Param /\ Head(up).value \in Values
      BY <1>1, <3>1, HandlingTypes
    <3>3. value'[Head(up).param] = Head(up).value /\ value'[p] \in Values
          /\ (Head(up).param # p => value'[p] = value[p])
      BY <1>1, <3>1, <3>2
    <3>4. \A v : /\ Steady(up', down, value'[p], p, v) => Steady(up', down', value'[p], p, v)
                 /\ Turning(up', down, value'[p], p, v) => Turning(up', down', value'[p], p, v)
      BY <1>3, <3>1, <3>2, <3>3
    <3>5. \A v : /\ Steady(up, down, value[p], p, v) => Steady(up', down, value'[p], p, v)
                 /\ Turning(up, down, value[p], p, v) => Turning(up', down, value'[p], p, v)
      <4>1. CASE Head(up).param # p
        BY <1>4, <3>1, <3>3, <4>1
      <4>2. CASE Head(up).param = p
        <5>1. Head(up) \in Of(SetMessage, p)
          BY <3>2, <4>2 DEF Of
        <5>2. \A x, v : /\ Steady(up, down, x, p, v) => Steady(Tail(up), down, Head(up).value, p, v)
                        /\ Turning(up, down, x, p, v) => Turning(Tail(up), down, Head(up).value, p, v)
          BY <1>1, <3>1, <5>1, SettingKeeps
        <5> QED BY <3>1, <3>3, <4>2, <5>2
      <4> QED BY <4>1, <4>2
    <3> QED BY <3>4, <3>5
  <2>5. CASE Lose
    <3>1. value' = value
      BY <2>5 DEF Lose, vehicle
    <3>2. CASE up # <<>> /\ up' = Tail(up) /\ UNCHANGED down
      BY <1>4, <3>1, <3>2
    <3>3. CASE down # <<>> /\ down' = Tail(down) /\ UNCHANGED up
      BY <1>1, <3>1, <3>3, LosingKeeps
    <3> QED BY <2>5, <3>2, <3>3 DEF Lose
  <2>6. CASE \E q \in Param : Announce(q)
    <3>1. PICK q \in Param : value' = value /\ up' = up /\ Respond(q, FALSE)
      BY <2>6 DEF Announce
    <3>2. value'[q] \in Values
      BY <1>1, <3>1
    <3> QED BY <1>1, <1>3, <1>5, <3>1, <3>2
  <2> QED BY <2>1, <2>2, <2>3, <2>4, <2>5, <2>6 DEF Vehicle
<1> QED BY <1>2, <1>6, WrittenThroughMessages

\* A new write begins to turn p to its value, on a link that is quiet or steady on the old one.
LEMMA WrittenThroughUser ==
  ASSUME Types, User \/ _initialRequestTimeout, NEW p \in Param, WrittenOf(p)
  PROVE  WrittenOf(p)'
<1>1. /\ up \in Seq(UpMessage) /\ down \in Seq(DownMessage) /\ DOMAIN fact \subseteq Param
      /\ fact \in [DOMAIN fact -> Values] /\ DOMAIN waitWrite \subseteq DOMAIN fact
  BY DEF Types, Facts, Messages, Awaited
<1>2. \A m \in UpMessage : m \notin Of(SetMessage, p) =>
        \A x, v : /\ Steady(up, down, x, p, v) => Steady(up \o <<m>>, down, x, p, v)
                  /\ Turning(up, down, x, p, v) => Turning(up \o <<m>>, down, x, p, v)
  <2> TAKE m \in UpMessage
  <2> HAVE m \notin Of(SetMessage, p)
  <2>1. <<m>> \in Seq(UpMessage) /\ \A v : Range(<<m>>) \cap Of(SetMessage, p) \subseteq Saying(SetMessage, p, v)
    BY Single
  <2> QED BY <1>1, <2>1, SendingKeeps
<1>3. ASSUME NEW m \in UpMessage \ Of(SetMessage, p), up' = up \o <<m>> \/ up' = up,
             UNCHANGED <<fact, waitWrite, overtaken, reported, down, value>>
      PROVE  WrittenOf(p)'
  BY <1>2, <1>3, WrittenThroughMessages
<1>4. List \in UpMessage \ Of(SetMessage, p) /\ \A q \in Param : Read(q) \in UpMessage \ Of(SetMessage, p)
  BY DEF List, Read, ReadMessage, SetMessage, UpMessage, Of
<1>5. ASSUME NEW q \in DOMAIN fact, refreshParameter(q) PROVE WrittenOf(p)'
  <2>1. up' = up \o <<Read(q)>> /\ UNCHANGED <<fact, waitWrite, overtaken, reported, down, value>>
    BY <1>5 DEF refreshParameter, Send, Ask, vehicle
  <2> QED BY <1>1, <1>3, <1>4, <2>1
<1>6. CASE Refresh
  <2>1. up' = up \o <<List>> /\ UNCHANGED <<fact, waitWrite, overtaken, reported, down, value>>
    BY <1>6 DEF Refresh, refreshAllParameters, Send, Ask, vehicle
  <2> QED BY <1>3, <1>4, <2>1
<1>7. CASE _initialRequestTimeout
  <2>1. /\ up' = up \o <<List>> \/ up' = up
        /\ UNCHANGED <<fact, waitWrite, overtaken, reported, down, value>>
    BY <1>7 DEF _initialRequestTimeout, refreshAllParameters, Send, history, vehicle
  <2> QED BY <1>3, <1>4, <2>1
<1>8. ASSUME NEW q \in DOMAIN fact, NEW w \in Values, _valueUpdated(q, w) PROVE WrittenOf(p)'
  <2>1. /\ w # fact[q] /\ fact' = [fact EXCEPT ![q] = w] /\ waitWrite' = With(waitWrite, q, 0)
        /\ overtaken' = IF q \in DOMAIN waitWrite \/ (q \in overtaken \cup reported /\ ~Quiet(q))
                        THEN overtaken \cup {q} ELSE overtaken \ {q}
        /\ reported' = reported \ {q} /\ up' = up \o <<Set(q, w)>> /\ UNCHANGED <<down, value>>
    BY <1>8 DEF _valueUpdated, Send, Ask, vehicle
  <2>2. /\ DOMAIN fact' = DOMAIN fact /\ fact'[q] = w /\ \A r \in DOMAIN fact : r # q => fact'[r] = fact[r]
        /\ DOMAIN waitWrite' = DOMAIN waitWrite \cup {q}
    BY <1>1, <2>1 DEF With
  <2>3. CASE p # q
    <3>1. Set(q, w) \in UpMessage /\ Set(q, w) \notin Of(SetMessage, p)
      BY <1>1, <2>3 DEF Set, SetMessage, UpMessage, Of
    <3>2. \A x, v : /\ Steady(up, down, x, p, v) => Steady(up', down', x, p, v)
                    /\ Turning(up, down, x, p, v) => Turning(up', down', x, p, v)
      BY <1>2, <2>1, <3>1
    <3> QED BY <2>1, <2>2, <2>3, <3>2 DEF WrittenOf
  <2>4. CASE p = q
    <3> SUFFICES ASSUME p \notin overtaken' PROVE Turning(up \o <<Set(p, w)>>, down, value[p], p, w)
      BY <2>1, <2>2, <2>4 DEF WrittenOf
    <3>1. p \notin DOMAIN waitWrite /\ (p \in overtaken \cup reported => Quiet(p))
      BY <2>1, <2>4
    <3>2. CASE p \notin overtaken \cup reported
      <4>1. Steady(up, down, value[p], p, fact[p])
        BY <2>4, <3>1, <3>2 DEF WrittenOf
      <4> QED BY <1>1, <2>1, <2>4, <4>1, WritingTurns
    <3>3. CASE Quiet(p)
      <4>1. Range(up) \cap Of(SetMessage, p) = {}
        BY <3>3 DEF Quiet, Of, SetMessage, List
      <4>2. Range(down) \cap Of(DownMessage, p) = {}
        BY <3>3 DEF Quiet, Of, DownMessage, List
      <4> QED BY <1>1, <4>1, <4>2, WritingTurns
    <3> QED BY <3>1, <3>2, <3>3
  <2> QED BY <2>3, <2>4
<1> QED BY <1>5, <1>6, <1>7, <1>8 DEF User

\* Every step keeps what is known of the writes.
LEMMA WrittenKept ==
  ASSUME Types, Written, [Next]_vars
  PROVE  Written'
<1>1. \A p \in Param : WrittenOf(p)
  BY DEF Written, WrittenOf
<1>2. ASSUME NEW p \in Param PROVE WrittenOf(p)'
  <2>1. WrittenOf(p)
    BY <1>1
  <2>2. CASE User \/ _initialRequestTimeout
    BY <2>1, <2>2, WrittenThroughUser
  <2>3. CASE _waitingParamTimeout
    BY <2>1, <2>3, WrittenThroughTimeout
  <2>4. CASE _parameterUpdate
    BY <2>1, <2>4, WrittenThroughUpdate
  <2>5. CASE Vehicle \/ Lose \/ \E q \in Param : Announce(q)
    BY <2>1, <2>5, WrittenThroughLink
  <2>6. CASE UNCHANGED vars
    BY <2>1, <2>6 DEF vars, WrittenOf, waits, vehicle, history
  <2> QED BY <2>2, <2>3, <2>4, <2>5, <2>6 DEF Next, Timeout
<1> QED BY <1>2 DEF Written, WrittenOf

-----------------------------------------------------------------------------
(* The theorems.                                                             *)

\* The inductive invariant: the types, that what is awaited is attended to, and where each
\* parameter is between a write and its taking hold.
THEOREM ParametersCorrect == Spec => []ParametersInv
<1>1. ParametersInv /\ [Next]_vars => ParametersInv'
  BY TypesKept, AttendedKept, WrittenKept DEF ParametersInv
<1> QED BY Starts, <1>1, PTL DEF Spec

\* The maps of what is awaited, the batch, the messages and the counters keep their types, in
\* the loops over the maps too; a batch is of awaited indices, and one over its limit at most.
THEOREM TypeCorrect == Spec => []TypeOK
<1>1. ParametersInv => TypeOK
  <2> SUFFICES ASSUME ParametersInv PROVE TypeOK
    OBVIOUS
  <2>1. Facts /\ Awaited /\ Flags /\ Messages
    BY DEF ParametersInv, Types
  <2>2. /\ DOMAIN waitIndex \subseteq Param /\ Range(waitIndex) \subseteq 0..MaxIndexRetry
        /\ Range(waitName) \subseteq 0..MaxNameRetry /\ Range(waitWrite) \subseteq 0..MaxNameRetry
    BY <2>1, WaitingMeans, Bounds DEF Awaited, Range
  <2>3. Range(fact) \subseteq Values
    BY <2>1 DEF Facts, Range
  <2>4. Range(up) \subseteq UpMessage /\ Range(down) \subseteq DownMessage /\ Range(streaming) \subseteq Param
    BY <2>1, RangeOfSeq DEF Messages
  <2>5. \A m \in Range(up) : m.type \in {"list", "read", "set"}
    BY <2>4 DEF UpMessage, List, ReadMessage, SetMessage
  <2>6. \A m \in Range(down) : m.param \in Param /\ m.value \in Values
    BY <2>4 DEF DownMessage
  <2> QED BY <2>1, <2>2, <2>3, <2>4, <2>5, <2>6 DEF TypeOK, Facts, Awaited, Flags
<1> QED BY ParametersCorrect, <1>1, PTL

\* ParameterManager: whatever is lost, and however reads, writes and indices share the one
\* timer and its batches, nothing that is awaited is left without the timer running.
THEOREM NothingForgotten == Spec => []Attended
<1>1. ParametersInv => Attended
  BY DEF ParametersInv
<1> QED BY ParametersCorrect, <1>1, PTL

\* ParameterManager: a write that is no longer awaited, was not reported as failed, and was
\* acknowledged by its own value, has taken hold on the vehicle, once its messages are gone.
THEOREM WritesHold == Spec => []WritesTakeHold
<1>1. ParametersInv => WritesTakeHold
  <2> SUFFICES ASSUME ParametersInv, NEW p \in DOMAIN fact \ (overtaken \cup reported), p \notin DOMAIN waitWrite
               PROVE  fact[p] = value[p]
    BY DEF WritesTakeHold
  <2>1. p \in Param
    BY DEF ParametersInv, Types, Facts
  <2> QED BY <2>1 DEF ParametersInv, Written, Steady
<1> QED BY ParametersCorrect, <1>1, PTL

=============================================================================
