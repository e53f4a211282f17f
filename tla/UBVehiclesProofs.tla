-------------------------- MODULE UBVehiclesProofs ---------------------------
(***************************************************************************)
(* Theorems about UBVehicles, for every number of objects, vehicles and     *)
(* selections pending.                                                     *)
(***************************************************************************)
EXTENDS UBVehicles, SequenceTheorems, FiniteSetTheorems, TLAPS

-----------------------------------------------------------------------------
(* Queues, which are filled at the end and emptied at the head.             *)

\* A sequence, and its elements, after one more.
LEMMA Appending ==
  ASSUME NEW S, NEW s \in Seq(S), NEW e \in S
  PROVE  /\ Append(s, e) \in Seq(S) /\ Range(Append(s, e)) = Range(s) \cup {e}
         /\ DOMAIN Append(s, e) = DOMAIN s \cup {Len(s) + 1}
         /\ \A k \in DOMAIN s : k \in Nat /\ k < Len(s) + 1 /\ Append(s, e)[k] = s[k]
         /\ Append(s, e)[Len(s) + 1] = e
<1>1. /\ DOMAIN s = 1..Len(s) /\ Len(s) \in Nat
      /\ DOMAIN Append(s, e) = 1..(Len(s) + 1)
      /\ \A k \in 1..Len(s) : Append(s, e)[k] = s[k]
      /\ Append(s, e)[Len(s) + 1] = e /\ Append(s, e) \in Seq(S)
  BY AppendProperties, LenProperties
<1>2. DOMAIN Append(s, e) = DOMAIN s \cup {Len(s) + 1}
  BY <1>1
<1>3. Range(Append(s, e)) = Range(s) \cup {e}
  BY <1>1, <1>2 DEF Range
<1> QED BY <1>1, <1>2, <1>3

\* A sequence, and its elements, without the first.
LEMMA TakingHead ==
  ASSUME NEW S, NEW s \in Seq(S), s # <<>>
  PROVE  /\ Head(s) \in S /\ Tail(s) \in Seq(S) /\ s[1] = Head(s) /\ 1 \in DOMAIN s
         /\ Range(s) = {Head(s)} \cup Range(Tail(s))
         /\ \A k \in DOMAIN Tail(s) : k \in Nat /\ k > 0 /\ k + 1 \in DOMAIN s /\ Tail(s)[k] = s[k + 1]
<1>1. /\ DOMAIN s = 1..Len(s) /\ Len(s) \in Nat \ {0}
      /\ Tail(s) \in Seq(S) /\ Len(Tail(s)) = Len(s) - 1 /\ DOMAIN Tail(s) = 1..(Len(s) - 1)
      /\ \A k \in 1..(Len(s) - 1) : Tail(s)[k] = s[k + 1]
      /\ Head(s) \in S /\ Head(s) = s[1]
  BY HeadTailProperties, LenProperties, EmptySeq
<1>2. Range(s) = {Head(s)} \cup Range(Tail(s))
  <2>1. ASSUME NEW x \in Range(s) PROVE x \in {Head(s)} \cup Range(Tail(s))
    <3>1. PICK k \in 1..Len(s) : x = s[k]
      BY <1>1 DEF Range
    <3>2. CASE k = 1
      BY <3>1, <3>2, <1>1
    <3>3. CASE k # 1
      <4>1. k - 1 \in 1..(Len(s) - 1) /\ (k - 1) + 1 = k
        BY <1>1, <3>3
      <4> QED BY <3>1, <1>1, <4>1 DEF Range
    <3> QED BY <3>2, <3>3
  <2>2. ASSUME NEW x \in {Head(s)} \cup Range(Tail(s)) PROVE x \in Range(s)
    BY <1>1, <2>2 DEF Range
  <2> QED BY <2>1, <2>2
<1> QED BY <1>1, <1>2

-----------------------------------------------------------------------------
(* The inductive invariant.                                                *)

\* No two listed vehicles share an id, and none is being deleted twice or is
\* both listed and being deleted.
Distinct ==
  /\ \A k, l \in DOMAIN vehicles : id[vehicles[k]] = id[vehicles[l]] => k = l
  /\ IsInjective(vehiclesBeingDeleted)
  /\ Range(vehicles) \cap Range(vehiclesBeingDeleted) = {}

\* The timers of phase 2 among ts are those of the vehicles being deleted, ds, in
\* order: f gives the place of each one's timer.  A selection pending when a
\* timer fires is of a vehicle v that is listed, or whose own timer comes later.
Pairing(ts, ds, listed, v, f) ==
  /\ \A k \in DOMAIN ds : ts[f[k]] = "delete"
  /\ \A k, l \in DOMAIN ds : k < l => f[k] < f[l]
  /\ \A p \in DOMAIN ts : ts[p] = "delete" => \E k \in DOMAIN ds : f[k] = p
  /\ \A p \in DOMAIN ts : ts[p] = "activate" =>
       v \in listed \/ \E k \in DOMAIN ds : v = ds[k] /\ p < f[k]

Paired(ts, ds, listed, v) ==
  \E f \in [DOMAIN ds -> DOMAIN ts] : Pairing(ts, ds, listed, v, f)

TimersPaired ==
  Paired(timers, vehiclesBeingDeleted, Range(vehicles), vehicleBeingSetActive)

\* The active vehicle, if any, still exists.
Kept == activeVehicle \in Range(vehicles) \cup Range(vehiclesBeingDeleted) \cup {Null}

\* The timer that fires last leaves a listed vehicle active, if there is any.
LastTimer ==
  timers # <<>> /\ Last(timers) = "activate" => vehicleBeingSetActive \in Range(vehicles)

Inv ==
  /\ TypeOK /\ Distinct /\ TimersPaired /\ Kept /\ LastTimer
  /\ ActiveConverges /\ BindingConverges

-----------------------------------------------------------------------------
(* Sequences.                                                              *)

\* What the end of a queue is after one more, and after the first is taken.
LEMMA Lasts ==
  ASSUME NEW S, NEW s \in Seq(S), NEW e \in S
  PROVE  /\ Append(s, e) # <<>> /\ Last(Append(s, e)) = e
         /\ s # <<>> /\ Tail(s) = <<>> => Last(s) = Head(s)
         /\ s # <<>> /\ Tail(s) # <<>> => Last(Tail(s)) = Last(s)
<1>1. Append(s, e) # <<>> /\ Last(Append(s, e)) = e
  BY AppendProperties, LenProperties DEF Last
<1>2. ASSUME s # <<>>
      PROVE  /\ Len(s) \in Nat \ {0} /\ Head(s) = s[1]
             /\ Tail(s) \in Seq(S) /\ Len(Tail(s)) = Len(s) - 1
             /\ \A k \in 1..(Len(s) - 1) : Tail(s)[k] = s[k + 1]
  BY <1>2, HeadTailProperties, LenProperties, EmptySeq
<1>3. ASSUME s # <<>>, Tail(s) = <<>> PROVE Last(s) = Head(s)
  <2>1. Len(Tail(s)) = 0
    BY <1>3, EmptySeq
  <2> QED BY <1>2, <1>3, <2>1 DEF Last
<1>4. ASSUME s # <<>>, Tail(s) # <<>> PROVE Last(Tail(s)) = Last(s)
  <2>1. Len(Tail(s)) # 0
    BY <1>2, <1>4, EmptySeq
  <2>2. Len(s) - 1 \in 1..(Len(s) - 1) /\ (Len(s) - 1) + 1 = Len(s)
    BY <1>2, <1>4, <2>1
  <2> QED BY <1>2, <1>4, <2>2 DEF Last
<1> QED BY <1>1, <1>3, <1>4

\* A list without its k-th element.
LEMMA RemovingAt ==
  ASSUME NEW S, NEW s \in Seq(S), NEW k \in DOMAIN s
  PROVE  /\ RemoveAt(s, k) \in Seq(S)
         /\ \A l \in DOMAIN RemoveAt(s, k) :
              /\ l \in Nat /\ (IF l < k THEN l ELSE l + 1) \in DOMAIN s \ {k}
              /\ RemoveAt(s, k)[l] = s[IF l < k THEN l ELSE l + 1]
         /\ Range(s) = Range(RemoveAt(s, k)) \cup {s[k]}
<1> DEFINE a == SubSeq(s, 1, k - 1)
           b == SubSeq(s, k + 1, Len(s))
           r == RemoveAt(s, k)
<1>1. Len(s) \in Nat /\ DOMAIN s = 1..Len(s) /\ k \in 1..Len(s)
  BY LenProperties
<1>2. /\ a \in Seq(S) /\ Len(a) = k - 1
      /\ \A l \in 1..(k - 1) : a[l] = s[l]
  <2>1. \A l \in 1..(k - 1) : s[l] \in S
    BY <1>1, ElementOfSeq
  <2> QED BY <1>1, <2>1, SubSeqProperties
<1>3. /\ b \in Seq(S) /\ Len(b) = Len(s) - k
      /\ \A l \in 1..(Len(s) - k) : b[l] = s[k + l]
  <2>1. \A l \in (k + 1)..Len(s) : s[l] \in S
    BY <1>1, ElementOfSeq
  <2> QED BY <1>1, <2>1, SubSeqProperties
<1>4. /\ r \in Seq(S) /\ Len(r) = Len(s) - 1 /\ DOMAIN r = 1..(Len(s) - 1)
      /\ \A l \in 1..(Len(s) - 1) : r[l] = IF l < k THEN s[l] ELSE s[l + 1]
  <2>1. r = a \o b
    BY DEF RemoveAt
  <2>2. /\ r \in Seq(S) /\ Len(r) = (k - 1) + (Len(s) - k)
        /\ \A l \in 1..Len(r) : r[l] = IF l <= k - 1 THEN a[l] ELSE b[l - (k - 1)]
    <3>1. /\ a \o b \in Seq(S) /\ Len(a \o b) = Len(a) + Len(b)
          /\ \A l \in 1..(Len(a) + Len(b)) : (a \o b)[l] = IF l <= Len(a) THEN a[l] ELSE b[l - Len(a)]
      <4> HIDE DEF a, b, r
      <4> QED BY <1>2, <1>3, ConcatProperties
    <3> HIDE DEF a, b, r
    <3> QED BY <1>2, <1>3, <2>1, <3>1
  <2>3. Len(r) = Len(s) - 1 /\ DOMAIN r = 1..(Len(s) - 1)
    BY <1>1, <2>2, LenProperties
  <2>4. ASSUME NEW l \in 1..(Len(s) - 1)
        PROVE  r[l] = IF l < k THEN s[l] ELSE s[l + 1]
    <3>1. CASE l < k
      BY <1>1, <1>2, <2>2, <2>3, <3>1
    <3>2. CASE ~(l < k)
      <4>1. l - (k - 1) \in 1..(Len(s) - k) /\ k + (l - (k - 1)) = l + 1 /\ ~(l <= k - 1)
        BY <1>1, <3>2
      <4> QED BY <1>1, <1>3, <2>2, <2>3, <3>2, <4>1
    <3> QED BY <3>1, <3>2
  <2> QED BY <2>2, <2>3, <2>4
<1>5. ASSUME NEW l \in DOMAIN r
      PROVE  /\ l \in Nat /\ (IF l < k THEN l ELSE l + 1) \in DOMAIN s \ {k}
             /\ r[l] = s[IF l < k THEN l ELSE l + 1]
  BY <1>1, <1>4
<1>6. Range(s) = Range(r) \cup {s[k]}
  <2>1. Range(r) \cup {s[k]} \subseteq Range(s)
    BY <1>1, <1>5 DEF Range
  <2>2. ASSUME NEW m \in DOMAIN s, m # k PROVE s[m] \in Range(r)
    <3>1. CASE m < k
      <4>1. m \in DOMAIN r /\ r[m] = s[m]
        BY <1>1, <1>4, <3>1
      <4> QED BY <4>1 DEF Range
    <3>2. CASE ~(m < k)
      <4>1. m - 1 \in DOMAIN r /\ r[m - 1] = s[m]
        BY <1>1, <1>4, <2>2, <3>2
      <4> QED BY <4>1 DEF Range
    <3> QED BY <3>1, <3>2
  <2> QED BY <2>1, <2>2 DEF Range
<1> QED BY <1>4, <1>5, <1>6

-----------------------------------------------------------------------------
(* The timers, as they are started and as they fire.                       *)

Timer == {"delete", "activate"}

\* A selection starts a timer.
LEMMA PairedOnSelection ==
  ASSUME NEW S, NEW ts \in Seq(Timer), NEW ds \in Seq(S), NEW L, NEW M, NEW u, NEW v,
         Paired(ts, ds, L, u), v \in M
  PROVE  Paired(Append(ts, "activate"), ds, M, v)
<1>1. PICK f \in [DOMAIN ds -> DOMAIN ts] : Pairing(ts, ds, L, u, f)
  BY DEF Paired
<1>2. /\ DOMAIN Append(ts, "activate") = DOMAIN ts \cup {Len(ts) + 1}
      /\ \A p \in DOMAIN ts : Append(ts, "activate")[p] = ts[p]
      /\ Append(ts, "activate")[Len(ts) + 1] = "activate"
  BY Appending DEF Timer
<1>3. f \in [DOMAIN ds -> DOMAIN Append(ts, "activate")]
  BY <1>2
<1>4. Pairing(Append(ts, "activate"), ds, M, v, f)
  BY <1>1, <1>2 DEF Pairing
<1> QED BY <1>3, <1>4 DEF Paired

\* More vehicles are listed.
LEMMA PairedOnListing ==
  ASSUME NEW ts, NEW ds, NEW L, NEW M, NEW v, Paired(ts, ds, L, v), L \subseteq M
  PROVE  Paired(ts, ds, M, v)
BY DEF Paired, Pairing

\* A vehicle leaves the list to be deleted, and its timer is started.
LEMMA PairedOnDeletion ==
  ASSUME NEW S, NEW ts \in Seq(Timer), NEW ds \in Seq(S), NEW d \in S, NEW L, NEW M, NEW v,
         Paired(ts, ds, L, v), L = M \cup {d}
  PROVE  Paired(Append(ts, "delete"), Append(ds, d), M, v)
<1> DEFINE ts1 == Append(ts, "delete")
           ds1 == Append(ds, d)
<1>1. PICK f \in [DOMAIN ds -> DOMAIN ts] : Pairing(ts, ds, L, v, f)
  BY DEF Paired
<1>2. /\ DOMAIN ts1 = DOMAIN ts \cup {Len(ts) + 1}
      /\ \A p \in DOMAIN ts : p \in Nat /\ p < Len(ts) + 1 /\ ts1[p] = ts[p]
      /\ ts1[Len(ts) + 1] = "delete"
  BY Appending DEF Timer
<1>3. /\ DOMAIN ds1 = DOMAIN ds \cup {Len(ds) + 1}
      /\ \A k \in DOMAIN ds : k \in Nat /\ k < Len(ds) + 1 /\ ds1[k] = ds[k]
      /\ ds1[Len(ds) + 1] = d
  BY Appending
<1>4. Len(ts) \in Nat /\ Len(ds) \in Nat
  BY LenProperties
<1> DEFINE g == [k \in DOMAIN ds1 |-> IF k \in DOMAIN ds THEN f[k] ELSE Len(ts) + 1]
<1>5. g \in [DOMAIN ds1 -> DOMAIN ts1]
  BY <1>2
<1>6. /\ Len(ds) + 1 \in DOMAIN ds1 /\ Len(ds) + 1 \notin DOMAIN ds /\ g[Len(ds) + 1] = Len(ts) + 1
      /\ \A k \in DOMAIN ds : k \in DOMAIN ds1 /\ g[k] = f[k] /\ f[k] \in DOMAIN ts
  BY <1>3, <1>4
<1> HIDE DEF g, ts1, ds1
<1>7. \A k \in DOMAIN ds1 : ts1[g[k]] = "delete"
  BY <1>1, <1>2, <1>3, <1>6 DEF Pairing
<1>8. ASSUME NEW k \in DOMAIN ds1, NEW l \in DOMAIN ds1, k < l PROVE g[k] < g[l]
  <2>1. k \in DOMAIN ds
    BY <1>3, <1>4, <1>8
  <2>2. CASE l \in DOMAIN ds
    BY <1>1, <1>6, <1>8, <2>1, <2>2 DEF Pairing
  <2>3. CASE l = Len(ds) + 1
    BY <1>2, <1>6, <2>1, <2>3
  <2> QED BY <1>3, <2>2, <2>3
<1>9. \A p \in DOMAIN ts1 : ts1[p] = "delete" => \E k \in DOMAIN ds1 : g[k] = p
  <2>1. ASSUME NEW p \in DOMAIN ts, ts[p] = "delete" PROVE \E k \in DOMAIN ds1 : g[k] = p
    BY <1>1, <1>6, <2>1 DEF Pairing
  <2> QED BY <1>2, <1>6, <2>1
<1>10. ASSUME NEW p \in DOMAIN ts1, ts1[p] = "activate"
       PROVE  v \in M \/ \E k \in DOMAIN ds1 : v = ds1[k] /\ p < g[k]
  <2>1. p \in DOMAIN ts /\ ts[p] = "activate"
    BY <1>2, <1>10
  <2>2. CASE v = d
    BY <1>2, <1>3, <1>6, <2>1, <2>2
  <2>3. CASE v # d
    BY <1>1, <1>3, <1>6, <2>1, <2>3 DEF Pairing
  <2> QED BY <2>2, <2>3
<1>11. Pairing(ts1, ds1, M, v, g)
  BY <1>7, <1>8, <1>9, <1>10 DEF Pairing
<1> QED BY <1>5, <1>11 DEF Paired, ts1, ds1

\* The timer of a selection fires: what it selects is listed, or being deleted.
LEMMA PairedOnActivate ==
  ASSUME NEW S, NEW ts \in Seq(Timer), NEW ds \in Seq(S), NEW L, NEW v,
         Paired(ts, ds, L, v), ts # <<>>, Head(ts) = "activate"
  PROVE  Paired(Tail(ts), ds, L, v) /\ v \in L \cup Range(ds)
<1>1. PICK f \in [DOMAIN ds -> DOMAIN ts] : Pairing(ts, ds, L, v, f)
  BY DEF Paired
<1>2. /\ 1 \in DOMAIN ts /\ ts[1] = "activate" /\ DOMAIN ts = 1..Len(ts) /\ Len(ts) \in Nat \ {0}
      /\ DOMAIN Tail(ts) = 1..(Len(ts) - 1)
      /\ \A p \in 1..(Len(ts) - 1) : Tail(ts)[p] = ts[p + 1]
  BY TakingHead, HeadTailProperties, LenProperties, EmptySeq
<1> DEFINE g == [k \in DOMAIN ds |-> f[k] - 1]
<1>3. \A k \in DOMAIN ds : f[k] \in 2..Len(ts)
  BY <1>1, <1>2 DEF Pairing
<1>4. g \in [DOMAIN ds -> DOMAIN Tail(ts)]
  BY <1>2, <1>3
<1>5. \A k \in DOMAIN ds : g[k] = f[k] - 1 /\ g[k] \in 1..(Len(ts) - 1)
  BY <1>2, <1>3
<1> HIDE DEF g
<1>6. \A k \in DOMAIN ds : Tail(ts)[g[k]] = "delete"
  BY <1>1, <1>2, <1>3, <1>5 DEF Pairing
<1>7. \A k, l \in DOMAIN ds : k < l => g[k] < g[l]
  BY <1>1, <1>3, <1>5 DEF Pairing
<1>8. ASSUME NEW p \in DOMAIN Tail(ts), Tail(ts)[p] = "delete" PROVE \E k \in DOMAIN ds : g[k] = p
  <2>1. p + 1 \in DOMAIN ts /\ ts[p + 1] = "delete"
    BY <1>2, <1>8
  <2>2. PICK k \in DOMAIN ds : f[k] = p + 1
    BY <1>1, <2>1 DEF Pairing
  <2> QED BY <1>2, <1>5, <2>2
<1>9. ASSUME NEW p \in DOMAIN Tail(ts), Tail(ts)[p] = "activate", v \notin L
      PROVE  \E k \in DOMAIN ds : v = ds[k] /\ p < g[k]
  <2>1. p + 1 \in DOMAIN ts /\ ts[p + 1] = "activate" /\ p \in Nat
    BY <1>2, <1>9
  <2>2. PICK k \in DOMAIN ds : v = ds[k] /\ p + 1 < f[k]
    BY <1>1, <1>9, <2>1 DEF Pairing
  <2> QED BY <1>3, <1>5, <2>1, <2>2
<1>10. Pairing(Tail(ts), ds, L, v, g)
  BY <1>6, <1>7, <1>8, <1>9 DEF Pairing
<1>11. v \in L \cup Range(ds)
  BY <1>1, <1>2 DEF Pairing, Range
<1> QED BY <1>4, <1>10, <1>11 DEF Paired

\* The timer of a deletion fires: some vehicle is being deleted, and the timer
\* was that of the first.
LEMMA PairedOnDelete ==
  ASSUME NEW S, NEW ts \in Seq(Timer), NEW ds \in Seq(S), NEW L, NEW v,
         Paired(ts, ds, L, v), ts # <<>>, Head(ts) = "delete"
  PROVE  ds # <<>> /\ Paired(Tail(ts), Tail(ds), L, v)
<1>1. PICK f \in [DOMAIN ds -> DOMAIN ts] : Pairing(ts, ds, L, v, f)
  BY DEF Paired
<1>2. /\ 1 \in DOMAIN ts /\ ts[1] = "delete" /\ DOMAIN ts = 1..Len(ts) /\ Len(ts) \in Nat \ {0}
      /\ DOMAIN Tail(ts) = 1..(Len(ts) - 1)
      /\ \A p \in 1..(Len(ts) - 1) : Tail(ts)[p] = ts[p + 1]
  BY TakingHead, HeadTailProperties, LenProperties, EmptySeq
<1>3. PICK k1 \in DOMAIN ds : f[k1] = 1
  BY <1>1, <1>2 DEF Pairing
<1>4. ds # <<>>
  BY <1>3, EmptySeq, LenProperties
<1>5. /\ DOMAIN ds = 1..Len(ds) /\ Len(ds) \in Nat \ {0}
      /\ DOMAIN Tail(ds) = 1..(Len(ds) - 1)
      /\ \A p \in 1..(Len(ds) - 1) : Tail(ds)[p] = ds[p + 1]
  BY <1>4, HeadTailProperties, LenProperties, EmptySeq
<1>6. f[1] = 1
  <2>1. CASE k1 = 1
    BY <1>3, <2>1
  <2>2. CASE k1 # 1
    <3>1. 1 \in DOMAIN ds /\ 1 < k1
      BY <1>5, <2>2
    <3>2. f[1] < 1 /\ f[1] \in 1..Len(ts)
      BY <1>1, <1>2, <1>3, <3>1 DEF Pairing
    <3> QED BY <1>2, <3>2
  <2> QED BY <2>1, <2>2
<1>7. \A k \in 2..Len(ds) : f[k] \in 2..Len(ts)
  <2>1. ASSUME NEW k \in 2..Len(ds) PROVE f[k] \in 2..Len(ts)
    <3>1. 1 \in DOMAIN ds /\ k \in DOMAIN ds /\ 1 < k
      BY <1>5
    <3>2. f[1] < f[k] /\ f[k] \in 1..Len(ts)
      BY <1>1, <1>2, <3>1 DEF Pairing
    <3> QED BY <1>2, <1>6, <3>2
  <2> QED BY <2>1
<1> DEFINE g == [k \in DOMAIN Tail(ds) |-> f[k + 1] - 1]
<1>8. \A k \in DOMAIN Tail(ds) : /\ k \in Nat /\ k + 1 \in DOMAIN ds /\ f[k + 1] \in 2..Len(ts)
                                 /\ g[k] = f[k + 1] - 1 /\ g[k] \in 1..(Len(ts) - 1)
  BY <1>2, <1>5, <1>7
<1>9. g \in [DOMAIN Tail(ds) -> DOMAIN Tail(ts)]
  BY <1>2, <1>8
<1> HIDE DEF g
<1>10. ASSUME NEW k \in DOMAIN Tail(ds) PROVE Tail(ts)[g[k]] = "delete"
  <2>1. ts[f[k + 1]] = "delete"
    BY <1>1, <1>8 DEF Pairing
  <2>2. g[k] \in 1..(Len(ts) - 1) /\ g[k] = f[k + 1] - 1 /\ f[k + 1] \in 2..Len(ts)
    BY <1>8
  <2>3. g[k] + 1 = f[k + 1]
    BY <1>2, <2>2
  <2>4. Tail(ts)[g[k]] = ts[g[k] + 1]
    BY <1>2, <2>2
  <2> QED BY <2>1, <2>3, <2>4
<1>11. ASSUME NEW k \in DOMAIN Tail(ds), NEW l \in DOMAIN Tail(ds), k < l PROVE g[k] < g[l]
  <2>1. f[k + 1] < f[l + 1]
    BY <1>1, <1>8, <1>11 DEF Pairing
  <2> QED BY <1>2, <1>8, <2>1
<1>12. ASSUME NEW p \in DOMAIN Tail(ts), NEW k \in DOMAIN ds, p + 1 <= f[k]
       PROVE  /\ k - 1 \in DOMAIN Tail(ds) /\ g[k - 1] = f[k] - 1 /\ f[k] \in 2..Len(ts)
              /\ Tail(ds)[k - 1] = ds[k]
  <2>1. k # 1
    BY <1>2, <1>6, <1>12
  <2>2. k - 1 \in 1..(Len(ds) - 1) /\ (k - 1) + 1 = k
    BY <1>5, <2>1
  <2>3. /\ k - 1 \in DOMAIN Tail(ds) /\ Tail(ds)[k - 1] = ds[(k - 1) + 1]
    BY <1>5, <2>2
  <2>4. g[k - 1] = f[(k - 1) + 1] - 1 /\ f[(k - 1) + 1] \in 2..Len(ts)
    BY <1>8, <2>3
  <2> QED BY <2>2, <2>3, <2>4
<1>13. ASSUME NEW p \in DOMAIN Tail(ts), Tail(ts)[p] = "delete"
       PROVE  \E k \in DOMAIN Tail(ds) : g[k] = p
  <2>1. p + 1 \in DOMAIN ts /\ ts[p + 1] = "delete" /\ p \in Nat
    BY <1>2, <1>13
  <2>2. PICK k \in DOMAIN ds : f[k] = p + 1
    BY <1>1, <2>1 DEF Pairing
  <2>3. p + 1 <= f[k]
    BY <2>1, <2>2
  <2>4. k - 1 \in DOMAIN Tail(ds) /\ g[k - 1] = f[k] - 1
    BY <1>12, <2>3
  <2>5. g[k - 1] = p
    BY <2>1, <2>2, <2>4
  <2> QED BY <2>4, <2>5
<1>14. ASSUME NEW p \in DOMAIN Tail(ts), Tail(ts)[p] = "activate", v \notin L
       PROVE  \E k \in DOMAIN Tail(ds) : v = Tail(ds)[k] /\ p < g[k]
  <2>1. p + 1 \in DOMAIN ts /\ ts[p + 1] = "activate" /\ p \in Nat
    BY <1>2, <1>14
  <2>2. PICK k \in DOMAIN ds : v = ds[k] /\ p + 1 < f[k]
    BY <1>1, <1>14, <2>1 DEF Pairing
  <2>3. f[k] \in 1..Len(ts)
    BY <1>2
  <2>4. p + 1 <= f[k]
    BY <1>2, <2>1, <2>2, <2>3
  <2>5. k - 1 \in DOMAIN Tail(ds) /\ g[k - 1] = f[k] - 1 /\ Tail(ds)[k - 1] = ds[k]
    BY <1>12, <2>4
  <2>6. p < f[k] - 1
    BY <1>2, <2>1, <2>2, <2>3
  <2> QED BY <2>2, <2>5, <2>6
<1>15. Pairing(Tail(ts), Tail(ds), L, v, g)
  BY <1>10, <1>11, <1>13, <1>14 DEF Pairing
<1> QED BY <1>4, <1>9, <1>15 DEF Paired

-----------------------------------------------------------------------------
(* The invariant holds at first, and every step keeps it.                  *)

\* No vehicle is there to be active, bound or deleted.
LEMMA Initially == Init => Inv
<1> SUFFICES ASSUME Init PROVE Inv
  OBVIOUS
<1>1. /\ DOMAIN vehicles = {} /\ DOMAIN vehiclesBeingDeleted = {} /\ DOMAIN timers = {}
      /\ Range(vehicles) = {} /\ Range(vehiclesBeingDeleted) = {} /\ timers = <<>> /\ vehicles = <<>>
  BY LenProperties, EmptySeq DEF Init, Range
<1>2. TypeOK
  <2>1. /\ vehicles \in Seq((1..born) \ deleted) /\ vehiclesBeingDeleted \in Seq((1..born) \ deleted)
        /\ timers \in Seq({"delete", "activate"})
    BY EmptySeq DEF Init
  <2>2. queue \in [Ids -> Seq(0..born)] /\ m_mav \in [Ids -> 0..born]
    BY EmptySeq DEF Init, Null
  <2>3. IsInjective(vehicles)
    BY <1>1 DEF IsInjective
  <2>4. born \in 0..NVehicles /\ vehicleBeingSetActive \in 0..born /\ activeVehicle \in 0..born
    BY VehiclesAssumption DEF Init, Null
  <2>5. id \in [Vehicle -> SystemIds \cup {Null}]
    BY DEF Init
  <2>6. deleted \subseteq 1..born /\ ready \subseteq 1..born /\ active \subseteq 1..born
    BY DEF Init
  <2>7. activeVehicleAvailable \in BOOLEAN /\ parameterReadyVehicleAvailable \in BOOLEAN
    BY DEF Init
  <2> QED BY <2>1, <2>2, <2>3, <2>4, <2>5, <2>6, <2>7 DEF TypeOK
<1>3. Distinct
  BY <1>1 DEF Distinct, IsInjective
<1>4. TimersPaired
  <2>1. [k \in {} |-> 0] \in [DOMAIN vehiclesBeingDeleted -> DOMAIN timers]
    BY <1>1
  <2>2. Pairing(timers, vehiclesBeingDeleted, Range(vehicles), vehicleBeingSetActive, [k \in {} |-> 0])
    BY <1>1 DEF Pairing
  <2> QED BY <2>1, <2>2 DEF TimersPaired, Paired
<1>5. Kept /\ LastTimer /\ ActiveConverges
  BY <1>1 DEF Kept, LastTimer, ActiveConverges, Init
<1>6. BindingConverges
  BY <1>1 DEF BindingConverges, IsKnown, MavToBe, Init
<1> QED BY <1>2, <1>3, <1>4, <1>5, <1>6 DEF Inv

\* The types of the sequences, as the lemmas use them.
LEMMA Typed ==
  ASSUME Inv
  PROVE  /\ born \in Nat /\ vehicles \in Seq((1..born) \ deleted)
         /\ vehiclesBeingDeleted \in Seq((1..born) \ deleted)
         /\ timers \in Seq(Timer)
         /\ Range(vehicles) \subseteq (1..born) \ deleted
         /\ Range(vehiclesBeingDeleted) \subseteq (1..born) \ deleted
         /\ vehicles = <<>> <=> Range(vehicles) = {}
<1>1. /\ born \in Nat /\ vehicles \in Seq((1..born) \ deleted)
      /\ vehiclesBeingDeleted \in Seq((1..born) \ deleted) /\ timers \in Seq(Timer)
  BY VehiclesAssumption DEF Inv, TypeOK, Timer
<1>2. /\ Range(vehicles) \subseteq (1..born) \ deleted
      /\ Range(vehiclesBeingDeleted) \subseteq (1..born) \ deleted
  BY <1>1, RangeOfSeq
<1>3. vehicles = <<>> <=> Range(vehicles) = {}
  <2>1. vehicles = <<>> => Range(vehicles) = {}
    BY EmptySeq, LenProperties DEF Range
  <2>2. ASSUME vehicles # <<>> PROVE Head(vehicles) \in Range(vehicles)
    BY <1>1, <2>2, TakingHead
  <2> QED BY <2>1, <2>2
<1> QED BY <1>1, <1>2, <1>3

\* A selection waits for a timer of its own, behind those of the deletions.
LEMMA SelectVehicleKeeps ==
  ASSUME Inv, NEW v \in Vehicle, SelectVehicle(v)
  PROVE  Inv'
<1>1. /\ v \in Range(vehicles) /\ v \in 1..born /\ v \in 0..born
      /\ vehicleBeingSetActive' = v /\ timers' = Append(timers, "activate")
      /\ active' \subseteq 1..born
      /\ UNCHANGED <<born, id, deleted, ready, vehicles, vehiclesBeingDeleted, activeVehicle, queue, m_mav>>
  BY Typed DEF SelectVehicle, setActiveVehicle, Started, Inv, TypeOK
<1>2. activeVehicleAvailable' \in BOOLEAN /\ parameterReadyVehicleAvailable' \in BOOLEAN
  BY DEF SelectVehicle, setActiveVehicle, availability, Inv, TypeOK
<1>3. timers' \in Seq(Timer) /\ timers' # <<>> /\ Last(timers') = "activate"
  BY <1>1, Typed, Lasts, Appending DEF Timer
<1>4. TypeOK'
  BY <1>1, <1>2, <1>3 DEF Inv, TypeOK, Timer
<1>5. Distinct' /\ Kept' /\ LastTimer' /\ ActiveConverges'
  BY <1>1, <1>3 DEF Inv, Distinct, Kept, LastTimer, ActiveConverges
<1>6. TimersPaired'
  BY <1>1, Typed, PairedOnSelection DEF Inv, TimersPaired
<1>7. BindingConverges'
  BY <1>1 DEF Inv, BindingConverges, IsKnown, MavToBe
<1> QED BY <1>4, <1>5, <1>6, <1>7 DEF Inv

\* That parameters are ready changes what is available only.
LEMMA ParametersReadyKeeps ==
  ASSUME Inv, NEW v \in Vehicle, vehicleParametersReadyChanged(v)
  PROVE  Inv'
<1>1. /\ v \in 1..born
      /\ ready' = ready \cup {v} /\ parameterReadyVehicleAvailable' \in BOOLEAN
      /\ UNCHANGED <<born, id, deleted, vehicles, vehiclesBeingDeleted, vehicleBeingSetActive,
                     activeVehicle, activeVehicleAvailable, active, timers, queue, m_mav>>
  BY Typed DEF vehicleParametersReadyChanged, Inv, TypeOK
<1>2. TypeOK'
  BY <1>1 DEF Inv, TypeOK
<1>3. Distinct' /\ Kept' /\ LastTimer' /\ ActiveConverges' /\ TimersPaired'
  BY <1>1 DEF Inv, Distinct, Kept, LastTimer, ActiveConverges, TimersPaired
<1>4. BindingConverges'
  BY <1>1 DEF Inv, BindingConverges, IsKnown, MavToBe
<1> QED BY <1>2, <1>3, <1>4 DEF Inv

\* An object handles the first of the vehicles posted to it, and the last stays the one due.
LEMMA setMAVKeeps ==
  ASSUME Inv, NEW i \in Ids, setMAV(i)
  PROVE  Inv'
<1>1. /\ queue \in [Ids -> Seq(0..born)] /\ m_mav \in [Ids -> 0..born]
      /\ queue[i] \in Seq(0..born) /\ queue[i] # <<>>
  BY DEF setMAV, Inv, TypeOK
<1>2. Head(queue[i]) \in 0..born /\ Tail(queue[i]) \in Seq(0..born)
  BY <1>1, TakingHead
<1>3. /\ m_mav' = [m_mav EXCEPT ![i] = Head(queue[i])]
      /\ queue' = [queue EXCEPT ![i] = Tail(queue[i])]
      /\ UNCHANGED <<born, id, deleted, vehicles, vehiclesBeingDeleted, vehicleBeingSetActive,
                     activeVehicle, activeVehicleAvailable, parameterReadyVehicleAvailable,
                     active, timers, ready>>
  BY DEF setMAV, manager, availability
<1>4. TypeOK'
  BY <1>1, <1>2, <1>3 DEF Inv, TypeOK
<1>5. Distinct' /\ Kept' /\ LastTimer' /\ ActiveConverges' /\ TimersPaired'
  BY <1>3 DEF Inv, Distinct, Kept, LastTimer, ActiveConverges, TimersPaired
<1>6. ASSUME NEW j \in Ids PROVE MavToBe(j)' = MavToBe(j)
  <2>1. CASE j = i
    <3>1. queue'[i] = Tail(queue[i]) /\ m_mav'[i] = Head(queue[i])
      BY <1>1, <1>3
    <3>2. /\ Tail(queue[i]) = <<>> => Last(queue[i]) = Head(queue[i])
          /\ Tail(queue[i]) # <<>> => Last(Tail(queue[i])) = Last(queue[i])
      BY <1>1, <1>2, Lasts
    <3> QED BY <1>1, <2>1, <3>1, <3>2 DEF MavToBe
  <2>2. CASE j # i
    BY <1>1, <1>3, <2>2 DEF MavToBe
  <2> QED BY <2>1, <2>2
<1>7. BindingConverges'
  BY <1>3, <1>6 DEF Inv, BindingConverges, IsKnown
<1> QED BY <1>4, <1>5, <1>6, <1>7 DEF Inv

\* A pending selection activates a vehicle that is listed, or whose deletion is still to come.
LEMMA setActiveVehiclePhase2Keeps ==
  ASSUME Inv, setActiveVehiclePhase2
  PROVE  Inv'
<1>1. /\ timers # <<>> /\ Head(timers) = "activate" /\ timers' = Tail(timers)
      /\ activeVehicle' = vehicleBeingSetActive
      /\ active' = active \cup ({activeVehicle'} \cap Vehicle)
      /\ UNCHANGED <<born, id, deleted, ready, vehicles, vehiclesBeingDeleted,
                     vehicleBeingSetActive, queue, m_mav>>
  BY DEF setActiveVehiclePhase2
<1>2. activeVehicleAvailable' \in BOOLEAN /\ parameterReadyVehicleAvailable' \in BOOLEAN
  BY DEF setActiveVehiclePhase2, availability, Inv, TypeOK
<1>3. timers' \in Seq(Timer)
  BY <1>1, Typed, TakingHead
<1>4. TimersPaired' /\ vehicleBeingSetActive \in Range(vehicles) \cup Range(vehiclesBeingDeleted)
  BY <1>1, Typed, PairedOnActivate DEF Inv, TimersPaired
<1>5. vehicleBeingSetActive \in Vehicle /\ vehicleBeingSetActive \in 1..born
  BY <1>4, Typed, VehiclesAssumption DEF Inv, TypeOK, Vehicle
<1>6. TypeOK'
  BY <1>1, <1>2, <1>3, <1>5 DEF Inv, TypeOK, Timer
<1>7. Distinct' /\ Kept'
  BY <1>1, <1>4 DEF Inv, Distinct, Kept
<1>8. LastTimer'
  BY <1>1, Typed, Lasts DEF Inv, LastTimer, Timer
<1>9. ActiveConverges'
  <2>1. ASSUME Tail(timers) = <<>> PROVE vehicleBeingSetActive \in Range(vehicles)
    BY <1>1, <2>1, Typed, Lasts DEF Inv, LastTimer, Timer
  <2> QED BY <1>1, <1>5, <2>1, Typed DEF ActiveConverges
<1>10. BindingConverges'
  BY <1>1 DEF Inv, BindingConverges, IsKnown, MavToBe
<1> QED BY <1>4, <1>6, <1>7, <1>8, <1>9, <1>10 DEF Inv

\* The second phase of a deletion activates a listed vehicle, if there is one.
LEMMA deleteVehiclePhase2Keeps ==
  ASSUME Inv, deleteVehiclePhase2
  PROVE  Inv'
<1> DEFINE d == Head(vehiclesBeingDeleted)
<1>1. /\ timers # <<>> /\ Head(timers) = "delete" /\ timers' = Tail(timers)
      /\ activeVehicle' = Successor /\ active' = active \cup ({activeVehicle'} \cap Vehicle)
      /\ deleted' = deleted \cup {d} /\ vehiclesBeingDeleted' = Tail(vehiclesBeingDeleted)
      /\ UNCHANGED <<born, id, ready, vehicles, vehicleBeingSetActive,
                     activeVehicleAvailable, parameterReadyVehicleAvailable, queue, m_mav>>
  BY DEF deleteVehiclePhase2, availability, Doomed
<1>2. timers' \in Seq(Timer)
  BY <1>1, Typed, TakingHead
<1>3. vehiclesBeingDeleted # <<>> /\ TimersPaired'
  BY <1>1, Typed, PairedOnDelete DEF Inv, TimersPaired
<1>4. /\ d \in (1..born) \ deleted /\ d \in Range(vehiclesBeingDeleted)
      /\ Range(vehiclesBeingDeleted') \subseteq Range(vehiclesBeingDeleted)
      /\ vehiclesBeingDeleted' \in Seq((1..born) \ deleted)
      /\ vehiclesBeingDeleted[1] = d /\ 1 \in DOMAIN vehiclesBeingDeleted
      /\ \A k \in DOMAIN vehiclesBeingDeleted' :
           /\ k \in Nat /\ k > 0 /\ k + 1 \in DOMAIN vehiclesBeingDeleted
           /\ vehiclesBeingDeleted'[k] = vehiclesBeingDeleted[k + 1]
  BY <1>1, <1>3, Typed, TakingHead
<1>5. IsInjective(vehiclesBeingDeleted') /\ d \notin Range(vehiclesBeingDeleted')
  <2>1. IsInjective(vehiclesBeingDeleted)
    BY DEF Inv, Distinct
  <2>2. ASSUME NEW k \in DOMAIN vehiclesBeingDeleted' PROVE vehiclesBeingDeleted'[k] # d
    BY <1>4, <2>1 DEF IsInjective
  <2>3. ASSUME NEW k \in DOMAIN vehiclesBeingDeleted', NEW l \in DOMAIN vehiclesBeingDeleted',
               vehiclesBeingDeleted'[k] = vehiclesBeingDeleted'[l]
        PROVE  k = l
    BY <1>4, <2>1, <2>3 DEF IsInjective
  <2> QED BY <2>2, <2>3 DEF IsInjective, Range
<1>6. d \notin Range(vehicles)
  BY <1>4 DEF Inv, Distinct
<1>7. /\ vehicles' \in Seq((1..born') \ deleted')
      /\ vehiclesBeingDeleted' \in Seq((1..born') \ deleted')
  <2>1. Range(vehicles) \subseteq (1..born) \ deleted' /\ Range(vehiclesBeingDeleted') \subseteq (1..born) \ deleted'
    BY <1>1, <1>4, <1>5, <1>6, Typed
  <2>2. vehicles \in Seq(Range(vehicles)) /\ vehiclesBeingDeleted' \in Seq(Range(vehiclesBeingDeleted'))
    BY <1>4, Typed, SeqOfRange
  <2>3. vehicles \in Seq((1..born) \ deleted') /\ vehiclesBeingDeleted' \in Seq((1..born) \ deleted')
    BY <2>1, <2>2, SeqMonotonic
  <2> QED BY <1>1, <2>3
<1>8. /\ vehicles = <<>> => activeVehicle' = Null
      /\ vehicles # <<>> => activeVehicle' \in Range(vehicles) /\ activeVehicle' \in 1..born
                            /\ activeVehicle' \in Vehicle
  <2>1. ASSUME vehicles # <<>> PROVE Head(vehicles) \in Range(vehicles)
    BY <2>1, Typed, TakingHead
  <2>2. 1..born \subseteq Vehicle
    BY VehiclesAssumption DEF Inv, TypeOK, Vehicle
  <2> QED BY <1>1, <2>1, <2>2, Typed DEF Successor
<1>9. TypeOK'
  <2>1. activeVehicle' \in 0..born /\ active' \subseteq 1..born /\ deleted' \subseteq 1..born
    <3>1. born \in Nat /\ active \subseteq 1..born /\ deleted \subseteq 1..born
      BY Typed DEF Inv, TypeOK
    <3>2. activeVehicle' \in 0..born
      BY <1>8, <3>1 DEF Null
    <3>3. activeVehicle' \in Vehicle => activeVehicle' \in 1..born
      BY <1>8, <3>1, VehiclesAssumption DEF Null, Vehicle
    <3> QED BY <1>1, <1>4, <3>1, <3>2, <3>3
  <2> QED BY <1>1, <1>2, <1>7, <2>1 DEF Inv, TypeOK, Timer
<1>10. Distinct' /\ Kept'
  BY <1>1, <1>4, <1>5, <1>8 DEF Inv, Distinct, Kept
<1>11. LastTimer'
  BY <1>1, Typed, Lasts DEF Inv, LastTimer, Timer
<1>12. ActiveConverges'
  BY <1>1, <1>8 DEF ActiveConverges
<1>13. BindingConverges'
  BY <1>1 DEF Inv, BindingConverges, IsKnown, MavToBe
<1> QED BY <1>3, <1>9, <1>10, <1>11, <1>12, <1>13 DEF Inv

\* What a call posted leaves the object with, at last.
LEMMA Posting ==
  ASSUME NEW i, NEW v \in Nat, NEW n \in Nat, queue \in [Ids -> Seq(0..n)], v <= n,
         m_mav' = m_mav, PostSetMAV(i, v)
  PROVE  /\ queue' \in [Ids -> Seq(0..n)]
         /\ \A j \in Ids : MavToBe(j)' = IF j = i THEN v ELSE MavToBe(j)
<1>1. v \in 0..n
  OBVIOUS
<1>2. CASE i \in Ids
  <2>1. queue[i] \in Seq(0..n)
    BY <1>2
  <2>2. /\ Append(queue[i], v) \in Seq(0..n) /\ Append(queue[i], v) # <<>>
        /\ Last(Append(queue[i], v)) = v
    BY <1>1, <2>1, Appending, Lasts
  <2>3. queue' = [queue EXCEPT ![i] = Append(queue[i], v)]
    BY <1>2 DEF PostSetMAV, Posted
  <2>4. queue' \in [Ids -> Seq(0..n)]
    BY <2>2, <2>3
  <2>5. ASSUME NEW j \in Ids PROVE MavToBe(j)' = IF j = i THEN v ELSE MavToBe(j)
    <3>1. CASE j = i
      <4>1. queue'[i] = Append(queue[i], v)
        BY <1>2, <2>3
      <4> QED BY <3>1, <4>1, <2>2 DEF MavToBe
    <3>2. CASE j # i
      BY <2>3, <3>2 DEF MavToBe
    <3> QED BY <3>1, <3>2
  <2> QED BY <2>4, <2>5
<1>3. CASE i \notin Ids
  BY <1>3 DEF PostSetMAV, MavToBe
<1> QED BY <1>2, <1>3

\* The first phase takes the vehicle off the list, unbinds its object, and starts the timer.
LEMMA deleteVehiclePhase1Keeps ==
  ASSUME Inv, NEW v \in Vehicle, deleteVehiclePhase1(v)
  PROVE  Inv'
<1>1. PICK n \in DOMAIN vehicles : vehicles[n] = v /\ vehicles' = RemoveAt(vehicles, n)
  BY DEF deleteVehiclePhase1
<1>2. /\ vehiclesBeingDeleted' = Append(vehiclesBeingDeleted, v)
      /\ timers' = Append(timers, "delete") /\ active' = active \ {v}
      /\ activeVehicleAvailable' = FALSE /\ parameterReadyVehicleAvailable' = FALSE
      /\ UNCHANGED <<born, id, deleted, ready, vehicleBeingSetActive, activeVehicle, m_mav>>
      /\ PostSetMAV(id[v], Null)
  BY DEF deleteVehiclePhase1, Started, vehicleRemovedEvent
<1>3. /\ v \in (1..born) \ deleted /\ v \in Range(vehicles)
  <2>1. v \in Range(vehicles)
    BY <1>1 DEF Range
  <2> QED BY <2>1, Typed
<1>4. /\ vehicles' \in Seq((1..born) \ deleted)
      /\ \A l \in DOMAIN vehicles' :
           /\ l \in Nat /\ (IF l < n THEN l ELSE l + 1) \in DOMAIN vehicles \ {n}
           /\ vehicles'[l] = vehicles[IF l < n THEN l ELSE l + 1]
      /\ Range(vehicles) = Range(vehicles') \cup {v}
  BY <1>1, Typed, RemovingAt
<1>5. n \in Nat
  BY Typed, LenProperties
<1>6. \A k, l \in DOMAIN vehicles' : id[vehicles'[k]] = id[vehicles'[l]] => k = l
  <2>1. \A k, l \in DOMAIN vehicles : id[vehicles[k]] = id[vehicles[l]] => k = l
    BY DEF Inv, Distinct
  <2>2. ASSUME NEW k \in DOMAIN vehicles', NEW l \in DOMAIN vehicles',
               id[vehicles'[k]] = id[vehicles'[l]]
        PROVE  k = l
    <3>1. (IF k < n THEN k ELSE k + 1) = (IF l < n THEN l ELSE l + 1)
      BY <1>4, <2>1, <2>2
    <3> QED BY <1>4, <1>5, <3>1
  <2> QED BY <2>2
<1>7. \A w \in Range(vehicles') : id[w] # id[v] /\ w # v
  <2>1. ASSUME NEW w \in Range(vehicles') PROVE id[w] # id[v]
    <3>1. PICK l \in DOMAIN vehicles' : w = vehicles'[l]
      BY DEF Range
    <3>2. PICK m \in DOMAIN vehicles : m # n /\ w = vehicles[m]
      BY <1>4, <3>1
    <3> QED BY <1>1, <3>2 DEF Inv, Distinct
  <2> QED BY <2>1
<1>8. /\ vehiclesBeingDeleted' \in Seq((1..born) \ deleted)
      /\ Range(vehiclesBeingDeleted') = Range(vehiclesBeingDeleted) \cup {v}
      /\ DOMAIN vehiclesBeingDeleted' = DOMAIN vehiclesBeingDeleted \cup {Len(vehiclesBeingDeleted) + 1}
      /\ \A k \in DOMAIN vehiclesBeingDeleted : vehiclesBeingDeleted'[k] = vehiclesBeingDeleted[k]
      /\ vehiclesBeingDeleted'[Len(vehiclesBeingDeleted) + 1] = v
  <2>1. v \in (1..born) \ deleted /\ vehiclesBeingDeleted \in Seq((1..born) \ deleted)
    BY <1>3, Typed
  <2>2. vehiclesBeingDeleted' = Append(vehiclesBeingDeleted, v)
    BY <1>2
  <2> QED BY <2>1, <2>2, Appending
<1>9. \A k \in DOMAIN vehiclesBeingDeleted : vehiclesBeingDeleted[k] # v
  BY <1>3 DEF Inv, Distinct, Range
<1>10. Distinct'
  <2>1. IsInjective(vehiclesBeingDeleted')
    BY <1>8, <1>9 DEF Inv, Distinct, IsInjective
  <2>2. Range(vehicles') \cap Range(vehiclesBeingDeleted') = {}
    BY <1>4, <1>7, <1>8 DEF Inv, Distinct
  <2>3. id' = id
    BY <1>2
  <2> QED BY <1>6, <2>1, <2>2, <2>3 DEF Distinct
<1>11. timers' \in Seq(Timer) /\ timers' # <<>> /\ Last(timers') = "delete"
  BY <1>2, Typed, Lasts, Appending DEF Timer
<1>12. LastTimer' /\ ActiveConverges'
  BY <1>11 DEF LastTimer, ActiveConverges
<1>13. Kept'
  BY <1>2, <1>4, <1>8 DEF Inv, Kept
<1>14. TimersPaired'
  BY <1>2, <1>3, <1>4, Typed, PairedOnDeletion DEF Inv, TimersPaired
<1>15. /\ queue' \in [Ids -> Seq(0..born)]
       /\ \A j \in Ids : MavToBe(j)' = IF j = id[v] THEN Null ELSE MavToBe(j)
  <2>1. queue \in [Ids -> Seq(0..born)] /\ born \in Nat /\ Null \in Nat /\ Null <= born
    BY Typed DEF Inv, TypeOK, Null
  <2> QED BY <1>2, <2>1, Posting
<1>16. TypeOK'
  <2>1. IsInjective(vehicles')
    BY <1>6 DEF IsInjective
  <2> QED BY <1>2, <1>4, <1>8, <1>11, <1>15, <2>1 DEF Inv, TypeOK, Timer
<1>17. BindingConverges'
  <2> SUFFICES ASSUME NEW i \in Ids
               PROVE  IF IsKnown(i)' THEN MavToBe(i)' \in Range(vehicles') /\ id'[MavToBe(i)'] = i
                      ELSE MavToBe(i)' = Null
    BY DEF BindingConverges
  <2>1. id' = id
    BY <1>2
  <2>2. \A j \in Ids : IsKnown(j) <=> \E w \in Range(vehicles) : id[w] = j
    BY DEF IsKnown, Range
  <2>3. IsKnown(i)' <=> \E w \in Range(vehicles') : id[w] = i
    BY <2>1 DEF IsKnown, Range
  <2>4. CASE i = id[v]
    BY <1>7, <1>15, <2>3, <2>4
  <2>5. CASE i # id[v]
    <3>1. IsKnown(i)' <=> IsKnown(i)
      BY <1>4, <2>2, <2>3, <2>5
    <3>2. MavToBe(i)' = MavToBe(i)
      BY <1>15, <2>5
    <3>3. IF IsKnown(i) THEN MavToBe(i) \in Range(vehicles) /\ id[MavToBe(i)] = i
          ELSE MavToBe(i) = Null
      BY DEF Inv, BindingConverges
    <3> QED BY <1>4, <2>1, <2>5, <3>1, <3>2, <3>3
  <2> QED BY <2>4, <2>5
<1> QED BY <1>10, <1>12, <1>13, <1>14, <1>16, <1>17 DEF Inv

\* The first heartbeat of an id lists a vehicle, activates it if it is the first, and binds it.
LEMMA vehicleHeartbeatInfoKeeps ==
  ASSUME Inv, NEW i \in SystemIds, vehicleHeartbeatInfo(i)
  PROVE  Inv'
<1> DEFINE v == born + 1
<1>1. /\ v \in Vehicle /\ ~IsKnown(i) /\ born' = v /\ id' = [id EXCEPT ![v] = i]
      /\ vehicles' = Append(vehicles, v) /\ PostSetMAV(i, v)
      /\ UNCHANGED <<deleted, ready, vehiclesBeingDeleted, m_mav>>
  BY DEF vehicleHeartbeatInfo, vehicleAddedEvent
<1>2. /\ born \in Nat /\ v \in Nat /\ 1..born \subseteq 1..v /\ 0..born \subseteq 0..v
      /\ v \in 1..v /\ v \in 0..v /\ v \in 0..NVehicles /\ v \notin 1..born
  BY <1>1, Typed, VehiclesAssumption DEF Inv, TypeOK, Vehicle
<1>3. deleted \subseteq 1..born /\ (1..born) \ deleted \subseteq (1..v) \ deleted /\ v \in (1..v) \ deleted
  BY <1>2 DEF Inv, TypeOK
<1>4. /\ vehicles \in Seq((1..v) \ deleted) /\ vehiclesBeingDeleted \in Seq((1..v) \ deleted)
  BY <1>3, Typed, SeqMonotonic
<1>5. /\ vehicles' \in Seq((1..v) \ deleted) /\ Range(vehicles') = Range(vehicles) \cup {v}
      /\ DOMAIN vehicles' = DOMAIN vehicles \cup {Len(vehicles) + 1}
      /\ \A k \in DOMAIN vehicles : vehicles'[k] = vehicles[k]
      /\ vehicles'[Len(vehicles) + 1] = v
  BY <1>1, <1>3, <1>4, Appending
<1>6. /\ id'[v] = i /\ \A w \in 1..born : id'[w] = id[w]
  <2>1. id \in [Vehicle -> SystemIds \cup {Null}] /\ 1..born \subseteq Vehicle
    BY VehiclesAssumption DEF Inv, TypeOK, Vehicle
  <2> QED BY <1>1, <1>2, <2>1
<1>7. /\ \A k \in DOMAIN vehicles : id'[vehicles'[k]] = id[vehicles[k]] /\ id[vehicles[k]] # i
      /\ id'[vehicles'[Len(vehicles) + 1]] = i
  <2>1. ASSUME NEW k \in DOMAIN vehicles
        PROVE  id'[vehicles'[k]] = id[vehicles[k]] /\ id[vehicles[k]] # i
    <3>1. vehicles[k] \in 1..born
      BY Typed DEF Range
    <3> QED BY <1>1, <1>5, <1>6, <3>1 DEF IsKnown
  <2> QED BY <1>5, <1>6, <2>1
<1>8. \A k, l \in DOMAIN vehicles' : id'[vehicles'[k]] = id'[vehicles'[l]] => k = l
  BY <1>5, <1>7 DEF Inv, Distinct
<1>9. Distinct'
  <2>1. v \notin Range(vehiclesBeingDeleted)
    BY <1>2, Typed
  <2> QED BY <1>1, <1>5, <1>8, <2>1 DEF Inv, Distinct
<1>10. /\ queue' \in [Ids -> Seq(0..v)]
       /\ \A j \in Ids : MavToBe(j)' = IF j = i THEN v ELSE MavToBe(j)
  <2>1. queue \in [Ids -> Seq(0..v)]
    <3>1. queue \in [Ids -> Seq(0..born)] /\ Seq(0..born) \subseteq Seq(0..v)
      BY <1>2, SeqMonotonic DEF Inv, TypeOK
    <3> QED BY <3>1
  <2> QED BY <1>1, <1>2, <2>1, Posting
<1>11. BindingConverges'
  <2> SUFFICES ASSUME NEW j \in Ids
               PROVE  IF IsKnown(j)' THEN MavToBe(j)' \in Range(vehicles') /\ id'[MavToBe(j)'] = j
                      ELSE MavToBe(j)' = Null
    BY DEF BindingConverges
  <2>1. CASE j = i
    <3>1. IsKnown(i)'
      BY <1>5, <1>7 DEF IsKnown
    <3> QED BY <1>5, <1>6, <1>10, <2>1, <3>1
  <2>2. CASE j # i
    <3>1. IsKnown(j)' <=> IsKnown(j)
      BY <1>5, <1>7, <2>2 DEF IsKnown
    <3>2. MavToBe(j)' = MavToBe(j)
      BY <1>10, <2>2
    <3>3. IF IsKnown(j) THEN MavToBe(j) \in Range(vehicles) /\ id[MavToBe(j)] = j
          ELSE MavToBe(j) = Null
      BY DEF Inv, BindingConverges
    <3>4. IsKnown(j) => id'[MavToBe(j)] = id[MavToBe(j)]
      BY <1>6, <3>3, Typed
    <3> QED BY <1>5, <3>1, <3>2, <3>3, <3>4
  <2> QED BY <2>1, <2>2
<1>12. /\ vehicleBeingSetActive' \in 0..v /\ activeVehicle' = activeVehicle
       /\ timers' \in Seq(Timer) /\ active' \subseteq 1..v
       /\ activeVehicleAvailable' \in BOOLEAN /\ parameterReadyVehicleAvailable' \in BOOLEAN
       /\ TimersPaired' /\ LastTimer' /\ ActiveConverges'
  <2>1. CASE vehicles = <<>>
    <3>1. /\ vehicleBeingSetActive' = v /\ activeVehicle' = activeVehicle
          /\ timers' = Append(timers, "activate") /\ active' \subseteq active
      BY <2>1 DEF vehicleHeartbeatInfo, setActiveVehicle, Started
    <3>2. activeVehicleAvailable' \in BOOLEAN /\ parameterReadyVehicleAvailable' \in BOOLEAN
      BY <2>1 DEF vehicleHeartbeatInfo, setActiveVehicle, availability, Inv, TypeOK
    <3>3. timers' \in Seq(Timer) /\ timers' # <<>>
      BY <3>1, Typed, Lasts, Appending DEF Timer
    <3>4. TimersPaired'
      BY <1>1, <1>5, <3>1, Typed, PairedOnSelection DEF Inv, TimersPaired
    <3>5. LastTimer' /\ ActiveConverges'
      BY <1>5, <3>1, <3>3 DEF LastTimer, ActiveConverges
    <3> QED BY <1>2, <3>1, <3>2, <3>3, <3>4, <3>5 DEF Inv, TypeOK
  <2>2. CASE vehicles # <<>>
    <3>1. UNCHANGED <<vehicleBeingSetActive, activeVehicle, activeVehicleAvailable,
                      parameterReadyVehicleAvailable, active, timers>>
      BY <2>2 DEF vehicleHeartbeatInfo, availability
    <3>2. TimersPaired'
      BY <1>1, <1>5, <3>1, PairedOnListing DEF Inv, TimersPaired
    <3>3. LastTimer' /\ ActiveConverges'
      BY <1>5, <2>2, <3>1 DEF Inv, LastTimer, ActiveConverges
    <3> QED BY <1>2, <3>1, <3>2, <3>3, Typed DEF Inv, TypeOK
  <2> QED BY <2>1, <2>2
<1>13. TypeOK'
  <2>1. id' \in [Vehicle -> SystemIds \cup {Null}] /\ IsInjective(vehicles')
    BY <1>1, <1>8 DEF Inv, TypeOK, IsInjective
  <2>2. m_mav' \in [Ids -> 0..v] /\ activeVehicle' \in 0..v
    BY <1>1, <1>2, <1>12 DEF Inv, TypeOK
  <2>3. deleted \subseteq 1..v /\ ready \subseteq 1..v
    BY <1>2 DEF Inv, TypeOK
  <2> HIDE DEF v
  <2> QED BY <1>1, <1>2, <1>4, <1>5, <1>10, <1>12, <2>1, <2>2, <2>3 DEF TypeOK, Timer
<1>14. Kept'
  BY <1>1, <1>5, <1>12 DEF Inv, Kept
<1> QED BY <1>9, <1>11, <1>12, <1>13, <1>14 DEF Inv

-----------------------------------------------------------------------------
(* The theorems.                                                           *)

\* The manager's lists, its timers and what it has posted to the objects fit
\* together in every state.
THEOREM ManagerCorrect == Spec => []Inv
<1>1. ASSUME Inv, [Next]_vars PROVE Inv'
  <2>1. CASE UNCHANGED vars
    <3>1. UNCHANGED <<born, id, deleted, vehicles, vehiclesBeingDeleted, vehicleBeingSetActive,
                      activeVehicle, activeVehicleAvailable, parameterReadyVehicleAvailable,
                      active, timers, ready, queue, m_mav>>
      BY <2>1 DEF vars, manager, availability
    <3> QED BY <1>1, <3>1 DEF Inv, TypeOK, Distinct, TimersPaired, Kept, LastTimer,
                              ActiveConverges, BindingConverges, IsKnown, MavToBe
  <2>2. CASE \E i \in SystemIds : vehicleHeartbeatInfo(i)
    BY <1>1, <2>2, vehicleHeartbeatInfoKeeps
  <2>3. CASE \E v \in Vehicle : SelectVehicle(v)
    BY <1>1, <2>3, SelectVehicleKeeps
  <2>4. CASE \E v \in Vehicle : vehicleParametersReadyChanged(v)
    BY <1>1, <2>4, ParametersReadyKeeps
  <2>5. CASE \E v \in Vehicle : deleteVehiclePhase1(v)
    BY <1>1, <2>5, deleteVehiclePhase1Keeps
  <2>6. CASE setActiveVehiclePhase2
    BY <1>1, <2>6, setActiveVehiclePhase2Keeps
  <2>7. CASE deleteVehiclePhase2
    BY <1>1, <2>7, deleteVehiclePhase2Keeps
  <2>8. CASE \E i \in Ids : setMAV(i)
    BY <1>1, <2>8, setMAVKeeps
  <2> QED BY <1>1, <2>1, <2>2, <2>3, <2>4, <2>5, <2>6, <2>7, <2>8 DEF Next
<1> QED BY Initially, <1>1, PTL DEF Spec

\* The type invariant: in particular a vehicle whose memory is freed is on
\* neither of the manager's lists.
THEOREM TypeCorrect == Spec => []TypeOK
<1>1. Inv => TypeOK
  BY DEF Inv
<1> QED BY <1>1, ManagerCorrect, PTL

\* MultiVehicleManager's signals reach UBObject::setMAV in order: the vehicle an
\* object has at last is the listed one of its id, or none.
THEOREM BindingCorrect == Spec => []BindingConverges
<1>1. Inv => BindingConverges
  BY DEF Inv
<1> QED BY <1>1, ManagerCorrect, PTL

\* However _setActiveVehiclePhase2 and _deleteVehiclePhase2 overlap, the
\* vehicle active at last is a listed one that was told so.
THEOREM ActiveCorrect == Spec => []ActiveConverges
<1>1. Inv => ActiveConverges
  BY DEF Inv
<1> QED BY <1>1, ManagerCorrect, PTL

\* Neither the active vehicle nor one about to be made active is deleted: the
\* timers fire in the order they were started.
THEOREM NoDeletedActivated == Spec => []NoDeletedActive
<1>1. Inv => NoDeletedActive
  <2> SUFFICES ASSUME Inv PROVE NoDeletedActive
    OBVIOUS
  <2>1. activeVehicle \notin deleted
    <3>1. Null \notin deleted
      BY Typed DEF Inv, TypeOK, Null
    <3> QED BY <3>1, Typed DEF Inv, Kept
  <2>2. ASSUME "activate" \in Range(timers) PROVE vehicleBeingSetActive \notin deleted
    <3>1. PICK p \in DOMAIN timers : timers[p] = "activate"
      BY <2>2 DEF Range
    <3>2. vehicleBeingSetActive \in Range(vehicles) \cup Range(vehiclesBeingDeleted)
      BY <3>1 DEF Inv, TimersPaired, Paired, Pairing, Range
    <3> QED BY <3>2, Typed
  <2> QED BY <2>1, <2>2 DEF NoDeletedActive
<1> QED BY <1>1, ManagerCorrect, PTL
=============================================================================
