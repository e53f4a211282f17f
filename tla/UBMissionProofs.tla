---------------------------- MODULE UBMissionProofs ----------------------------
(***************************************************************************)
(* For every mission, number of retries and way in which the vehicle          *)
(* misbehaves: the manager is never left busy for good, the variables keep    *)
(* their types, a mission resumed at one of its items restores what the        *)
(* vehicle had set there, and a transaction that succeeds leaves both sides   *)
(* with the same mission.                                                     *)
(***************************************************************************)
EXTENDS UBMission, SequenceTheorems, FiniteSetTheorems, WellFoundedInduction, TLAPS

-----------------------------------------------------------------------------
(* Queues, which are filled at the end and emptied at the head.             *)

\* A sequence, and its elements, after one more.
LEMMA Appending ==
  ASSUME NEW S, NEW s \in Seq(S), NEW e \in S
  PROVE  /\ Append(s, e) \in Seq(S) /\ Range(Append(s, e)) = Range(s) \cup {e}
         /\ DOMAIN Append(s, e) = DOMAIN s \cup {Len(s) + 1}
         /\ \A k \in DOMAIN s : k \in Nat /\ k < Len(s) + 1 /\ Append(s, e)[k] = s[k]
         /\ Append(s, e)[Len(s) + 1] = e
<1>1. /\ DOMAIN s = 1..Len(s) /\ Len(s) \in Nat
      /\ DOMAIN Append(s, e) = 1..(Len(s) + 1)
      /\ \A k \in 1..Len(s) : Append(s, e)[k] = s[k]
      /\ Append(s, e)[Len(s) + 1] = e /\ Append(s, e) \in Seq(S)
  BY AppendProperties, LenProperties
<1>2. DOMAIN Append(s, e) = DOMAIN s \cup {Len(s) + 1}
  BY <1>1
<1>3. Range(Append(s, e)) = Range(s) \cup {e}
  BY <1>1, <1>2 DEF Range
<1> QED BY <1>1, <1>2, <1>3

\* A sequence, and its elements, without the first.
LEMMA TakingHead ==
  ASSUME NEW S, NEW s \in Seq(S), s # <<>>
  PROVE  /\ Head(s) \in S /\ Tail(s) \in Seq(S) /\ s[1] = Head(s) /\ 1 \in DOMAIN s
         /\ Range(s) = {Head(s)} \cup Range(Tail(s))
         /\ \A k \in DOMAIN Tail(s) : k \in Nat /\ k > 0 /\ k + 1 \in DOMAIN s /\ Tail(s)[k] = s[k + 1]
<1>1. /\ DOMAIN s = 1..Len(s) /\ Len(s) \in Nat \ {0}
      /\ Tail(s) \in Seq(S) /\ Len(Tail(s)) = Len(s) - 1 /\ DOMAIN Tail(s) = 1..(Len(s) - 1)
      /\ \A k \in 1..(Len(s) - 1) : Tail(s)[k] = s[k + 1]
      /\ Head(s) \in S /\ Head(s) = s[1]
  BY HeadTailProperties, LenProperties, EmptySeq
<1>2. Range(s) = {Head(s)} \cup Range(Tail(s))
  <2>1. ASSUME NEW x \in Range(s) PROVE x \in {Head(s)} \cup Range(Tail(s))
    <3>1. PICK k \in 1..Len(s) : x = s[k]
      BY <1>1 DEF Range
    <3>2. CASE k = 1
      BY <3>1, <3>2, <1>1
    <3>3. CASE k # 1
      <4>1. k - 1 \in 1..(Len(s) - 1) /\ (k - 1) + 1 = k
        BY <1>1, <3>3
      <4> QED BY <3>1, <1>1, <4>1 DEF Range
    <3> QED BY <3>2, <3>3
  <2>2. ASSUME NEW x \in {Head(s)} \cup Range(Tail(s)) PROVE x \in Range(s)
    BY <1>1, <2>2 DEF Range
  <2> QED BY <2>1, <2>2
<1> QED BY <1>1, <1>2

-----------------------------------------------------------------------------
(* Positions.  An element of a finite set of positions has a rank: as many as *)
(* there are up to it.                                                        *)

UpTo(S, i) == {l \in S : l <= i}

\* Ranks are positions themselves, and no two elements share one.
LEMMA RanksDiffer ==
  ASSUME NEW S, S \subseteq Nat, IsFiniteSet(S)
  PROVE  /\ Cardinality(S) \in Nat
         /\ \A i \in S : Cardinality(UpTo(S, i)) \in 1..Cardinality(S)
         /\ \A i, j \in S : Cardinality(UpTo(S, i)) = Cardinality(UpTo(S, j)) => i = j
<1>1. Cardinality(S) \in Nat
  BY FS_CardinalityType
<1>2. ASSUME NEW i \in S
      PROVE  IsFiniteSet(UpTo(S, i)) /\ Cardinality(UpTo(S, i)) \in 1..Cardinality(S)
  <2>1. UpTo(S, i) \in SUBSET S /\ i \in UpTo(S, i)
    BY DEF UpTo
  <2>2. IsFiniteSet(UpTo(S, i)) /\ Cardinality(UpTo(S, i)) <= Cardinality(S)
    BY <2>1, FS_Subset
  <2>3. Cardinality(UpTo(S, i)) \in Nat
    BY <2>2, FS_CardinalityType
  <2>4. Cardinality(UpTo(S, i)) # 0
    BY <2>1, <2>2, FS_EmptySet
  <2> QED BY <1>1, <2>2, <2>3, <2>4
<1>3. ASSUME NEW i \in S, NEW j \in S, i < j
      PROVE  Cardinality(UpTo(S, i)) # Cardinality(UpTo(S, j))
  <2>1. UpTo(S, i) \in SUBSET UpTo(S, j) /\ j \in UpTo(S, j) /\ j \notin UpTo(S, i)
    <3>1. i \in Nat /\ j \in Nat /\ \A l \in S : l \in Nat
      OBVIOUS
    <3>2. \A l \in S : l <= i => l <= j
      BY <1>3, <3>1
    <3>3. j \in UpTo(S, j) /\ j \notin UpTo(S, i)
      BY <1>3, <3>1 DEF UpTo
    <3>4. UpTo(S, i) \subseteq UpTo(S, j)
      BY <3>2 DEF UpTo
    <3> QED BY <3>3, <3>4
  <2>2. Cardinality(UpTo(S, i)) = Cardinality(UpTo(S, j)) => UpTo(S, i) = UpTo(S, j)
    BY <1>2, <2>1, FS_Subset
  <2> QED BY <2>1, <2>2
<1>4. \A i, j \in S : Cardinality(UpTo(S, i)) = Cardinality(UpTo(S, j)) => i = j
  <2>1. \A i, j \in S : i < j \/ i = j \/ j < i
    OBVIOUS
  <2> QED BY <1>3, <2>1
<1> QED BY <1>1, <1>2, <1>4

\* Every rank is taken.
LEMMA Ranks ==
  ASSUME NEW S, S \subseteq Nat, IsFiniteSet(S), NEW r \in 1..Cardinality(S)
  PROVE  \E i \in S : Cardinality(UpTo(S, i)) = r
<1> DEFINE f == [i \in S |-> Cardinality(UpTo(S, i))]
<1>1. Cardinality(S) \in Nat
  BY FS_CardinalityType
<1>2. f \in Injection(S, 1..Cardinality(S))
  BY RanksDiffer DEF Injection, IsInjective
<1>3. IsFiniteSet(1..Cardinality(S)) /\ Cardinality(1..Cardinality(S)) = Cardinality(S)
  BY <1>1, FS_Interval
<1>4. f \in Surjection(S, 1..Cardinality(S))
  BY <1>2, <1>3, FS_Injection
<1>5. \E i \in S : f[i] = r
  BY <1>4 DEF Surjection
<1> QED BY <1>5

\* A finite set of positions has a last element.
LEMMA LastPosition ==
  ASSUME NEW S, S \subseteq Nat, IsFiniteSet(S), S # {}
  PROVE  \E i \in S : \A j \in S : j <= i
<1>1. Cardinality(S) \in 1..Cardinality(S)
  BY FS_CardinalityType, FS_EmptySet
<1>2. PICK i \in S : Cardinality(UpTo(S, i)) = Cardinality(S)
  BY <1>1, Ranks
<1>3. UpTo(S, i) = S
  <2>1. UpTo(S, i) \in SUBSET S
    BY DEF UpTo
  <2> QED BY <1>2, <2>1, FS_Subset
<1> QED BY <1>3 DEF UpTo

\* Any set of positions has a first one.
LEMMA FirstPosition ==
  ASSUME NEW T, T \subseteq Nat, T # {}
  PROVE  \E i \in T : \A j \in T : i <= j
<1> DEFINE R == {ss \in Nat \X Nat : ss[1] < ss[2]}
<1>1. IsWellFoundedOn(R, Nat)
  BY NatLessThanWellFounded DEF OpToRel
<1>2. PICK i \in T : \A j \in T : ~ (<<j, i>> \in R)
  <2> HIDE DEF R
  <2> QED BY <1>1, WFMin
<1>3. i \in Nat /\ \A j \in T : j \in Nat /\ ~ (j < i)
  BY <1>2
<1> QED BY <1>3

-----------------------------------------------------------------------------
(* The helpers the handlers are made of.                                    *)

\* A step that starts the timer for an acknowledgement leaves it awaited.
LEMMA Started ==
  ASSUME NEW ack, ack # "None", _startAckTimeout(ack)
  PROVE  Awaited'
BY DEF _startAckTimeout, Awaited

\* So does one that ends the transaction.
LEMMA Ended ==
  ASSUME NEW success, NEW items, _finishTransaction(success, items)
  PROVE  Awaited'
BY DEF _finishTransaction, Awaited

\* Giving up ends it too.
LEMMA GivenUp == ASSUME NEW ack, GiveUp(ack) PROVE Awaited'
BY Ended DEF GiveUp

-----------------------------------------------------------------------------
(* The steps.                                                               *)

\* A transaction that the user starts is awaited from its first message on.
LEMMA UserStep == ASSUME User PROVE Awaited'
<1>1. CASE loadFromVehicle
  BY <1>1, Started DEF loadFromVehicle, _requestList
<1>2. CASE removeAll
  BY <1>2, Started DEF removeAll, _removeAllWorker
<1>3. CASE writeArduPilotGuidedMissionItem
  BY <1>3, Started DEF writeArduPilotGuidedMissionItem
<1>4. ASSUME NEW items, _writeMissionItemsWorker(items) PROVE Awaited'
  BY <1>4, Started DEF _writeMissionItemsWorker, _writeMissionCount
<1> QED BY <1>1, <1>2, <1>3, <1>4 DEF User, writeMissionItems, generateResumeMission

\* A timeout repeats the message and restarts the timer, or ends the transaction.
LEMMA TimeoutStep == ASSUME _ackTimeout PROVE Awaited'
<1>1. CASE expectedAck = "Count" /\ Retry(_requestList)
  <2>1. CASE Exhausted
    BY <1>1, <2>1, GivenUp DEF Retry
  <2>2. CASE ~Exhausted
    BY <1>1, <2>2, Started DEF Retry, _requestList
  <2> QED BY <2>1, <2>2
<1>2. CASE /\ expectedAck = "Item"
           /\ Retry(/\ _requestNextMissionItem(toRead)
                    /\ UNCHANGED <<toRead, toWrite, missionItems, writeItems, resumeMission>>)
  <2>1. CASE Exhausted
    BY <1>2, <2>1, GivenUp DEF Retry
  <2>2. CASE ~Exhausted
    BY <1>2, <2>2, Started DEF Retry, _requestNextMissionItem
  <2> QED BY <2>1, <2>2
<1>3. CASE expectedAck = "Request" /\ toWrite = {} /\ GiveUp(expectedAck)
  BY <1>3, GivenUp
<1>4. CASE /\ expectedAck = "Request" /\ 1 \in toWrite
           /\ Retry(/\ _writeMissionCount(writeItems)
                    /\ UNCHANGED <<toRead, toWrite, missionItems, writeItems, resumeMission>>)
  <2>1. CASE Exhausted
    BY <1>4, <2>1, GivenUp DEF Retry
  <2>2. CASE ~Exhausted
    BY <1>4, <2>2, Started DEF Retry, _writeMissionCount
  <2> QED BY <2>1, <2>2
<1>5. CASE expectedAck = "Request" /\ toWrite # {} /\ 1 \notin toWrite /\ GiveUp("None")
  BY <1>5, GivenUp
<1>6. CASE /\ expectedAck = "ClearAll"
           /\ Retry(/\ _removeAllWorker
                    /\ UNCHANGED <<toRead, toWrite, missionItems, writeItems, resumeMission>>)
  <2>1. CASE Exhausted
    BY <1>6, <2>1, GivenUp DEF Retry
  <2>2. CASE ~Exhausted
    BY <1>6, <2>2, Started DEF Retry, _removeAllWorker
  <2> QED BY <2>1, <2>2
<1>7. CASE expectedAck = "Guided" /\ GiveUp("None")
  BY <1>7, GivenUp
<1> QED BY <1>1, <1>2, <1>3, <1>4, <1>5, <1>6, <1>7 DEF _ackTimeout

\* A count received is followed by a request, or ends the transaction.
LEMMA CountStep == ASSUME _handleMissionCount PROVE Awaited'
<1>1. CASE Head(down).n = 0
  BY <1>1, Ended DEF _handleMissionCount, _readTransactionComplete
<1>2. CASE Head(down).n # 0
  BY <1>2, Started DEF _handleMissionCount, _requestNextMissionItem
<1> QED BY <1>1, <1>2

\* An item received is followed by a request, or ends the transaction.
LEMMA ItemStep == ASSUME _handleMissionItem PROVE Awaited'
<1> DEFINE m == Head(down)
           left == toRead \ {m.i}
<1>1. CASE m.i \notin toRead
  BY <1>1, Started DEF _handleMissionItem, Unrequested
<1>2. CASE m.i \in toRead /\ left = {}
  BY <1>2, Ended DEF _handleMissionItem, _readTransactionComplete
<1>3. CASE m.i \in toRead /\ left # {}
  BY <1>3, Started DEF _handleMissionItem, _requestNextMissionItem
<1> QED BY <1>1, <1>2, <1>3

\* A request received is answered and the next awaited, or ends the transaction.
LEMMA RequestStep == ASSUME _handleMissionRequest PROVE Awaited'
<1>1. CASE Head(down).i > Len(writeItems)
  BY <1>1, Ended DEF _handleMissionRequest
<1>2. CASE ~(Head(down).i > Len(writeItems))
  BY <1>2, Started DEF _handleMissionRequest
<1> QED BY <1>1, <1>2

\* An acknowledgement nobody waits for finds no transaction in progress.
LEMMA AckStep == ASSUME Awaited, _handleMissionAck PROVE Awaited'
<1>1. CASE expectedAck = "None"
  BY <1>1 DEF _handleMissionAck, Awaited
<1>2. CASE expectedAck # "None"
  BY <1>2, Ended DEF _handleMissionAck
<1> QED BY <1>1, <1>2

\* Dropped messages, the vehicle and the link leave the manager's attention alone.
LEMMA OtherStep ==
  ASSUME Awaited, DropSpurious \/ Vehicle \/ Lose \/ UNCHANGED vars
  PROVE  Awaited'
<1>1. CASE DropSpurious
  BY <1>1 DEF DropSpurious, Awaited
<1>2. CASE Vehicle
  <2>1. UNCHANGED manager
    BY <1>2 DEF Vehicle, Handle, VehicleRequestList, VehicleRequest, VehicleRefuses, VehicleCount,
                VehicleItem, VehicleClearAll, VehicleGuided, VehicleAck
  <2> QED BY <2>1 DEF manager, Awaited
<1>3. CASE Lose
  BY <1>3 DEF Lose, manager, Awaited
<1>4. CASE UNCHANGED vars
  BY <1>4 DEF vars, manager, Awaited
<1> QED BY <1>1, <1>2, <1>3, <1>4

-----------------------------------------------------------------------------
\* Whatever is lost, retried, refused, asked out of order or answered late, no
\* transaction is left without an acknowledgement to wait for and a timer.
THEOREM TransactionsAreAwaited == Spec => []Awaited
<1>1. Init => Awaited
  BY DEF Init, Awaited
<1>2. Awaited /\ [Next]_vars => Awaited'
  BY UserStep, TimeoutStep, CountStep, ItemStep, RequestStep, AckStep, OtherStep
     DEF Next, Manager
<1> QED BY <1>1, <1>2, PTL DEF Spec

-----------------------------------------------------------------------------
(* Resuming a mission.                                                        *)

KeptBefore(items, at) ==
  {i \in 1..(at - 1) : (i = 1 \/ Included(items[i])) /\ ~Superseded(items, i, at)}
PrefixOf(items, at) ==
  [i \in 1..Cardinality(KeptBefore(items, at)) |->
     items[CHOOSE j \in KeptBefore(items, at) : Cardinality(UpTo(KeptBefore(items, at), j)) = i]]

\* A resumed mission is what is kept of the items before the one adjusted to, and all from there on.
LEMMA ResumeSplits ==
  ASSUME NEW items, NEW k
  PROVE  ResumeMission(items, k) =
           PrefixOf(items, Adjusted(items, k)) \o SubSeq(items, Adjusted(items, k), Len(items))
BY DEF ResumeMission, PrefixOf, KeptBefore, UpTo

\* A mission is resumed at the item asked for, or at one before it.
LEMMA Adjusts ==
  ASSUME NEW items, NEW k \in Nat, k >= 1
  PROVE  Adjusted(items, k) \in 1..k
<1>1. CASE FliesThrough(items[k])
  BY <1>1 DEF Adjusted
<1>2. CASE ~FliesThrough(items[k])
  <2> DEFINE S == {j \in 1..k : j = 1 \/ FliesThrough(items[j])}
  <2>1. S \subseteq Nat /\ IsFiniteSet(S) /\ S # {}
    <3>1. S \in SUBSET (1..k) /\ 1 \in S /\ IsFiniteSet(1..k)
      BY FS_Interval
    <3>2. 1..k \subseteq Nat
      OBVIOUS
    <3> QED BY <3>1, <3>2, FS_Subset
  <2>2. PICK j \in S : \A l \in S : l <= j
    BY <2>1, LastPosition
  <2>3. \A l \in (j + 1)..(k - 1) : ~FliesThrough(items[l])
    <3>1. ASSUME NEW l \in (j + 1)..(k - 1) PROVE ~FliesThrough(items[l])
      <4>1. j \in 1..k
        OBVIOUS
      <4>2. l \in 1..k /\ ~(l <= j)
        BY <4>1
      <4> QED BY <2>2, <4>2
    <3> QED BY <3>1
  <2>4. \E m \in 1..k : /\ m = 1 \/ FliesThrough(items[m])
                        /\ \A l \in (m + 1)..(k - 1) : ~FliesThrough(items[l])
    BY <2>3
  <2> QED BY <1>2, <2>4 DEF Adjusted
<1> QED BY <1>1, <1>2

\* The items kept before it, in their order.
LEMMA PrefixKeeps ==
  ASSUME NEW S, NEW items \in Seq(S), NEW at \in 1..Len(items)
  PROVE  LET kept == KeptBefore(items, at)  prefix == PrefixOf(items, at) IN
         /\ prefix \in Seq(S) /\ Len(prefix) = Cardinality(kept)
         /\ DOMAIN prefix = 1..Cardinality(kept) /\ Cardinality(kept) \in Nat
         /\ \A i \in DOMAIN prefix : \E j \in kept :
              Cardinality(UpTo(kept, j)) = i /\ prefix[i] = items[j]
         /\ \A j \in kept : /\ Cardinality(UpTo(kept, j)) \in DOMAIN prefix
                            /\ prefix[Cardinality(UpTo(kept, j))] = items[j]
<1> DEFINE kept == KeptBefore(items, at)
           prefix == PrefixOf(items, at)
           rank(j) == Cardinality(UpTo(kept, j))
<1>1. at \in Nat /\ Len(items) \in Nat /\ DOMAIN items = 1..Len(items)
  BY LenProperties
<1>2. kept \subseteq Nat /\ IsFiniteSet(kept) /\ kept \subseteq DOMAIN items
  <2>1. kept \in SUBSET (1..(at - 1)) /\ IsFiniteSet(1..(at - 1))
    <3>1. 1 \in Int /\ at - 1 \in Int
      BY <1>1
    <3>2. IsFiniteSet(1..(at - 1))
      BY <3>1, FS_Interval
    <3> QED BY <3>2 DEF KeptBefore
  <2>2. 1..(at - 1) \subseteq Nat /\ 1..(at - 1) \subseteq DOMAIN items
    BY <1>1
  <2> QED BY <2>1, <2>2, FS_Subset
<1>3. Cardinality(kept) \in Nat
  BY <1>2, FS_CardinalityType
<1>4. prefix = [i \in 1..Cardinality(kept) |-> items[CHOOSE j \in kept : rank(j) = i]]
  BY DEF PrefixOf
<1> HIDE DEF kept, prefix
<1>5. ASSUME NEW i \in 1..Cardinality(kept)
      PROVE  \E j \in kept : rank(j) = i /\ prefix[i] = items[j]
  <2>1. \E j \in kept : rank(j) = i
    BY <1>2, Ranks
  <2> QED BY <1>4, <2>1
<1>6. prefix \in Seq(S) /\ Len(prefix) = Cardinality(kept) /\ DOMAIN prefix = 1..Cardinality(kept)
  <2>1. \A i \in 1..Cardinality(kept) : prefix[i] \in S
    BY <1>1, <1>2, <1>5
  <2>2. prefix \in [1..Cardinality(kept) -> S]
    BY <1>4, <2>1
  <2> QED BY <1>3, <2>2, IsASeq, LenProperties
<1>7. ASSUME NEW j \in kept
      PROVE  rank(j) \in 1..Cardinality(kept) /\ prefix[rank(j)] = items[j]
  <2>1. rank(j) \in 1..Cardinality(kept)
    BY <1>2, RanksDiffer
  <2>2. PICK l \in kept : rank(l) = rank(j) /\ prefix[rank(j)] = items[l]
    BY <1>5, <2>1
  <2>3. l = j
    BY <1>2, <2>2, RanksDiffer
  <2> QED BY <2>1, <2>2, <2>3
<1> QED BY <1>3, <1>5, <1>6, <1>7 DEF kept, prefix


\* What ResumeRestores says of one mission and one of its items.
RestoredAt(items, k) ==
  LET at == Adjusted(items, k)
      before == SubSeq(items, 1, at - 1)
      resumed == ResumeMission(items, k)
      prefix == SubSeq(resumed, 1, Len(resumed) - (Len(items) - at + 1))
  IN /\ Head(items).cmd = "home" => Head(resumed) = Head(items)
     /\ SubSeq(resumed, Len(prefix) + 1, Len(resumed)) = SubSeq(items, at, Len(items))
     /\ \A cmd \in {"roi", "mode", "camera"} :
          {prefix[i] : i \in {j \in DOMAIN prefix : prefix[j].cmd = cmd}}
            = {before[i] : i \in LastOf(before, cmd)}

\* It holds wherever a mission is resumed.
LEMMA ResumeKeeps ==
  ASSUME NEW S, NEW items \in Seq(S), NEW k \in 1..Len(items), k > 1
  PROVE  ResumeMission(items, k) \in Seq(S) /\ RestoredAt(items, k)
<1> DEFINE at == Adjusted(items, k)
           before == SubSeq(items, 1, at - 1)
           resumed == ResumeMission(items, k)
           kept == KeptBefore(items, at)
           a == PrefixOf(items, at)
           b == SubSeq(items, at, Len(items))
           n == Cardinality(kept)
           m == Len(items) - at + 1
<1>1. Len(items) \in Nat /\ DOMAIN items = 1..Len(items) /\ k \in Nat /\ k >= 1 /\ items # <<>>
  BY LenProperties, EmptySeq
<1>2. at \in 1..Len(items) /\ at \in Nat
  <2>1. at \in 1..k
    BY <1>1, Adjusts
  <2> HIDE DEF at
  <2> QED BY <1>1, <2>1
<1>3. resumed = a \o b
  BY ResumeSplits
<1>4. /\ a \in Seq(S) /\ Len(a) = n /\ DOMAIN a = 1..n /\ n \in Nat
      /\ \A i \in DOMAIN a : \E j \in kept : Cardinality(UpTo(kept, j)) = i /\ a[i] = items[j]
      /\ \A j \in kept : Cardinality(UpTo(kept, j)) \in DOMAIN a /\ a[Cardinality(UpTo(kept, j))] = items[j]
  BY <1>2, PrefixKeeps
<1> HIDE DEF at, resumed, a
<1>5. /\ b \in Seq(S) /\ Len(b) = m /\ m \in Nat /\ m >= 1
      /\ \A i \in 1..m : b[i] = items[at + i - 1]
  <2>1. /\ at \in Int /\ Len(items) \in Int /\ at <= Len(items) /\ m \in Nat /\ m >= 1
        /\ \A i \in at..Len(items) : items[i] \in S
    BY <1>1, <1>2, ElementOfSeq
  <2> QED BY <2>1, SubSeqProperties
<1>6. /\ before \in Seq(S) /\ DOMAIN before = 1..(at - 1) /\ Len(before) = at - 1
      /\ \A i \in 1..(at - 1) : before[i] = items[i]
  <2>1. /\ 1 \in Int /\ at - 1 \in Int /\ \A i \in 1..(at - 1) : items[i] \in S
    BY <1>1, <1>2, ElementOfSeq
  <2>2. /\ before \in Seq(S) /\ Len(before) = IF 1 <= at - 1 THEN (at - 1) - 1 + 1 ELSE 0
        /\ \A i \in 1..((at - 1) - 1 + 1) : before[i] = items[1 + i - 1]
    BY <2>1, SubSeqProperties
  <2> HIDE DEF before
  <2>3. Len(before) = at - 1 /\ \A i \in 1..(at - 1) : before[i] = items[i]
    BY <1>2, <2>2
  <2> QED BY <2>2, <2>3, LenProperties
<1> HIDE DEF b, before
<1>7. /\ resumed \in Seq(S) /\ Len(resumed) = n + m /\ resumed # <<>>
      /\ \A i \in 1..(n + m) : resumed[i] = IF i <= n THEN a[i] ELSE b[i - n]
  <2>1. /\ resumed \in Seq(S) /\ Len(resumed) = Len(a) + Len(b)
        /\ \A i \in 1..(Len(a) + Len(b)) : resumed[i] = IF i <= Len(a) THEN a[i] ELSE b[i - Len(a)]
    BY <1>3, <1>4, <1>5, ConcatProperties
  <2> HIDE DEF m, n, kept
  <2>2. Len(a) + Len(b) = n + m /\ n + m > 0
    BY <1>4, <1>5
  <2> QED BY <1>4, <1>5, <2>1, <2>2, EmptySeq
<1>8. SubSeq(resumed, 1, n) = a
  <2>1. /\ 1 \in Int /\ n \in Int /\ \A i \in 1..n : resumed[i] \in S
    <3> HIDE DEF m, n, kept
    <3> QED BY <1>4, <1>5, <1>7, ElementOfSeq
  <2>2. /\ SubSeq(resumed, 1, n) \in Seq(S)
        /\ Len(SubSeq(resumed, 1, n)) = IF 1 <= n THEN n - 1 + 1 ELSE 0
        /\ \A i \in 1..(n - 1 + 1) : SubSeq(resumed, 1, n)[i] = resumed[1 + i - 1]
    BY <2>1, SubSeqProperties
  <2> HIDE DEF m, n, kept
  <2>3. /\ Len(SubSeq(resumed, 1, n)) = n
        /\ \A i \in 1..n : SubSeq(resumed, 1, n)[i] = a[i]
    BY <1>4, <1>5, <1>7, <2>2
  <2> QED BY <1>4, <2>2, <2>3, SeqEqual
<1>9. SubSeq(resumed, n + 1, n + m) = b
  <2>1. /\ n + 1 \in Int /\ n + m \in Int /\ \A i \in (n + 1)..(n + m) : resumed[i] \in S
    <3> HIDE DEF m, n, kept
    <3> QED BY <1>4, <1>5, <1>7, ElementOfSeq
  <2>2. /\ SubSeq(resumed, n + 1, n + m) \in Seq(S)
        /\ Len(SubSeq(resumed, n + 1, n + m)) = IF n + 1 <= n + m THEN (n + m) - (n + 1) + 1 ELSE 0
        /\ \A i \in 1..((n + m) - (n + 1) + 1) :
             SubSeq(resumed, n + 1, n + m)[i] = resumed[(n + 1) + i - 1]
    BY <2>1, SubSeqProperties
  <2> HIDE DEF m, n, kept
  <2>3. /\ Len(SubSeq(resumed, n + 1, n + m)) = m
        /\ \A i \in 1..m : SubSeq(resumed, n + 1, n + m)[i] = resumed[n + i]
    <3>1. n + 1 <= n + m /\ (n + m) - (n + 1) + 1 = m /\ \A i \in 1..m : (n + 1) + i - 1 = n + i
      BY <1>4, <1>5
    <3>2. Len(SubSeq(resumed, n + 1, n + m)) = m
      BY <2>2, <3>1
    <3> QED BY <2>2, <3>1, <3>2
  <2>4. \A i \in 1..m : n + i \in 1..(n + m) /\ ~(n + i <= n) /\ (n + i) - n = i
    BY <1>4, <1>5
  <2>5. \A i \in 1..m : resumed[n + i] = b[i]
    BY <1>7, <2>4
  <2> QED BY <1>5, <2>2, <2>3, <2>5, SeqEqual
<1>10. ASSUME Head(items).cmd = "home" PROVE Head(resumed) = Head(items)
  <2>1. Head(items) = items[1] /\ Head(resumed) = resumed[1]
    BY <1>1, <1>7, TakingHead
  <2>2. CASE at = 1
    <3>1. kept = {}
      BY <2>2 DEF KeptBefore
    <3>2. n = 0
      BY <3>1, FS_EmptySet
    <3>3. resumed[1] = b[1] /\ b[1] = items[1]
      <4> HIDE DEF m, n, kept
      <4>1. 1 \in 1..(n + m) /\ ~(1 <= n) /\ 1 - n = 1 /\ 1 \in 1..m /\ at + 1 - 1 = 1
        BY <1>4, <1>5, <2>2, <3>2
      <4> QED BY <1>5, <1>7, <4>1
    <3> QED BY <2>1, <3>3
  <2>3. CASE at # 1
    <3>1. 1 \in kept /\ \A j \in kept : j >= 1 /\ j \in Nat
      <4>1. 1 \in 1..(at - 1)
        BY <1>2, <2>3
      <4>2. ~Superseded(items, 1, at)
        BY <1>10, <2>1 DEF Superseded
      <4> QED BY <1>2, <4>1, <4>2 DEF KeptBefore
    <3>2. UpTo(kept, 1) = {1}
      <4> HIDE DEF kept
      <4> QED BY <3>1 DEF UpTo
    <3>3. Cardinality(UpTo(kept, 1)) = 1
      BY <3>2, FS_Singleton
    <3>4. 1 \in DOMAIN a /\ a[1] = items[1]
      BY <1>4, <3>1, <3>3
    <3>5. resumed[1] = a[1]
      <4> HIDE DEF m, n, kept
      <4>1. 1 \in 1..(n + m) /\ 1 <= n
        BY <1>4, <1>5, <3>4
      <4> QED BY <1>7, <4>1
    <3> QED BY <2>1, <3>4, <3>5
  <2> QED BY <2>2, <2>3
<1>11. ASSUME NEW cmd \in {"roi", "mode", "camera"}
       PROVE  {a[i] : i \in {j \in DOMAIN a : a[j].cmd = cmd}} = {before[i] : i \in LastOf(before, cmd)}
  <2>1. \A j \in 1..(at - 1) :
          j \in kept /\ items[j].cmd = cmd <=> j \in LastOf(before, cmd)
    <3>1. ASSUME NEW j \in 1..(at - 1), items[j].cmd = cmd
          PROVE  ~Superseded(items, j, at) <=> \A l \in (j + 1)..(at - 1) : items[l].cmd # cmd
      BY <3>1 DEF Superseded
    <3>2. \A j \in 1..(at - 1) : \A l \in (j + 1)..(at - 1) : l \in 1..(at - 1)
      BY <1>2
    <3>3. \A j \in 1..(at - 1) : j \in LastOf(before, cmd) <=>
            items[j].cmd = cmd /\ \A l \in (j + 1)..(at - 1) : items[l].cmd # cmd
      BY <1>6, <3>2 DEF LastOf
    <3>4. \A j \in 1..(at - 1) : items[j].cmd = cmd => Included(items[j])
      BY DEF Included
    <3> QED BY <3>1, <3>3, <3>4 DEF KeptBefore
  <2>2. kept \subseteq 1..(at - 1) /\ LastOf(before, cmd) \subseteq 1..(at - 1)
    BY <1>6 DEF KeptBefore, LastOf
  <2> HIDE DEF kept, n, m
  <2>3. ASSUME NEW i \in DOMAIN a, a[i].cmd = cmd
        PROVE  \E j \in LastOf(before, cmd) : a[i] = before[j]
    <3>1. PICK j \in kept : a[i] = items[j]
      BY <1>4
    <3> QED BY <1>6, <2>1, <2>2, <2>3, <3>1
  <2>4. ASSUME NEW j \in LastOf(before, cmd)
        PROVE  \E i \in DOMAIN a : a[i].cmd = cmd /\ a[i] = before[j]
    <3>1. j \in kept /\ items[j].cmd = cmd /\ before[j] = items[j]
      BY <1>6, <2>1, <2>2
    <3> QED BY <1>4, <3>1
  <2> QED BY <2>3, <2>4
<1>12. Len(resumed) - (Len(items) - at + 1) = n
  <2>1. Len(resumed) - m = n
    <3> HIDE DEF m, n, kept
    <3> QED BY <1>4, <1>5, <1>7
  <2> QED BY <2>1
<1> DEFINE prefix == SubSeq(resumed, 1, Len(resumed) - (Len(items) - at + 1))
<1>13. prefix = a
  BY <1>8, <1>12
<1>14. SubSeq(resumed, Len(prefix) + 1, Len(resumed)) = b
  BY <1>4, <1>7, <1>9, <1>13
<1>15. \A cmd \in {"roi", "mode", "camera"} :
         {prefix[i] : i \in {j \in DOMAIN prefix : prefix[j].cmd = cmd}}
           = {before[i] : i \in LastOf(before, cmd)}
  <2> HIDE DEF prefix
  <2> SUFFICES ASSUME NEW cmd \in {"roi", "mode", "camera"}
               PROVE  {prefix[i] : i \in {j \in DOMAIN prefix : prefix[j].cmd = cmd}}
                        = {before[i] : i \in LastOf(before, cmd)}
    OBVIOUS
  <2> QED BY <1>11, <1>13
<1> HIDE DEF prefix
<1> QED BY <1>7, <1>10, <1>14, <1>15 DEF at, before, resumed, b, prefix, RestoredAt

-----------------------------------------------------------------------------
(* The types.  A manager that expects an item has one to ask for, unless it has *)
(* used up its retries: it then gives up on the next timeout.                   *)

Wanted == expectedAck = "Item" => toRead # {} \/ retryCount > MaxRetry
Types == TypeOK /\ Wanted /\ IsFiniteSet(DOMAIN onVehicle)

ToVehicle == Message \cup [type : {"list", "clear", "guided"}]

ControlTypes ==
  /\ transaction \in {"None", "Read", "Write", "RemoveAll"}
  /\ expectedAck \in {"None", "Count", "Item", "Request", "ClearAll", "Guided"}
  /\ retryCount \in 0..(MaxRetry + 1) /\ timer \in BOOLEAN
PlanTypes ==
  /\ toRead \subseteq Index /\ toWrite \subseteq DOMAIN writeItems
  /\ missionItems \in Seq(Item) /\ writeItems \in Seq(Item) /\ resumeMission \in BOOLEAN
  /\ told \in {"none", "ok", "error"}
LinkTypes == up \in Seq(ToVehicle) /\ down \in Seq(Message)
VehicleTypes ==
  /\ failureMode \in FailureModes
  /\ DOMAIN onVehicle \subseteq Index /\ onVehicle \in [DOMAIN onVehicle -> Item]
  /\ writeCount \in Nat /\ writeIndex \in Nat /\ IsFiniteSet(DOMAIN onVehicle)
HistoryTypes == asked \in Seq({"read", "write", "removeAll", "guided"}) /\ late \in BOOLEAN

\* The invariant in groups of variables that steps leave alone together.
LEMMA TypesSplit ==
  /\ Types <=> ControlTypes /\ PlanTypes /\ LinkTypes /\ VehicleTypes /\ HistoryTypes /\ Wanted
  /\ Types' <=> /\ ControlTypes' /\ PlanTypes' /\ LinkTypes' /\ VehicleTypes' /\ HistoryTypes'
                /\ Wanted'
<1>1. Types <=> ControlTypes /\ PlanTypes /\ LinkTypes /\ VehicleTypes /\ HistoryTypes /\ Wanted
  BY DEF Types, TypeOK, ControlTypes, PlanTypes, LinkTypes, VehicleTypes, HistoryTypes, ToVehicle
<1>2. Types' <=> /\ ControlTypes' /\ PlanTypes' /\ LinkTypes' /\ VehicleTypes' /\ HistoryTypes'
                 /\ Wanted'
  BY DEF Types, TypeOK, ControlTypes, PlanTypes, LinkTypes, VehicleTypes, HistoryTypes, ToVehicle
<1> QED BY <1>1, <1>2

\* Every mission the user uploads is one of items.
LEMMA MissionsAreItems == \A m \in Missions : m \in Seq(Item)
<1>1. ASSUME NEW m \in Missions PROVE m \in Seq(Item)
  <2>1. m \in Seq(Range(m)) /\ Range(m) \subseteq Item
    BY MissionAssumption DEF Item
  <2> QED BY <2>1, SeqMonotonic
<1> QED BY <1>1

\* What the manager sends is a message of the protocol.
LEMMA SendTypes ==
  ASSUME LinkTypes, NEW m \in ToVehicle, Send(m)
  PROVE  up' \in Seq(ToVehicle)
BY AppendProperties DEF LinkTypes, Send

\* What it receives is one, too.
LEMMA ReceiveTypes ==
  ASSUME LinkTypes, NEW type, Receive(type)
  PROVE  /\ Head(down) \in Message /\ Head(down).type = type /\ down' \in Seq(Message)
         /\ type = "item" => Head(down) \in ItemMessage
         /\ type = "request" => Head(down) \in RequestMessage
         /\ type = "count" => Head(down) \in CountMessage
         /\ type = "ack" => Head(down) \in AckMessage
         /\ UNCHANGED <<asked, late, vehicle>>
<1>1. /\ Head(down) \in Message /\ Head(down).type = type /\ down' \in Seq(Message)
      /\ UNCHANGED <<asked, late, vehicle>>
  BY HeadTailProperties DEF LinkTypes, Receive
<1>2. \A m \in Message : /\ m.type = "item" => m \in ItemMessage
                         /\ m.type = "request" => m \in RequestMessage
                         /\ m.type = "count" => m \in CountMessage
                         /\ m.type = "ack" => m \in AckMessage
  BY DEF Message, ItemMessage, RequestMessage, CountMessage, AckMessage
<1> QED BY <1>1, <1>2

\* The end of a transaction leaves nothing to transfer.
LEMMA FinishTypes ==
  ASSUME ControlTypes, PlanTypes, NEW success \in BOOLEAN, NEW items \in Seq(Item),
         _finishTransaction(success, items)
  PROVE  PlanTypes' /\ transaction' = "None" /\ toRead' = {} /\ toWrite' = {}
<1>1. missionItems' \in Seq(Item) /\ writeItems' \in Seq(Item)
  <2>1. <<>> \in Seq(Item)
    BY EmptySeq
  <2> QED BY <2>1 DEF _finishTransaction, Finished, PlanTypes
<1>2. /\ toRead' = {} /\ toWrite' = {} /\ transaction' = "None" /\ resumeMission' = FALSE
      /\ told' \in {"none", "ok", "error"}
  BY DEF _finishTransaction, PlanTypes
<1> QED BY <1>1, <1>2 DEF PlanTypes

\* The next item asked for is one of those left.
LEMMA RequestTypes ==
  ASSUME LinkTypes, NEW left, left \subseteq Index, left # {}, _requestNextMissionItem(left)
  PROVE  up' \in Seq(ToVehicle) /\ expectedAck' = "Item" /\ timer' = TRUE
<1>1. \E i \in left : \A j \in left : i <= j
  BY FirstPosition DEF Index
<1>2. (CHOOSE i \in left : \A j \in left : i <= j) \in Index
  BY <1>1
<1>3. [type |-> "request", i |-> CHOOSE i \in left : \A j \in left : i <= j] \in ToVehicle
  BY <1>2 DEF ToVehicle, Message, RequestMessage
<1> QED BY <1>3, SendTypes DEF _requestNextMissionItem, _startAckTimeout

\* A list of the missions is asked for afresh.
LEMMA ListTypes ==
  ASSUME LinkTypes, PlanTypes, _requestList, told' \in {"none", "ok", "error"}
  PROVE  up' \in Seq(ToVehicle) /\ PlanTypes' /\ expectedAck' = "Count" /\ timer' = TRUE
<1>1. up' \in Seq(ToVehicle)
  <2>1. [type |-> "list"] \in ToVehicle
    BY DEF ToVehicle
  <2> QED BY <2>1, SendTypes DEF _requestList
<1>2. missionItems' \in Seq(Item)
  BY EmptySeq DEF _requestList
<1> QED BY <1>1, <1>2 DEF _requestList, _startAckTimeout, PlanTypes

\* Sending the count starts the wait for a request.
LEMMA CountTypes ==
  ASSUME LinkTypes, NEW items \in Seq(Item), _writeMissionCount(items)
  PROVE  up' \in Seq(ToVehicle) /\ expectedAck' = "Request" /\ timer' = TRUE
<1>1. [type |-> "count", n |-> Len(items)] \in ToVehicle
  BY LenProperties DEF ToVehicle, Message, CountMessage
<1> QED BY <1>1, SendTypes DEF _writeMissionCount, _startAckTimeout

\* Sending the removal starts the wait for its ack.
LEMMA ClearTypes ==
  ASSUME LinkTypes, _removeAllWorker
  PROVE  up' \in Seq(ToVehicle) /\ expectedAck' = "ClearAll" /\ timer' = TRUE
<1>1. [type |-> "clear"] \in ToVehicle
  BY DEF ToVehicle
<1> QED BY <1>1, SendTypes DEF _removeAllWorker, _startAckTimeout

-----------------------------------------------------------------------------
(* The types, step by step.                                                   *)

\* The start of a transaction leaves the vehicle alone, and records what was asked.
LEMMA BeginTypes ==
  ASSUME Types, NEW kind \in {"read", "write", "removeAll", "guided"},
         NEW type \in {"Read", "Write", "RemoveAll"}, Begin(kind, type)
  PROVE  /\ HistoryTypes' /\ VehicleTypes' /\ down' \in Seq(Message)
         /\ transaction' \in {"None", "Read", "Write", "RemoveAll"}
         /\ told' \in {"none", "ok", "error"}
<1>1. asked' \in Seq({"read", "write", "removeAll", "guided"})
  BY TypesSplit, AppendProperties DEF Begin, HistoryTypes
<1>2. UNCHANGED <<late, down, failureMode, onVehicle, writeCount, writeIndex>>
      /\ transaction' = type /\ told' = "none"
  BY DEF Begin, vehicle
<1> QED BY <1>1, <1>2, TypesSplit DEF HistoryTypes, VehicleTypes, LinkTypes

\* What the user asks for keeps the types.
LEMMA UserTypes == ASSUME Types, User PROVE Types'
<1>0. 0 \in 0..(MaxRetry + 1)
  BY MissionAssumption
<1>1. CASE loadFromVehicle
  <2>1. Begin("read", "Read") /\ retryCount' = 0 /\ _requestList
    BY <1>1 DEF loadFromVehicle
  <2>2. /\ HistoryTypes' /\ VehicleTypes' /\ down' \in Seq(Message)
        /\ transaction' \in {"None", "Read", "Write", "RemoveAll"}
        /\ told' \in {"none", "ok", "error"}
    BY <2>1, BeginTypes
  <2>3. up' \in Seq(ToVehicle) /\ PlanTypes' /\ expectedAck' = "Count" /\ timer' = TRUE
    BY <2>1, <2>2, ListTypes, TypesSplit
  <2>4. ControlTypes' /\ LinkTypes' /\ Wanted'
    BY <1>0, <2>1, <2>2, <2>3 DEF ControlTypes, LinkTypes, Wanted
  <2> QED BY <2>2, <2>3, <2>4, TypesSplit
<1>2. CASE removeAll
  <2>1. /\ Begin("removeAll", "RemoveAll") /\ retryCount' = 0 /\ missionItems' = <<>>
        /\ _removeAllWorker /\ UNCHANGED <<toRead, toWrite, writeItems, resumeMission>>
    BY <1>2 DEF removeAll
  <2>2. /\ HistoryTypes' /\ VehicleTypes' /\ down' \in Seq(Message)
        /\ transaction' \in {"None", "Read", "Write", "RemoveAll"}
        /\ told' \in {"none", "ok", "error"}
    BY <2>1, BeginTypes
  <2>3. up' \in Seq(ToVehicle) /\ expectedAck' = "ClearAll" /\ timer' = TRUE
    BY <2>1, ClearTypes, TypesSplit
  <2>4. PlanTypes'
    BY <2>1, <2>2, EmptySeq, TypesSplit DEF PlanTypes
  <2>5. ControlTypes' /\ LinkTypes' /\ Wanted'
    BY <1>0, <2>1, <2>2, <2>3 DEF ControlTypes, LinkTypes, Wanted
  <2> QED BY <2>2, <2>4, <2>5, TypesSplit
<1>3. CASE writeArduPilotGuidedMissionItem
  <2>1. /\ Begin("guided", "Write") /\ Send([type |-> "guided"]) /\ _startAckTimeout("Guided")
        /\ UNCHANGED <<retryCount, toRead, toWrite, missionItems, writeItems, resumeMission>>
    BY <1>3 DEF writeArduPilotGuidedMissionItem
  <2>2. /\ HistoryTypes' /\ VehicleTypes' /\ down' \in Seq(Message)
        /\ transaction' \in {"None", "Read", "Write", "RemoveAll"}
        /\ told' \in {"none", "ok", "error"}
    BY <2>1, BeginTypes
  <2>3. up' \in Seq(ToVehicle)
    <3>1. [type |-> "guided"] \in ToVehicle
      BY DEF ToVehicle
    <3> QED BY <2>1, <3>1, SendTypes, TypesSplit
  <2>4. PlanTypes'
    BY <2>1, <2>2, TypesSplit DEF PlanTypes
  <2>5. ControlTypes' /\ LinkTypes' /\ Wanted'
    BY <2>1, <2>2, <2>3, TypesSplit DEF ControlTypes, LinkTypes, Wanted, _startAckTimeout
  <2> QED BY <2>2, <2>4, <2>5, TypesSplit
<1>4. ASSUME NEW items \in Seq(Item), _writeMissionItemsWorker(items), resumeMission' \in BOOLEAN
      PROVE  Types'
  <2>1. /\ Begin("write", "Write") /\ writeItems' = items /\ toWrite' = DOMAIN items
        /\ retryCount' = 0 /\ _writeMissionCount(items) /\ UNCHANGED <<toRead, missionItems>>
    BY <1>4 DEF _writeMissionItemsWorker
  <2>2. /\ HistoryTypes' /\ VehicleTypes' /\ down' \in Seq(Message)
        /\ transaction' \in {"None", "Read", "Write", "RemoveAll"}
        /\ told' \in {"none", "ok", "error"}
    BY <2>1, BeginTypes
  <2>3. up' \in Seq(ToVehicle) /\ expectedAck' = "Request" /\ timer' = TRUE
    BY <2>1, CountTypes, TypesSplit
  <2>4. PlanTypes'
    BY <1>4, <2>1, <2>2, TypesSplit DEF PlanTypes
  <2>5. ControlTypes' /\ LinkTypes' /\ Wanted'
    BY <1>0, <2>1, <2>2, <2>3 DEF ControlTypes, LinkTypes, Wanted
  <2> QED BY <2>2, <2>4, <2>5, TypesSplit
<1>5. ASSUME NEW m \in Missions, writeMissionItems(m) PROVE Types'
  <2>1. m \in Seq(Item) /\ resumeMission' \in BOOLEAN
    BY <1>5, MissionsAreItems, TypesSplit DEF writeMissionItems, PlanTypes
  <2> QED BY <1>4, <1>5, <2>1 DEF writeMissionItems
<1>6. ASSUME NEW k \in 1..Len(missionItems), generateResumeMission(k) PROVE Types'
  <2>1. /\ k \in 2..(Len(missionItems) - 2) /\ resumeMission' = TRUE
        /\ _writeMissionItemsWorker(ResumeMission(missionItems, k))
    BY <1>6 DEF generateResumeMission
  <2>2. missionItems \in Seq(Item) /\ k > 1
    BY <2>1, TypesSplit DEF PlanTypes
  <2>3. ResumeMission(missionItems, k) \in Seq(Item)
    BY <2>2, ResumeKeeps
  <2> QED BY <1>4, <2>1, <2>3
<1> QED BY <1>1, <1>2, <1>3, <1>5, <1>6 DEF User

\* So does a timeout, in each state of the transaction.
LEMMA TimeoutTypes == ASSUME Types, _ackTimeout PROVE Types'
<1> DEFINE Same == UNCHANGED <<toRead, toWrite, missionItems, writeItems, resumeMission>>
<1>1. HistoryTypes' /\ VehicleTypes' /\ down' \in Seq(Message)
  BY TypesSplit DEF _ackTimeout, HistoryTypes, VehicleTypes, LinkTypes, vehicle
<1>2. /\ ControlTypes /\ PlanTypes /\ LinkTypes /\ Wanted /\ toRead \subseteq Index
      /\ missionItems \in Seq(Item) /\ writeItems \in Seq(Item) /\ FALSE \in BOOLEAN
  BY TypesSplit DEF PlanTypes
<1>3. ASSUME NEW ack \in {"None", expectedAck}, GiveUp(ack),
             expectedAck = "Item" => retryCount > MaxRetry
      PROVE  Types'
  <2>1. /\ expectedAck' = ack /\ timer' = FALSE /\ UNCHANGED <<retryCount, up>>
        /\ _finishTransaction(FALSE, missionItems)
    BY <1>3 DEF GiveUp
  <2>2. PlanTypes' /\ transaction' = "None"
    BY <1>2, <2>1, FinishTypes
  <2>3. ControlTypes' /\ LinkTypes' /\ Wanted'
    BY <1>1, <1>2, <1>3, <2>1, <2>2 DEF ControlTypes, LinkTypes, Wanted
  <2> QED BY <1>1, <2>2, <2>3, TypesSplit
<1>4. ASSUME ~Exhausted, retryCount' = retryCount + 1, UNCHANGED <<transaction, told>>,
             up' \in Seq(ToVehicle), timer' = TRUE, PlanTypes',
             expectedAck' \in {"Count", "Item", "Request", "ClearAll"},
             expectedAck' = "Item" => toRead' # {}
      PROVE  Types'
  <2>1. retryCount' \in 0..(MaxRetry + 1)
    BY <1>2, <1>4, MissionAssumption DEF Exhausted, ControlTypes
  <2>2. ControlTypes' /\ LinkTypes' /\ Wanted'
    BY <1>1, <1>2, <1>4, <2>1 DEF ControlTypes, LinkTypes, Wanted
  <2> QED BY <1>1, <1>4, <2>2, TypesSplit
<1>5. CASE expectedAck = "Count" /\ Retry(_requestList)
  <2>1. CASE Exhausted
    BY <1>3, <1>5, <2>1 DEF Retry
  <2>2. CASE ~Exhausted
    <3>1. retryCount' = retryCount + 1 /\ _requestList /\ UNCHANGED <<transaction, told>>
      BY <1>5, <2>2 DEF Retry
    <3>2. up' \in Seq(ToVehicle) /\ PlanTypes' /\ expectedAck' = "Count" /\ timer' = TRUE
      BY <1>2, <3>1, ListTypes DEF PlanTypes
    <3> QED BY <1>4, <2>2, <3>1, <3>2
  <2> QED BY <2>1, <2>2
<1>6. CASE expectedAck = "Item" /\ Retry(_requestNextMissionItem(toRead) /\ Same)
  <2>1. CASE Exhausted
    BY <1>3, <1>6, <2>1 DEF Retry, Exhausted
  <2>2. CASE ~Exhausted
    <3>1. /\ retryCount' = retryCount + 1 /\ _requestNextMissionItem(toRead) /\ Same
          /\ UNCHANGED <<transaction, told>>
      BY <1>6, <2>2 DEF Retry
    <3>2. toRead # {}
      BY <1>2, <1>6, <2>2 DEF Wanted, Exhausted
    <3>3. up' \in Seq(ToVehicle) /\ expectedAck' = "Item" /\ timer' = TRUE
      BY <1>2, <3>1, <3>2, RequestTypes
    <3>4. PlanTypes'
      BY <1>2, <3>1 DEF PlanTypes
    <3> QED BY <1>4, <2>2, <3>1, <3>2, <3>3, <3>4
  <2> QED BY <2>1, <2>2
<1>7. CASE expectedAck = "Request" /\ Retry(_writeMissionCount(writeItems) /\ Same)
  <2>1. CASE Exhausted
    BY <1>3, <1>7, <2>1 DEF Retry
  <2>2. CASE ~Exhausted
    <3>1. /\ retryCount' = retryCount + 1 /\ _writeMissionCount(writeItems) /\ Same
          /\ UNCHANGED <<transaction, told>>
      BY <1>7, <2>2 DEF Retry
    <3>2. up' \in Seq(ToVehicle) /\ expectedAck' = "Request" /\ timer' = TRUE
      BY <1>2, <3>1, CountTypes
    <3>3. PlanTypes'
      BY <1>2, <3>1 DEF PlanTypes
    <3> QED BY <1>4, <2>2, <3>1, <3>2, <3>3
  <2> QED BY <2>1, <2>2
<1>8. CASE expectedAck = "ClearAll" /\ Retry(_removeAllWorker /\ Same)
  <2>1. CASE Exhausted
    BY <1>3, <1>8, <2>1 DEF Retry
  <2>2. CASE ~Exhausted
    <3>1. /\ retryCount' = retryCount + 1 /\ _removeAllWorker /\ Same
          /\ UNCHANGED <<transaction, told>>
      BY <1>8, <2>2 DEF Retry
    <3>2. up' \in Seq(ToVehicle) /\ expectedAck' = "ClearAll" /\ timer' = TRUE
      BY <1>2, <3>1, ClearTypes
    <3>3. PlanTypes'
      BY <1>2, <3>1 DEF PlanTypes
    <3> QED BY <1>4, <2>2, <3>1, <3>2, <3>3
  <2> QED BY <2>1, <2>2
<1>9. CASE \/ expectedAck = "Request" /\ GiveUp(expectedAck)
           \/ expectedAck = "Request" /\ GiveUp("None")
           \/ expectedAck = "Guided" /\ GiveUp("None")
  BY <1>3, <1>9
<1> QED BY <1>5, <1>6, <1>7, <1>8, <1>9 DEF _ackTimeout

\* So does each message that the manager receives.
LEMMA ReceivedTypes ==
  ASSUME Types, _handleMissionCount \/ _handleMissionItem \/ _handleMissionRequest \/ _handleMissionAck
  PROVE  Types'
<1>1. /\ ControlTypes /\ PlanTypes /\ LinkTypes /\ Wanted /\ toRead \subseteq Index
      /\ missionItems \in Seq(Item) /\ writeItems \in Seq(Item)
  BY TypesSplit DEF PlanTypes
<1>2. 0 \in 0..(MaxRetry + 1)
  BY MissionAssumption
<1>3. ASSUME NEW type, Receive(type) PROVE HistoryTypes' /\ VehicleTypes' /\ down' \in Seq(Message)
  BY <1>1, <1>3, ReceiveTypes, TypesSplit DEF HistoryTypes, VehicleTypes, vehicle
<1>4. ASSUME NEW items \in Seq(Item), _readTransactionComplete(items),
             NEW type, Receive(type), retryCount' = 0
      PROVE  Types'
  <2>1. /\ Send([type |-> "ack", ok |-> TRUE]) /\ expectedAck' = "None" /\ timer' = FALSE
        /\ _finishTransaction(TRUE, items)
    BY <1>4 DEF _readTransactionComplete, Disarmed
  <2>2. PlanTypes' /\ transaction' = "None"
    BY <1>1, <2>1, FinishTypes
  <2>3. up' \in Seq(ToVehicle)
    <3>1. [type |-> "ack", ok |-> TRUE] \in ToVehicle
      BY DEF ToVehicle, Message, AckMessage
    <3> QED BY <1>1, <2>1, <3>1, SendTypes
  <2>4. HistoryTypes' /\ VehicleTypes' /\ down' \in Seq(Message)
    BY <1>3, <1>4
  <2>5. ControlTypes' /\ LinkTypes' /\ Wanted'
    BY <1>2, <1>4, <2>1, <2>2, <2>3, <2>4 DEF ControlTypes, LinkTypes, Wanted
  <2> QED BY <2>2, <2>4, <2>5, TypesSplit
<1>5. CASE _handleMissionCount
  <2> DEFINE n == Head(down).n
  <2>1. Receive("count") /\ retryCount' = 0
    BY <1>5 DEF _handleMissionCount
  <2>2. n \in Nat /\ HistoryTypes' /\ VehicleTypes' /\ down' \in Seq(Message)
    BY <1>1, <1>3, <2>1, ReceiveTypes DEF CountMessage
  <2>3. CASE n = 0
    <3>1. _readTransactionComplete(missionItems)
      BY <1>5, <2>3 DEF _handleMissionCount
    <3> QED BY <1>1, <1>4, <2>1, <3>1
  <2>4. CASE n # 0
    <3>1. /\ toRead' = 1..n /\ _requestNextMissionItem(1..n)
          /\ UNCHANGED <<transaction, toWrite, missionItems, writeItems, resumeMission, told>>
      BY <1>5, <2>4 DEF _handleMissionCount
    <3>2. 1..n \subseteq Index /\ 1..n # {}
      BY <2>2, <2>4 DEF Index
    <3>3. up' \in Seq(ToVehicle) /\ expectedAck' = "Item" /\ timer' = TRUE
      BY <1>1, <3>1, <3>2, RequestTypes
    <3> HIDE DEF n
    <3>4. ControlTypes' /\ LinkTypes' /\ Wanted' /\ PlanTypes'
      BY <1>1, <1>2, <2>1, <2>2, <3>1, <3>2, <3>3 DEF ControlTypes, LinkTypes, Wanted, PlanTypes
    <3> QED BY <2>2, <3>4, TypesSplit
  <2> QED BY <2>3, <2>4
<1>6. CASE _handleMissionItem
  <2> DEFINE m == Head(down)
             items == Append(missionItems, m.item)
             left == toRead \ {m.i}
  <2>1. Receive("item")
    BY <1>6 DEF _handleMissionItem
  <2>2. m \in ItemMessage /\ HistoryTypes' /\ VehicleTypes' /\ down' \in Seq(Message)
    BY <1>1, <1>3, <2>1, ReceiveTypes
  <2>3. items \in Seq(Item)
    BY <1>1, <2>2, AppendProperties DEF ItemMessage
  <2>4. CASE m.i \notin toRead
    <3>1. /\ expectedAck' = "Item" /\ timer' = TRUE /\ expectedAck = "Item"
          /\ UNCHANGED <<transaction, retryCount, up, toRead, toWrite, missionItems, writeItems,
                         resumeMission, told>>
      BY <1>6, <2>4 DEF _handleMissionItem, Unrequested, _startAckTimeout, plan
    <3>2. ControlTypes' /\ LinkTypes' /\ Wanted' /\ PlanTypes'
      BY <1>1, <2>2, <3>1 DEF ControlTypes, LinkTypes, Wanted, PlanTypes
    <3> QED BY <2>2, <3>2, TypesSplit
  <2>5. CASE m.i \in toRead /\ left = {}
    <3>1. retryCount' = 0 /\ _readTransactionComplete(items)
      BY <1>6, <2>5 DEF _handleMissionItem
    <3> QED BY <1>4, <2>1, <2>3, <3>1
  <2>6. CASE m.i \in toRead /\ left # {}
    <3>1. /\ retryCount' = 0 /\ toRead' = left /\ missionItems' = items
          /\ _requestNextMissionItem(left)
          /\ UNCHANGED <<transaction, toWrite, writeItems, resumeMission, told>>
      BY <1>6, <2>6 DEF _handleMissionItem
    <3>2. left \subseteq Index
      BY <1>1
    <3>3. up' \in Seq(ToVehicle) /\ expectedAck' = "Item" /\ timer' = TRUE
      BY <1>1, <2>6, <3>1, <3>2, RequestTypes
    <3> HIDE DEF left, items
    <3>4. ControlTypes' /\ LinkTypes' /\ Wanted' /\ PlanTypes'
      BY <1>1, <1>2, <2>2, <2>3, <2>6, <3>1, <3>2, <3>3
         DEF ControlTypes, LinkTypes, Wanted, PlanTypes
    <3> QED BY <2>2, <3>4, TypesSplit
  <2> QED BY <2>4, <2>5, <2>6
<1>7. CASE _handleMissionRequest
  <2> DEFINE i == Head(down).i
  <2>1. Receive("request") /\ expectedAck = "Request" /\ UNCHANGED retryCount
    BY <1>7 DEF _handleMissionRequest
  <2>2. i \in Index /\ HistoryTypes' /\ VehicleTypes' /\ down' \in Seq(Message)
    BY <1>1, <1>3, <2>1, ReceiveTypes DEF RequestMessage
  <2>3. CASE i > Len(writeItems)
    <3>1. /\ expectedAck' = "None" /\ timer' = FALSE /\ UNCHANGED up
          /\ _finishTransaction(FALSE, missionItems)
      BY <1>7, <2>3 DEF _handleMissionRequest, Disarmed
    <3>2. PlanTypes' /\ transaction' = "None"
      BY <1>1, <3>1, FinishTypes
    <3>3. ControlTypes' /\ LinkTypes' /\ Wanted'
      BY <1>1, <2>1, <2>2, <3>1, <3>2 DEF ControlTypes, LinkTypes, Wanted
    <3> QED BY <2>2, <3>2, <3>3, TypesSplit
  <2>4. CASE ~(i > Len(writeItems))
    <3>1. /\ toWrite' = toWrite \ {i}
          /\ Send([type |-> "item", i |-> i, item |-> writeItems[i]])
          /\ expectedAck' = "Request" /\ timer' = TRUE
          /\ UNCHANGED <<transaction, toRead, missionItems, writeItems, resumeMission, told>>
      BY <1>7, <2>4 DEF _handleMissionRequest, _startAckTimeout
    <3>2. writeItems[i] \in Item
      <4>1. i \in 1..Len(writeItems)
        BY <1>1, <2>2, <2>4, LenProperties DEF Index
      <4> QED BY <1>1, <4>1, ElementOfSeq
    <3>3. up' \in Seq(ToVehicle)
      <4>1. [type |-> "item", i |-> i, item |-> writeItems[i]] \in ToVehicle
        BY <2>2, <3>2 DEF ToVehicle, Message, ItemMessage
      <4> QED BY <1>1, <3>1, <4>1, SendTypes
    <3>4. ControlTypes' /\ LinkTypes' /\ Wanted' /\ PlanTypes'
      BY <1>1, <2>1, <2>2, <3>1, <3>3 DEF ControlTypes, LinkTypes, Wanted, PlanTypes
    <3> QED BY <2>2, <3>4, TypesSplit
  <2> QED BY <2>3, <2>4
<1>8. CASE _handleMissionAck
  <2>1. Receive("ack") /\ expectedAck' = "None" /\ timer' = FALSE /\ UNCHANGED <<retryCount, up>>
    BY <1>8 DEF _handleMissionAck, Disarmed
  <2>2. Head(down) \in AckMessage /\ HistoryTypes' /\ VehicleTypes' /\ down' \in Seq(Message)
    BY <1>1, <1>3, <2>1, ReceiveTypes
  <2>3. PlanTypes' /\ transaction' \in {"None", transaction}
    <3>1. CASE expectedAck = "None"
      BY <1>1, <1>8, <3>1 DEF _handleMissionAck, plan, PlanTypes
    <3>2. CASE expectedAck # "None"
      <4>1. _finishTransaction(Accepted(Head(down).ok), missionItems)
        BY <1>8, <3>2 DEF _handleMissionAck
      <4>2. Accepted(Head(down).ok) \in BOOLEAN
        BY <2>2 DEF Accepted, AckMessage
      <4> QED BY <1>1, <4>1, <4>2, FinishTypes
    <3> QED BY <3>1, <3>2
  <2>4. ControlTypes' /\ LinkTypes' /\ Wanted'
    BY <1>1, <2>1, <2>2, <2>3 DEF ControlTypes, LinkTypes, Wanted
  <2> QED BY <2>2, <2>3, <2>4, TypesSplit
<1> QED BY <1>5, <1>6, <1>7, <1>8

\* What the vehicle gets, answers and keeps.
LEMMA RequestedTypes == \A i \in Index : Requested(i) \in Index
BY DEF Requested, Index

\* So does what the vehicle does with a message, however it misbehaves.
LEMMA VehicleStepTypes == ASSUME Types, Vehicle PROVE Types'
<1>1. ControlTypes /\ PlanTypes /\ LinkTypes /\ VehicleTypes /\ HistoryTypes /\ Wanted
  BY TypesSplit
<1>2. ASSUME NEW type, Handle(type), down' \in Seq(Message),
             writeCount' \in Nat, writeIndex' \in Nat, IsFiniteSet(DOMAIN onVehicle'),
             DOMAIN onVehicle' \subseteq Index, onVehicle' \in [DOMAIN onVehicle' -> Item]
      PROVE  Types'
  <2>1. /\ up' = Tail(up) /\ up # <<>> /\ UNCHANGED failureMode
        /\ UNCHANGED <<transaction, expectedAck, retryCount, timer, toRead, toWrite, missionItems,
                       writeItems, resumeMission, told, asked, late>>
    BY <1>2 DEF Handle, manager, plan
  <2>2. up' \in Seq(ToVehicle)
    BY <1>1, <2>1, HeadTailProperties DEF LinkTypes
  <2>3. ControlTypes' /\ PlanTypes' /\ HistoryTypes' /\ Wanted'
    BY <1>1, <2>1 DEF ControlTypes, PlanTypes, HistoryTypes, Wanted
  <2>4. LinkTypes' /\ VehicleTypes'
    BY <1>1, <1>2, <2>1, <2>2 DEF LinkTypes, VehicleTypes
  <2> QED BY <2>3, <2>4, TypesSplit
<1>3. ASSUME NEW type, Handle(type), down' \in Seq(Message),
             UNCHANGED <<onVehicle, writeCount, writeIndex>>
      PROVE  Types'
  BY <1>1, <1>2, <1>3 DEF VehicleTypes
<1>4. ASSUME NEW m \in Message, Respond(m) PROVE down' \in Seq(Message)
  BY <1>1, <1>4, AppendProperties DEF Respond, LinkTypes
<1>5. \A ok \in BOOLEAN : Ack(ok) \in Message
  BY DEF Ack, Message, AckMessage
<1>6. ASSUME NEW i \in Index, VehicleRequestNext(i) PROVE down' \in Seq(Message)
  <2>1. [type |-> "request", i |-> Requested(i)] \in Message
    BY RequestedTypes DEF Message, RequestMessage
  <2> QED BY <1>4, <1>5, <1>6, <2>1 DEF VehicleRequestNext
<1>7. ASSUME up # <<>>
      PROVE  /\ Head(up).type = "item" => Head(up) \in ItemMessage
             /\ Head(up).type = "request" => Head(up) \in RequestMessage
             /\ Head(up).type = "count" => Head(up) \in CountMessage
  <2>1. Head(up) \in ToVehicle
    BY <1>1, <1>7, HeadTailProperties DEF LinkTypes
  <2> QED BY <2>1 DEF ToVehicle, Message, ItemMessage, RequestMessage, CountMessage, AckMessage
<1>8. CASE VehicleRequestList
  <2>1. Handle("list") /\ UNCHANGED <<onVehicle, writeCount, writeIndex>>
    BY <1>8 DEF VehicleRequestList
  <2>2. [type |-> "count", n |-> Cardinality(DOMAIN onVehicle)] \in Message
    BY <1>1, FS_CardinalityType DEF VehicleTypes, Message, CountMessage
  <2> QED BY <1>3, <1>4, <1>8, <2>1, <2>2 DEF VehicleRequestList
<1>9. CASE VehicleRequest
  <2> DEFINE i == Requested(Head(up).i)
  <2>1. Handle("request") /\ UNCHANGED <<onVehicle, writeCount, writeIndex>>
    BY <1>9 DEF VehicleRequest
  <2>2. i \in Index
    BY <1>7, <2>1, RequestedTypes DEF Handle, RequestMessage
  <2>3. CASE i \in DOMAIN onVehicle
    <3>1. [type |-> "item", i |-> i, item |-> onVehicle[i]] \in Message
      BY <1>1, <2>2, <2>3 DEF VehicleTypes, Message, ItemMessage
    <3> QED BY <1>3, <1>4, <1>9, <2>1, <2>3, <3>1 DEF VehicleRequest
  <2>4. CASE i \notin DOMAIN onVehicle
    BY <1>1, <1>3, <1>9, <2>1, <2>4 DEF VehicleRequest, LinkTypes
  <2> QED BY <2>3, <2>4
<1>10. CASE VehicleRefuses
  BY <1>3, <1>4, <1>5, <1>10 DEF VehicleRefuses
<1>11. CASE VehicleCount
  <2>1. /\ Handle("count") /\ onVehicle' = <<>> /\ writeCount' = Head(up).n
        /\ IF writeCount' = 0 THEN Respond(Ack(TRUE)) /\ UNCHANGED writeIndex
           ELSE writeIndex' = 1 /\ VehicleRequestNext(1)
    BY <1>11 DEF VehicleCount
  <2>2. writeCount' \in Nat
    BY <1>7, <2>1 DEF Handle, CountMessage
  <2>3. DOMAIN onVehicle' = {} /\ onVehicle' \in [DOMAIN onVehicle' -> Item] /\ IsFiniteSet(DOMAIN onVehicle')
    <3>1. DOMAIN onVehicle' = {}
      BY <2>1
    <3>2. onVehicle' \in [DOMAIN onVehicle' -> Item]
      <4>1. <<>> \in Seq(Item) /\ DOMAIN onVehicle' = DOMAIN <<>>
        BY <2>1, EmptySeq
      <4>2. <<>> \in [1..Len(<<>>) -> Item] /\ Len(<<>>) = 0
        BY <4>1, LenProperties, EmptySeq
      <4> QED BY <2>1, <3>1, <4>2
    <3> QED BY <3>1, <3>2, FS_EmptySet
  <2>4. down' \in Seq(Message) /\ writeIndex' \in Nat
    <3>1. 1 \in Index /\ 1 \in Nat /\ writeIndex \in Nat
      BY <1>1 DEF Index, VehicleTypes
    <3>2. CASE writeCount' = 0
      <4>1. Respond(Ack(TRUE)) /\ writeIndex' = writeIndex
        BY <2>1, <3>2
      <4> QED BY <1>4, <1>5, <3>1, <4>1
    <3>3. CASE writeCount' # 0
      <4>1. VehicleRequestNext(1) /\ writeIndex' = 1
        BY <2>1, <3>3
      <4> QED BY <1>6, <3>1, <4>1
    <3> QED BY <3>2, <3>3
  <2> QED BY <1>2, <2>1, <2>2, <2>3, <2>4
<1>12. CASE VehicleItem
  <2> DEFINE m == Head(up)
             D == DOMAIN onVehicle \cup {m.i}
  <2>1. /\ Handle("item") /\ writeIndex' = writeIndex + 1 /\ UNCHANGED writeCount
        /\ onVehicle' = [i \in D |-> IF i = m.i THEN m.item ELSE onVehicle[i]]
    BY <1>12 DEF VehicleItem
  <2>2. m.i \in Index /\ m.item \in Item
    BY <1>7, <2>1 DEF Handle, ItemMessage
  <2>3. /\ DOMAIN onVehicle' = D /\ D \subseteq Index /\ onVehicle' \in [D -> Item]
        /\ IsFiniteSet(D)
    <3>1. IsFiniteSet(D)
      BY <1>1, FS_AddElement DEF VehicleTypes
    <3> QED BY <1>1, <2>1, <2>2, <3>1 DEF VehicleTypes
  <2>4. down' \in Seq(Message) /\ writeIndex' \in Nat
    <3>1. writeIndex' \in Nat /\ writeIndex' \in Index
      BY <1>1, <2>1 DEF VehicleTypes, Index
    <3>2. \/ VehicleRequestNext(writeIndex') \/ \E ok \in BOOLEAN : Respond(Ack(ok))
      BY <1>12 DEF VehicleItem
    <3> QED BY <1>4, <1>5, <1>6, <3>1, <3>2
  <2> QED BY <1>1, <1>2, <2>1, <2>3, <2>4 DEF VehicleTypes
<1>13. CASE VehicleClearAll
  <2>1. Handle("clear") /\ onVehicle' = <<>> /\ Respond(Ack(TRUE)) /\ UNCHANGED <<writeCount, writeIndex>>
    BY <1>13 DEF VehicleClearAll
  <2>2. DOMAIN onVehicle' = {} /\ onVehicle' \in [DOMAIN onVehicle' -> Item] /\ IsFiniteSet(DOMAIN onVehicle')
    <3>1. DOMAIN onVehicle' = {}
      BY <2>1
    <3>2. onVehicle' \in [DOMAIN onVehicle' -> Item]
      <4>1. <<>> \in Seq(Item) /\ DOMAIN onVehicle' = DOMAIN <<>>
        BY <2>1, EmptySeq
      <4>2. <<>> \in [1..Len(<<>>) -> Item] /\ Len(<<>>) = 0
        BY <4>1, LenProperties, EmptySeq
      <4> QED BY <2>1, <3>1, <4>2
    <3> QED BY <3>1, <3>2, FS_EmptySet
  <2> QED BY <1>1, <1>2, <1>4, <1>5, <2>1, <2>2 DEF VehicleTypes
<1>14. CASE VehicleGuided
  BY <1>3, <1>4, <1>5, <1>14 DEF VehicleGuided
<1>15. CASE VehicleAck
  <2>1. Handle("ack") /\ UNCHANGED <<down, onVehicle, writeCount, writeIndex>>
    BY <1>15 DEF VehicleAck
  <2> QED BY <1>1, <1>3, <2>1 DEF LinkTypes
<1> QED BY <1>8, <1>9, <1>10, <1>11, <1>12, <1>13, <1>14, <1>15 DEF Vehicle

\* So do the loss of a message and a stutter.
LEMMA OtherTypes ==
  ASSUME Types, DropSpurious \/ Lose \/ UNCHANGED vars
  PROVE  Types'
<1>1. ControlTypes /\ PlanTypes /\ LinkTypes /\ VehicleTypes /\ HistoryTypes /\ Wanted
  BY TypesSplit
<1>2. /\ UNCHANGED <<transaction, expectedAck, retryCount, timer, toRead, toWrite, missionItems,
                     writeItems, resumeMission, told, asked, late,
                     failureMode, onVehicle, writeCount, writeIndex>>
      /\ up' \in {up, Tail(up)} /\ (up' = up \/ up # <<>>)
      /\ down' \in {down, Tail(down)} /\ (down' = down \/ down # <<>>)
  BY DEF DropSpurious, Receive, Lose, vars, manager, plan, vehicle
<1>3. LinkTypes'
  BY <1>1, <1>2, HeadTailProperties DEF LinkTypes
<1>4. ControlTypes' /\ PlanTypes' /\ VehicleTypes' /\ HistoryTypes' /\ Wanted'
  BY <1>1, <1>2 DEF ControlTypes, PlanTypes, VehicleTypes, HistoryTypes, Wanted
<1> QED BY <1>3, <1>4, TypesSplit

\* The variables have their types, and an item is wanted while one is expected.
LEMMA TypesAlways == Spec => []Types
<1>1. Init => Types
  <2> SUFFICES ASSUME Init PROVE Types
    OBVIOUS
  <2>1. onVehicle \in Seq(Item) /\ <<>> \in Seq(Item)
    BY MissionsAreItems, EmptySeq DEF Init
  <2>2. /\ DOMAIN onVehicle = 1..Len(onVehicle) /\ onVehicle \in [1..Len(onVehicle) -> Item]
        /\ Len(onVehicle) \in Nat
    BY <2>1, LenProperties
  <2>3. IsFiniteSet(1..Len(onVehicle)) /\ 1..Len(onVehicle) \subseteq Index
    <3>1. 1 \in Int /\ Len(onVehicle) \in Int
      BY <2>2
    <3>2. IsFiniteSet(1..Len(onVehicle))
      BY <3>1, FS_Interval
    <3>3. 1..Len(onVehicle) \subseteq Index
      BY <2>2 DEF Index
    <3> QED BY <3>2, <3>3
  <2>4. VehicleTypes
    BY <2>2, <2>3 DEF Init, VehicleTypes
  <2>5. ControlTypes /\ PlanTypes /\ Wanted
    <3>1. 0 \in 0..(MaxRetry + 1)
      BY MissionAssumption
    <3>2. ControlTypes /\ Wanted
      BY <3>1 DEF Init, ControlTypes, Wanted
    <3>3. PlanTypes
      BY <2>1 DEF Init, PlanTypes
    <3> QED BY <3>2, <3>3
  <2>6. LinkTypes /\ HistoryTypes
    BY EmptySeq DEF Init, LinkTypes, HistoryTypes
  <2> QED BY <2>4, <2>5, <2>6, TypesSplit
<1>2. Types /\ [Next]_vars => Types'
  BY UserTypes, TimeoutTypes, ReceivedTypes, VehicleStepTypes, OtherTypes DEF Next, Manager
<1> QED BY <1>1, <1>2, PTL DEF Spec

\* The variables keep their types, though a mission that is resumed is one the
\* manager composes, and the items on the vehicle may have gaps.
THEOREM TypeCorrect == Spec => []TypeOK
<1>1. Types => TypeOK
  BY DEF Types
<1> QED BY <1>1, TypesAlways, PTL

\* Whatever mission the manager holds, resuming it at one of its items restores
\* what the vehicle had set there.
THEOREM ResumeCorrect == Spec => []ResumeRestores
<1>1. Types => ResumeRestores
  <2> SUFFICES ASSUME Types PROVE ResumeRestores
    OBVIOUS
  <2>1. missionItems \in Seq(Item) /\ Len(missionItems) \in Nat
    BY TypesSplit, LenProperties DEF PlanTypes
  <2>2. \A k \in 2..(Len(missionItems) - 2) : k \in 1..Len(missionItems) /\ k > 1
    BY <2>1
  <2>3. \A k \in 2..(Len(missionItems) - 2) : RestoredAt(missionItems, k)
    BY <2>1, <2>2, ResumeKeeps
  <2> QED BY <2>3 DEF ResumeRestores, RestoredAt
<1> QED BY <1>1, TypesAlways, PTL

-----------------------------------------------------------------------------
(* What a success means: as long as no message outlives the ack timeout, a    *)
(* read, a write or a removal that is reported as a success leaves the        *)
(* manager with exactly the mission the vehicle has.                          *)

-----------------------------------------------------------------------------
(* The link.  At most one question or answer is on its way; only the acks of  *)
(* reads that are over may be ahead of a question.                            *)

Acks(s) == \A i \in 1..Len(s) : s[i].type = "ack"
Quiet == down = <<>> /\ Acks(up)
Question == up[Len(up)]
Asking ==
  /\ down = <<>> /\ up # <<>> /\ Question.type # "ack"
  /\ \A i \in 1..(Len(up) - 1) : up[i].type = "ack"
Answer == Head(down)
Answering == up = <<>> /\ down = <<Answer>>

List == [type |-> "list"]
Clear == [type |-> "clear"]
Guided == [type |-> "guided"]
Count(n) == [type |-> "count", n |-> n]
Request(i) == [type |-> "request", i |-> i]
ItemAt(i, x) == [type |-> "item", i |-> i, item |-> x]

-----------------------------------------------------------------------------
(* The transactions.  A vehicle that takes one item for the next does so on   *)
(* every request of it: a transfer that needs that item is blocked, as it is  *)
(* never asked for or sent; any other runs in order.                          *)

Blocked(S) == \E j \in S : Requested(j) # j
InOrder(n) == \A j \in 1..n : Requested(j) = j
Size == Cardinality(DOMAIN onVehicle)

\* The vehicle has the first n items of the upload, and no other.
Uploaded(n) == DOMAIN onVehicle = 1..n /\ \A j \in 1..n : onVehicle[j] = writeItems[j]
\* What the manager has read so far is what the vehicle has there.
Downloaded(n) == \A j \in 1..n : j \in DOMAIN onVehicle /\ missionItems[j] = onVehicle[j]

Idle ==
  /\ Quiet /\ ~timer
  /\ told = "ok" /\ Last(asked) # "guided" => missionItems = onVehicle

Clearing ==
  /\ expectedAck = "ClearAll" /\ missionItems = <<>> /\ Last(asked) = "removeAll"
  /\ \/ Quiet
     \/ Asking /\ Question = Clear
     \/ Answering /\ Answer = Ack(TRUE) /\ onVehicle = <<>>

Guiding ==
  /\ expectedAck = "Guided" /\ Last(asked) = "guided"
  /\ Quiet \/ (Asking /\ Question = Guided) \/ (Answering /\ Answer.type = "ack")

WriteBlocked ==
  /\ Blocked(toWrite)
  /\ \/ Quiet
     \/ Asking /\ Question.type \in {"count", "item"}
     \/ Answering /\ Answer.type = "request" /\ Requested(Answer.i) = Answer.i
     \/ Answering /\ Answer.type = "ack"
WriteInOrder ==
  /\ InOrder(Len(writeItems)) /\ (1 \in toWrite => toWrite = DOMAIN writeItems)
  /\ \/ Quiet
     \/ toWrite = DOMAIN writeItems /\ Asking /\ Question = Count(Len(writeItems))
     \/ /\ writeIndex \in DOMAIN writeItems
        /\ writeCount = Len(writeItems) /\ Uploaded(writeIndex - 1)
        /\ \/ /\ toWrite = writeIndex..Len(writeItems)
              /\ Answering /\ Answer = Request(writeIndex)
           \/ /\ toWrite = (writeIndex + 1)..Len(writeItems)
              /\ Asking /\ Question = ItemAt(writeIndex, writeItems[writeIndex])
     \/ /\ Answering /\ Answer.type = "ack"
        /\ Answer.ok /\ toWrite = {} => Uploaded(Len(writeItems))
Writing ==
  /\ expectedAck = "Request" /\ Last(asked) = "write"
  /\ WriteBlocked \/ WriteInOrder

Counting ==
  /\ expectedAck = "Count" /\ missionItems = <<>>
  /\ \/ Quiet
     \/ Asking /\ Question = List
     \/ Answering /\ Answer = Count(Size)
ReadBlocked ==
  /\ expectedAck = "Item" /\ Blocked(toRead)
  /\ \/ Quiet
     \/ Asking /\ Question.type = "request"
     \/ Answering /\ Answer.type = "item" /\ Requested(Answer.i) = Answer.i
     \/ Answering /\ Answer = Ack(FALSE)
ReadInOrder ==
  LET next == Len(missionItems) + 1 IN
  /\ expectedAck = "Item" /\ next <= Size /\ toRead = next..Size
  /\ InOrder(Size) /\ Downloaded(Len(missionItems))
  /\ \/ Quiet
     \/ Asking /\ Question = Request(next)
     \/ next \in DOMAIN onVehicle /\ Answering /\ Answer = ItemAt(next, onVehicle[next])
     \/ Answering /\ Answer = Ack(FALSE)
Reading == Last(asked) = "read" /\ (Counting \/ ReadBlocked \/ ReadInOrder)

Pending == transaction # "None" => told = "none"
Mirror ==
  \/ transaction = "None" /\ Idle
  \/ transaction = "RemoveAll" /\ Clearing
  \/ transaction = "Write" /\ (Guiding \/ Writing)
  \/ transaction = "Read" /\ Reading
Mirrored == Pending /\ (late \/ Mirror)

-----------------------------------------------------------------------------
(* Questions and answers.                                                     *)

\* The link is in one of three states.
LEMMA LinkStates ==
  ASSUME Mirror
  PROVE  Quiet \/ Asking \/ Answering
BY DEF Mirror, Idle, Clearing, Guiding, Writing, WriteBlocked, WriteInOrder, Reading, Counting,
       ReadBlocked, ReadInOrder

\* A question posed when none is under way is the only one.
LEMMA Posed ==
  ASSUME up \in Seq(ToVehicle), Acks(up), down' = <<>>, NEW m \in ToVehicle, m.type # "ack", Send(m)
  PROVE  Asking' /\ Question' = m
<1>1. /\ up' = Append(up, m) /\ Len(up) \in Nat /\ Len(up') = Len(up) + 1
      /\ up'[Len(up) + 1] = m /\ \A i \in 1..Len(up) : up'[i] = up[i]
  BY Appending DEF Send
<1>2. up' # <<>>
  BY <1>1, EmptySeq
<1>3. Question' = m
  BY <1>1 DEF Question
<1>4. \A i \in 1..(Len(up') - 1) : up'[i].type = "ack"
  BY <1>1 DEF Acks
<1> QED BY <1>2, <1>3, <1>4 DEF Asking

\* An ack sent when no question is under way leaves the link quiet.
LEMMA Acknowledged ==
  ASSUME up \in Seq(ToVehicle), Acks(up), down' = <<>>, Send([type |-> "ack", ok |-> TRUE])
  PROVE  Quiet'
<1> DEFINE m == [type |-> "ack", ok |-> TRUE]
<1>0. m \in ToVehicle /\ m.type = "ack"
  BY DEF ToVehicle, Message, AckMessage
<1> HIDE DEF m
<1>1. /\ up' = Append(up, m) /\ Len(up) \in Nat /\ Len(up') = Len(up) + 1
      /\ up'[Len(up) + 1] = m /\ \A i \in 1..Len(up) : up'[i] = up[i]
  BY <1>0, Appending DEF Send, m
<1>2. \A i \in 1..Len(up') : up'[i].type = "ack"
  BY <1>0, <1>1 DEF Acks
<1> QED BY <1>2 DEF Quiet, Acks

\* The manager receives the answer there is, and the link is empty then.
LEMMA Received ==
  ASSUME LinkTypes, Mirror, NEW type, Receive(type)
  PROVE  /\ Answering /\ Answer.type = type /\ Answer \in Message
         /\ down' = <<>> /\ up = <<>> /\ Acks(up)
<1>1. down # <<>> /\ Head(down).type = type /\ down' = Tail(down)
  BY DEF Receive
<1>2. Answering
  BY <1>1, LinkStates DEF Quiet, Asking
<1>3. Answer \in Message /\ Answer.type = type
  BY <1>1, HeadTailProperties DEF Answer, LinkTypes
<1>4. up = <<>> /\ down' = <<>>
  BY <1>1, <1>2 DEF Answering
<1>5. Acks(up)
  BY <1>4 DEF Acks
<1> QED BY <1>2, <1>3, <1>4, <1>5

\* The vehicle gets the question there is, after the acks ahead of it.
LEMMA Handled ==
  ASSUME LinkTypes, Mirror, NEW type, Handle(type)
  PROVE  /\ down = <<>>
         /\ type # "ack" => /\ Asking /\ Question.type = type /\ Question = Head(up)
                            /\ Question \in ToVehicle /\ up' = <<>>
         /\ type = "ack" => /\ Quiet => Acks(up')
                            /\ Asking /\ down' = down => Asking' /\ Question' = Question
                            /\ Quiet \/ Asking
<1>1. /\ up # <<>> /\ up \in Seq(ToVehicle) /\ Head(up).type = type /\ up' = Tail(up)
      /\ Len(up) \in Nat /\ Len(up) > 0
  BY LenProperties, EmptySeq DEF Handle, LinkTypes
<1>2. /\ Head(up) = up[1] /\ Len(up') = Len(up) - 1 /\ \A i \in 1..Len(up') : up'[i] = up[i + 1]
      /\ up[Len(up)] \in ToVehicle
  BY <1>1, HeadTailProperties, ElementOfSeq
<1>3. Quiet \/ Asking
  BY <1>1, LinkStates DEF Answering
<1>4. down = <<>>
  BY <1>3 DEF Quiet, Asking
<1>5. ASSUME type # "ack"
      PROVE  Asking /\ Question.type = type /\ Question = Head(up) /\ Question \in ToVehicle /\ up' = <<>>
  <2>1. Asking
    BY <1>1, <1>2, <1>3, <1>5 DEF Quiet, Acks
  <2>2. Len(up) = 1
    <3>1. 1 \in 1..(Len(up) - 1) => up[1].type = "ack"
      BY <2>1 DEF Asking
    <3> QED BY <1>1, <1>2, <1>5, <3>1
  <2>3. Question = Head(up) /\ Question \in ToVehicle
    BY <1>2, <2>2 DEF Question
  <2>4. up' = <<>>
    <3>1. up' \in Seq(ToVehicle) /\ Len(up') = 0
      BY <1>1, <1>2, <2>2, HeadTailProperties
    <3> QED BY <3>1, EmptySeq
  <2> QED BY <1>1, <2>1, <2>3, <2>4
<1>6. ASSUME type = "ack", Quiet PROVE Acks(up')
  BY <1>1, <1>2, <1>6 DEF Quiet, Acks
<1>7. ASSUME type = "ack", Asking, down' = down PROVE Asking' /\ Question' = Question
  <2>1. Len(up) # 1
    BY <1>1, <1>2, <1>7 DEF Asking, Question
  <2>2. Question' = Question /\ up' # <<>>
    <3>1. Len(up) - 1 \in 1..Len(up') /\ up'[Len(up) - 1] = up[(Len(up) - 1) + 1]
      BY <1>1, <1>2, <2>1
    <3>2. up'[Len(up')] = up[Len(up)]
      BY <1>1, <1>2, <3>1
    <3>3. up' # <<>>
      <4>1. Len(up') # 0
        BY <1>1, <1>2, <2>1
      <4> QED BY <4>1, EmptySeq
    <3> QED BY <3>2, <3>3 DEF Question
  <2>3. \A i \in 1..(Len(up') - 1) : up'[i].type = "ack"
    BY <1>1, <1>2, <1>7 DEF Asking
  <2> QED BY <1>7, <2>2, <2>3 DEF Asking
<1> QED BY <1>3, <1>4, <1>5, <1>6, <1>7

\* What it answers is the only answer there is.
LEMMA Answered ==
  ASSUME down = <<>>, up' = <<>>, NEW m \in Message, Respond(m)
  PROVE  Answering' /\ Answer' = m
<1>1. down' = <<m>>
  BY DEF Respond
<1> QED BY <1>1 DEF Answering, Answer

\* No two of the three states at once.
LEMMA LinkStatesDiffer ==
  ASSUME LinkTypes
  PROVE  (Asking => ~Quiet /\ ~Answering) /\ (Answering => ~Quiet)
<1>1. ASSUME Asking PROVE ~Quiet
  <2>1. Len(up) \in Nat /\ Len(up) # 0
    BY <1>1, LenProperties, EmptySeq DEF LinkTypes, Asking
  <2>2. up[Len(up)].type # "ack" /\ Len(up) \in 1..Len(up)
    BY <1>1, <2>1 DEF Asking, Question
  <2> QED BY <2>2 DEF Quiet, Acks
<1>2. ASSUME Answering PROVE down # <<>>
  BY <1>2 DEF Answering
<1> QED BY <1>1, <1>2 DEF Asking, Quiet

\* A vehicle that misbehaves does so for good, on the same items.
LEMMA RequestedKept ==
  ASSUME UNCHANGED failureMode
  PROVE  /\ \A i : Requested(i)' = Requested(i)
         /\ \A S : Blocked(S)' <=> Blocked(S)
         /\ \A n : InOrder(n)' <=> InOrder(n)
<1>1. \A i : Requested(i)' = Requested(i)
  BY DEF Requested, Fails
<1>2. \A S : Blocked(S)' <=> Blocked(S)
  BY <1>1 DEF Blocked
<1>3. \A n : InOrder(n)' <=> InOrder(n)
  BY <1>1 DEF InOrder
<1> QED BY <1>1, <1>2, <1>3

\* It never asks for or sends the item it takes for the next.
LEMMA RequestedTwice == \A i \in Index : Requested(Requested(i)) = Requested(i)
BY DEF Requested, Fails, Index

\* A transfer needs an item that is never asked for, or it runs in order.
LEMMA BlockedOrInOrder == \A n \in Nat : Blocked(1..n) \/ InOrder(n)
BY DEF Blocked, InOrder

\* Who asks what.
LEMMA QuestionModes ==
  ASSUME LinkTypes, Mirror, Asking
  PROVE  /\ Question.type = "list" => transaction = "Read" /\ Last(asked) = "read" /\ Counting
         /\ Question.type = "request" =>
              /\ transaction = "Read" /\ Last(asked) = "read"
              /\ ReadBlocked \/ (ReadInOrder /\ Question = Request(Len(missionItems) + 1))
         /\ Question.type = "clear" => transaction = "RemoveAll" /\ Clearing
         /\ Question.type = "guided" => transaction = "Write" /\ Guiding
         /\ Question.type \in {"count", "item"} =>
              /\ transaction = "Write" /\ Writing
              /\ \/ WriteBlocked
                 \/ /\ WriteInOrder /\ toWrite = DOMAIN writeItems
                    /\ Question = Count(Len(writeItems))
                 \/ /\ WriteInOrder /\ writeIndex \in DOMAIN writeItems
                    /\ writeCount = Len(writeItems) /\ Uploaded(writeIndex - 1)
                    /\ toWrite = (writeIndex + 1)..Len(writeItems)
                    /\ Question = ItemAt(writeIndex, writeItems[writeIndex])
<1>1. ~Quiet /\ ~Answering
  BY LinkStatesDiffer
<1>2. /\ Clear.type = "clear" /\ List.type = "list" /\ Guided.type = "guided"
      /\ \A n : Count(n).type = "count"
      /\ \A n : Request(n).type = "request"
      /\ \A n, x : ItemAt(n, x).type = "item"
  BY DEF Clear, List, Guided, Count, Request, ItemAt
<1>3. transaction # "None"
  BY <1>1 DEF Mirror, Idle
<1>4. CASE transaction = "RemoveAll"
  <2>1. Clearing /\ Question.type = "clear"
    BY <1>1, <1>2, <1>4 DEF Mirror, Clearing
  <2> QED BY <1>4, <2>1
<1>5. CASE transaction = "Read" /\ Counting
  <2>1. Last(asked) = "read" /\ Question.type = "list"
    BY <1>1, <1>2, <1>5 DEF Mirror, Counting, Reading
  <2> QED BY <1>5, <2>1
<1>6. CASE transaction = "Read" /\ ReadBlocked
  <2>1. Last(asked) = "read" /\ Question.type = "request"
    BY <1>1, <1>6 DEF Mirror, ReadBlocked, Reading
  <2> QED BY <1>6, <2>1
<1>7. CASE transaction = "Read" /\ ReadInOrder
  <2>1. Last(asked) = "read" /\ Question = Request(Len(missionItems) + 1)
    BY <1>1, <1>7 DEF Mirror, ReadInOrder, Reading
  <2> QED BY <1>2, <1>7, <2>1
<1>8. CASE transaction = "Write" /\ Guiding
  <2>1. Question.type = "guided"
    BY <1>1, <1>2, <1>8 DEF Guiding
  <2> QED BY <1>8, <2>1
<1>9. CASE transaction = "Write" /\ Writing /\ WriteBlocked
  <2>1. Question.type \in {"count", "item"}
    BY <1>1, <1>9 DEF WriteBlocked
  <2> QED BY <1>9, <2>1
<1>10. CASE transaction = "Write" /\ Writing /\ WriteInOrder
  <2>1. \/ toWrite = DOMAIN writeItems /\ Question = Count(Len(writeItems))
        \/ /\ writeIndex \in DOMAIN writeItems
           /\ writeCount = Len(writeItems) /\ Uploaded(writeIndex - 1)
           /\ toWrite = (writeIndex + 1)..Len(writeItems)
           /\ Question = ItemAt(writeIndex, writeItems[writeIndex])
    BY <1>1, <1>10 DEF WriteInOrder
  <2>2. Question.type \in {"count", "item"}
    BY <1>2, <2>1
  <2> QED BY <1>10, <2>1, <2>2
<1> QED BY <1>3, <1>4, <1>5, <1>6, <1>7, <1>8, <1>9, <1>10 DEF Mirror, Reading, Writing

\* Who is answered what.
LEMMA AnswerModes ==
  ASSUME LinkTypes, Mirror, Answering
  PROVE  /\ Answer.type = "count" =>
              transaction = "Read" /\ Last(asked) = "read" /\ Counting /\ Answer = Count(Size)
         /\ Answer.type = "item" =>
              /\ transaction = "Read" /\ Last(asked) = "read"
              /\ \/ ReadBlocked /\ Requested(Answer.i) = Answer.i
                 \/ /\ ReadInOrder /\ Len(missionItems) + 1 \in DOMAIN onVehicle
                    /\ Answer = ItemAt(Len(missionItems) + 1, onVehicle[Len(missionItems) + 1])
         /\ Answer.type = "request" =>
              /\ transaction = "Write" /\ Writing
              /\ \/ WriteBlocked /\ Requested(Answer.i) = Answer.i
                 \/ /\ WriteInOrder /\ writeIndex \in DOMAIN writeItems
                    /\ writeCount = Len(writeItems) /\ Uploaded(writeIndex - 1)
                    /\ toWrite = writeIndex..Len(writeItems) /\ Answer = Request(writeIndex)
         /\ Answer.type = "ack" =>
              \/ transaction = "RemoveAll" /\ Clearing /\ onVehicle = <<>>
              \/ transaction = "Write" /\ Guiding
              \/ transaction = "Write" /\ Writing /\ WriteBlocked
              \/ /\ transaction = "Write" /\ Writing /\ WriteInOrder
                 /\ Answer.ok /\ toWrite = {} => Uploaded(Len(writeItems))
              \/ transaction = "Read" /\ Reading /\ Answer = Ack(FALSE)
         /\ Answer.type \in {"count", "item", "request", "ack"}
<1>1. ~Quiet /\ ~Asking
  BY LinkStatesDiffer
<1>2. /\ \A ok : Ack(ok).type = "ack"
      /\ \A n : Count(n).type = "count"
      /\ \A n : Request(n).type = "request"
      /\ \A n, x : ItemAt(n, x).type = "item"
  BY DEF Ack, Count, Request, ItemAt
<1>3. transaction # "None"
  BY <1>1 DEF Mirror, Idle
<1>4. CASE transaction = "RemoveAll"
  <2>1. Clearing /\ Answer.type = "ack" /\ onVehicle = <<>>
    BY <1>1, <1>2, <1>4 DEF Mirror, Clearing
  <2> QED BY <1>4, <2>1
<1>5. CASE transaction = "Read" /\ Counting
  <2>1. Last(asked) = "read" /\ Answer = Count(Size)
    BY <1>1, <1>5 DEF Mirror, Counting, Reading
  <2> QED BY <1>2, <1>5, <2>1
<1>6. CASE transaction = "Read" /\ ReadBlocked
  <2>1. /\ Last(asked) = "read" /\ Reading
        /\ \/ Answer.type = "item" /\ Requested(Answer.i) = Answer.i
           \/ Answer = Ack(FALSE)
    BY <1>1, <1>6 DEF Mirror, ReadBlocked, Reading
  <2> QED BY <1>2, <1>6, <2>1
<1>7. CASE transaction = "Read" /\ ReadInOrder
  <2>1. /\ Last(asked) = "read" /\ Reading
        /\ \/ /\ Len(missionItems) + 1 \in DOMAIN onVehicle
              /\ Answer = ItemAt(Len(missionItems) + 1, onVehicle[Len(missionItems) + 1])
           \/ Answer = Ack(FALSE)
    BY <1>1, <1>7 DEF Mirror, ReadInOrder, Reading
  <2> QED BY <1>2, <1>7, <2>1
<1>8. CASE transaction = "Write" /\ Guiding
  <2>1. Answer.type = "ack"
    BY <1>1, <1>8 DEF Guiding
  <2> QED BY <1>8, <2>1
<1>9. CASE transaction = "Write" /\ Writing /\ WriteBlocked
  <2>1. \/ Answer.type = "request" /\ Requested(Answer.i) = Answer.i
        \/ Answer.type = "ack"
    BY <1>1, <1>9 DEF WriteBlocked
  <2> QED BY <1>9, <2>1
<1>10. CASE transaction = "Write" /\ Writing /\ WriteInOrder
  <2>1. \/ /\ writeIndex \in DOMAIN writeItems
           /\ writeCount = Len(writeItems) /\ Uploaded(writeIndex - 1)
           /\ toWrite = writeIndex..Len(writeItems) /\ Answer = Request(writeIndex)
        \/ /\ Answer.type = "ack"
           /\ Answer.ok /\ toWrite = {} => Uploaded(Len(writeItems))
    BY <1>1, <1>10 DEF WriteInOrder
  <2> QED BY <1>2, <1>10, <2>1
<1> QED BY <1>3, <1>4, <1>5, <1>6, <1>7, <1>8, <1>9, <1>10 DEF Mirror, Reading, Writing

\* When a message is lost, or is answered by nothing, the transaction goes on to
\* the timeout.
LEMMA Quieted ==
  ASSUME Mirror, Quiet', UNCHANGED <<manager, vehicle>>
  PROVE  Mirror'
<1>1. UNCHANGED <<transaction, expectedAck, timer, toRead, toWrite, missionItems, writeItems, told,
                  asked, late, failureMode, onVehicle, writeCount, writeIndex>>
  BY DEF manager, plan, vehicle
<1>2. /\ \A S : Blocked(S)' <=> Blocked(S)
      /\ \A n : InOrder(n)' <=> InOrder(n)
  BY <1>1, RequestedKept
<1>3. CASE transaction = "None"
  BY <1>1, <1>3 DEF Mirror, Idle
<1>4. CASE transaction = "RemoveAll"
  BY <1>1, <1>4 DEF Mirror, Clearing
<1>5. CASE transaction = "Write" /\ Guiding
  BY <1>1, <1>5 DEF Mirror, Guiding
<1>6. CASE transaction = "Write" /\ Writing /\ WriteBlocked
  <2>1. WriteBlocked'
    BY <1>1, <1>2, <1>6 DEF WriteBlocked
  <2> QED BY <1>1, <1>6, <2>1 DEF Mirror, Writing
<1>7. CASE transaction = "Write" /\ Writing /\ WriteInOrder
  <2>1. WriteInOrder'
    BY <1>1, <1>2, <1>7 DEF WriteInOrder
  <2> QED BY <1>1, <1>7, <2>1 DEF Mirror, Writing
<1>8. CASE transaction = "Read" /\ Reading /\ Counting
  BY <1>1, <1>8 DEF Mirror, Reading, Counting
<1>9. CASE transaction = "Read" /\ Reading /\ ReadBlocked
  <2>1. ReadBlocked'
    BY <1>1, <1>2, <1>9 DEF ReadBlocked
  <2> QED BY <1>1, <1>9, <2>1 DEF Mirror, Reading
<1>10. CASE transaction = "Read" /\ Reading /\ ReadInOrder
  <2>1. ReadInOrder'
    BY <1>1, <1>2, <1>10 DEF ReadInOrder, Downloaded, Size
  <2> QED BY <1>1, <1>10, <2>1 DEF Mirror, Reading
<1> QED BY <1>3, <1>4, <1>5, <1>6, <1>7, <1>8, <1>9, <1>10 DEF Mirror, Reading, Writing

\* The acks ahead of a question change nothing of it.
LEMMA Unmoved ==
  ASSUME LinkTypes, Mirror, Asking, Asking', Question' = Question, UNCHANGED <<manager, vehicle>>
  PROVE  Mirror'
<1>1. UNCHANGED <<transaction, expectedAck, timer, toRead, toWrite, missionItems, writeItems, told,
                  asked, late, failureMode, onVehicle, writeCount, writeIndex>>
  BY DEF manager, plan, vehicle
<1>2. /\ \A S : Blocked(S)' <=> Blocked(S)
      /\ \A n : InOrder(n)' <=> InOrder(n)
      /\ \A n : Uploaded(n)' <=> Uploaded(n)
      /\ Size' = Size
  BY <1>1, RequestedKept DEF Uploaded, Size
<1>3. ~Quiet /\ ~Answering
  BY LinkStatesDiffer
<1>4. CASE transaction = "RemoveAll"
  BY <1>1, <1>3, <1>4 DEF Mirror, Clearing, Clear
<1>5. CASE transaction = "Write" /\ Guiding
  BY <1>1, <1>3, <1>5 DEF Mirror, Guiding, Guided
<1>6. CASE transaction = "Write" /\ Writing /\ WriteBlocked
  <2>1. WriteBlocked'
    BY <1>1, <1>2, <1>3, <1>6 DEF WriteBlocked
  <2> QED BY <1>1, <1>6, <2>1 DEF Mirror, Writing
<1>7. CASE transaction = "Write" /\ Writing /\ WriteInOrder
  <2>1. WriteInOrder'
    BY <1>1, <1>2, <1>3, <1>7 DEF WriteInOrder, Count, ItemAt
  <2> QED BY <1>1, <1>7, <2>1 DEF Mirror, Writing
<1>8. CASE transaction = "Read" /\ Reading /\ Counting
  BY <1>1, <1>3, <1>8 DEF Mirror, Reading, Counting, List
<1>9. CASE transaction = "Read" /\ Reading /\ ReadBlocked
  <2>1. ReadBlocked'
    BY <1>1, <1>2, <1>3, <1>9 DEF ReadBlocked
  <2> QED BY <1>1, <1>9, <2>1 DEF Mirror, Reading
<1>10. CASE transaction = "Read" /\ Reading /\ ReadInOrder
  <2>1. ReadInOrder'
    BY <1>1, <1>2, <1>3, <1>10 DEF ReadInOrder, Downloaded, Request
  <2> QED BY <1>1, <1>10, <2>1 DEF Mirror, Reading
<1> QED BY <1>3, <1>4, <1>5, <1>6, <1>7, <1>8, <1>9, <1>10 DEF Mirror, Reading, Writing, Idle

-----------------------------------------------------------------------------
(* The vehicle's steps.                                                       *)

\* What a step of the vehicle leaves alone.
LEMMA VehicleFrame ==
  ASSUME NEW type, Handle(type)
  PROVE  /\ UNCHANGED <<transaction, expectedAck, timer, toRead, toWrite, missionItems, writeItems,
                        told, asked, late, failureMode, manager>>
         /\ \A S : Blocked(S)' <=> Blocked(S)
         /\ \A n : InOrder(n)' <=> InOrder(n)
         /\ \A i : Requested(i)' = Requested(i)
<1>1. UNCHANGED <<transaction, expectedAck, timer, toRead, toWrite, missionItems, writeItems,
                  told, asked, late, failureMode, manager>>
  BY DEF Handle, manager, plan
<1> QED BY <1>1, RequestedKept

\* The count it answers is the number of its items.
LEMMA VehicleListMirrors == ASSUME Types, Mirror, VehicleRequestList PROVE Mirror'
<1>1. /\ Handle("list") /\ Respond(Count(Size)) /\ UNCHANGED <<onVehicle, writeCount, writeIndex>>
      /\ LinkTypes
  BY TypesSplit DEF VehicleRequestList, Count, Size
<1>2. Asking /\ Question.type = "list" /\ down = <<>> /\ up' = <<>>
  BY <1>1, Handled
<1>3. transaction = "Read" /\ Last(asked) = "read" /\ Counting
  BY <1>1, <1>2, QuestionModes
<1>4. Answering' /\ Answer' = Count(Size)
  BY <1>1, <1>2 DEF Respond, Answering, Answer
<1>5. Size' = Size
  BY <1>1 DEF Size
<1>6. UNCHANGED <<transaction, expectedAck, missionItems, asked>>
  BY <1>1, VehicleFrame
<1>7. Counting'
  BY <1>3, <1>4, <1>5, <1>6 DEF Counting, Count
<1> QED BY <1>3, <1>6, <1>7 DEF Mirror, Reading

\* The item it answers is the one it has there, or one that leaves the read blocked.
LEMMA VehicleRequestMirrors == ASSUME Types, Mirror, VehicleRequest PROVE Mirror'
<1>0. PICK i : i = Requested(Head(up).i)
  OBVIOUS
<1>1. Handle("request") /\ UNCHANGED <<onVehicle, writeCount, writeIndex>> /\ LinkTypes
  BY TypesSplit DEF VehicleRequest
<1>2. /\ Asking /\ Question.type = "request" /\ Question = Head(up) /\ Question \in ToVehicle
      /\ down = <<>> /\ up' = <<>>
  BY <1>1, Handled
<1>3. /\ transaction = "Read" /\ Last(asked) = "read"
      /\ ReadBlocked \/ (ReadInOrder /\ Question = Request(Len(missionItems) + 1))
  BY <1>1, <1>2, QuestionModes
<1>4. /\ UNCHANGED <<transaction, expectedAck, toRead, missionItems, asked, failureMode, manager>>
      /\ \A S : Blocked(S)' <=> Blocked(S)
      /\ \A n : InOrder(n)' <=> InOrder(n)
      /\ \A j : Requested(j)' = Requested(j)
  BY <1>1, VehicleFrame
<1>5. Question.i \in Index
  BY <1>2 DEF ToVehicle, Message, ItemMessage, RequestMessage, CountMessage, AckMessage
<1>6. CASE i \notin DOMAIN onVehicle
  <2>1. Quiet'
    BY <1>0, <1>2, <1>6 DEF VehicleRequest, Quiet, Acks
  <2> QED BY <1>1, <1>4, <2>1, Quieted DEF vehicle
<1>7. CASE i \in DOMAIN onVehicle
  <2>1. Respond(ItemAt(i, onVehicle[i]))
    BY <1>0, <1>7 DEF VehicleRequest, ItemAt
  <2>2. Answering' /\ Answer' = ItemAt(i, onVehicle[i])
    BY <1>2, <2>1 DEF Respond, Answering, Answer
  <2>3. CASE ReadBlocked
    <3>1. Requested(i) = i
      BY <1>0, <1>2, <1>5, RequestedTwice
    <3>2. Answer'.type = "item" /\ Answer'.i = i
      BY <2>2 DEF ItemAt
    <3>3. (Requested(Answer.i) = Answer.i)'
      BY <1>4, <3>1, <3>2 DEF Requested, Fails
    <3>4. ReadBlocked'
      BY <1>4, <2>2, <2>3, <3>2, <3>3 DEF ReadBlocked
    <3> QED BY <1>3, <1>4, <3>4 DEF Mirror, Reading
  <2>4. CASE ReadInOrder /\ Question = Request(Len(missionItems) + 1)
    <3> DEFINE next == Len(missionItems) + 1
    <3>1. /\ InOrder(Size) /\ next <= Size /\ expectedAck = "Item" /\ toRead = next..Size
          /\ Downloaded(Len(missionItems))
      BY <2>4 DEF ReadInOrder
    <3>2. next \in 1..Size /\ next \in Nat /\ Size \in Nat
      BY <3>1, TypesSplit, LenProperties, FS_CardinalityType DEF Size, PlanTypes, VehicleTypes
    <3>3. i = next
      BY <1>0, <1>2, <2>4, <3>1, <3>2 DEF InOrder, Request
    <3>4. Answer' = ItemAt(next, onVehicle[next]) /\ next \in DOMAIN onVehicle
      BY <1>7, <2>2, <3>3
    <3>5. Size' = Size /\ Downloaded(Len(missionItems))' /\ next' = next
      BY <1>1, <1>4, <3>1 DEF Size, Downloaded
    <3>6. ReadInOrder'
      BY <1>1, <1>4, <2>2, <3>1, <3>4, <3>5 DEF ReadInOrder, ItemAt
    <3> QED BY <1>3, <1>4, <3>6 DEF Mirror, Reading
  <2> QED BY <1>3, <2>3, <2>4
<1> QED BY <1>6, <1>7

\* A refusal ends nothing well.
LEMMA VehicleRefusesMirrors == ASSUME Types, Mirror, VehicleRefuses PROVE Mirror'
<1>1. /\ Handle("request") \/ Handle("guided")
      /\ Respond(Ack(FALSE)) /\ UNCHANGED <<onVehicle, writeCount, writeIndex>> /\ LinkTypes
  BY TypesSplit DEF VehicleRefuses
<1>2. Asking /\ Question.type \in {"request", "guided"} /\ down = <<>> /\ up' = <<>>
  BY <1>1, Handled
<1>3. Answering' /\ Answer' = Ack(FALSE) /\ Answer'.type = "ack"
  BY <1>1, <1>2 DEF Respond, Answering, Answer, Ack
<1>4. /\ UNCHANGED <<transaction, expectedAck, toRead, missionItems, asked>>
      /\ \A S : Blocked(S)' <=> Blocked(S)
      /\ \A n : InOrder(n)' <=> InOrder(n)
  BY <1>1, VehicleFrame
<1>5. CASE transaction = "Write" /\ Guiding
  <2>1. Guiding'
    BY <1>3, <1>4, <1>5 DEF Guiding
  <2> QED BY <1>4, <1>5, <2>1 DEF Mirror
<1>6. CASE transaction = "Read" /\ Last(asked) = "read" /\ ReadBlocked
  <2>1. ReadBlocked'
    BY <1>3, <1>4, <1>6 DEF ReadBlocked, Ack
  <2> QED BY <1>4, <1>6, <2>1 DEF Mirror, Reading
<1>7. CASE transaction = "Read" /\ Last(asked) = "read" /\ ReadInOrder
  <2>1. ReadInOrder'
    BY <1>1, <1>3, <1>4, <1>7 DEF ReadInOrder, Ack, Size, Downloaded
  <2> QED BY <1>4, <1>7, <2>1 DEF Mirror, Reading
<1> QED BY <1>1, <1>2, <1>5, <1>6, <1>7, QuestionModes

\* Its next request is for the next item, or for the one it takes it for.
LEMMA NextRequested ==
  ASSUME down = <<>>, up' = <<>>, NEW i \in Index, VehicleRequestNext(i)
  PROVE  Answering' /\ (Answer' = Request(Requested(i)) \/ Answer' = Ack(FALSE))
<1>1. CASE Respond(Request(Requested(i)))
  BY <1>1 DEF Respond, Answering, Answer
<1>2. CASE Respond(Ack(FALSE))
  BY <1>2 DEF Respond, Answering, Answer
<1> QED BY <1>1, <1>2 DEF VehicleRequestNext, Request

\* A write that is blocked stays so, whatever the vehicle asks for next.
LEMMA BlockedAnswered ==
  ASSUME WriteBlocked, Writing, transaction = "Write", NEW type, Handle(type), Answering',
         \/ \E ok \in BOOLEAN : Answer' = Ack(ok)
         \/ \E i \in Index : Answer' = Request(Requested(i))
  PROVE  Mirror'
<1>1. /\ UNCHANGED <<transaction, expectedAck, toWrite, asked, failureMode>>
      /\ \A S : Blocked(S)' <=> Blocked(S)
  BY VehicleFrame
<1>2. WriteBlocked'
  <2>1. CASE \E ok \in BOOLEAN : Answer' = Ack(ok)
    <3>1. Answer'.type = "ack"
      BY <2>1 DEF Ack
    <3> QED BY <1>1, <3>1 DEF WriteBlocked
  <2>2. ASSUME NEW i \in Index, Answer' = Request(Requested(i)) PROVE WriteBlocked'
    <3>1. Answer'.type = "request" /\ Answer'.i = Requested(i)
      BY <2>2 DEF Request
    <3>2. Requested(Requested(i)) = Requested(i)
      BY RequestedTwice
    <3>3. (Requested(Answer.i) = Answer.i)'
      BY <1>1, <3>1, <3>2 DEF Requested, Fails
    <3> QED BY <1>1, <3>1, <3>3 DEF WriteBlocked
  <2> QED BY <2>1, <2>2
<1> QED BY <1>1, <1>2 DEF Mirror, Writing

\* A new count begins the upload anew.
LEMMA VehicleCountMirrors == ASSUME Types, Mirror, VehicleCount PROVE Mirror'
<1>1. /\ Handle("count") /\ onVehicle' = <<>> /\ writeCount' = Head(up).n
      /\ IF writeCount' = 0 THEN Respond(Ack(TRUE)) /\ UNCHANGED writeIndex
         ELSE writeIndex' = 1 /\ VehicleRequestNext(1)
      /\ LinkTypes
  BY TypesSplit DEF VehicleCount
<1>2. Asking /\ Question.type = "count" /\ Question = Head(up) /\ down = <<>> /\ up' = <<>>
  BY <1>1, Handled
<1>3. 1 \in Index /\ Len(writeItems) \in Nat /\ DOMAIN writeItems = 1..Len(writeItems)
  BY TypesSplit, LenProperties DEF Index, PlanTypes
<1>4. Answering' /\ (Answer' = Ack(TRUE) \/ Answer' = Ack(FALSE) \/ Answer' = Request(Requested(1)))
  <2>1. CASE writeCount' = 0
    <3>1. Respond(Ack(TRUE))
      BY <1>1, <2>1
    <3> QED BY <1>2, <3>1 DEF Respond, Answering, Answer
  <2>2. CASE writeCount' # 0
    <3>1. VehicleRequestNext(1)
      BY <1>1, <2>2
    <3> QED BY <1>2, <1>3, <3>1, NextRequested
  <2> QED BY <2>1, <2>2
<1>5. CASE transaction = "Write" /\ Writing /\ WriteBlocked
  BY <1>1, <1>3, <1>4, <1>5, BlockedAnswered
<1>6. CASE /\ transaction = "Write" /\ Writing /\ WriteInOrder
           /\ toWrite = DOMAIN writeItems /\ Question = Count(Len(writeItems))
  <2>1. /\ UNCHANGED <<transaction, expectedAck, toWrite, writeItems, asked>>
        /\ \A n : InOrder(n)' <=> InOrder(n)
    BY <1>1, VehicleFrame
  <2>2. writeCount' = Len(writeItems) /\ InOrder(Len(writeItems))
    BY <1>1, <1>2, <1>6 DEF Count, WriteInOrder
  <2>3. Uploaded(0)'
    <3>1. DOMAIN onVehicle' = {}
      BY <1>1
    <3> QED BY <3>1 DEF Uploaded
  <2>4. (WriteInOrder)'
    <3>1. CASE Len(writeItems) = 0
      <4>1. Answer'.type = "ack"
        <5>1. Respond(Ack(TRUE))
          BY <1>1, <2>2, <3>1
        <5> QED BY <1>2, <5>1 DEF Respond, Answer, Ack
      <4>2. Uploaded(Len(writeItems))'
        BY <2>1, <2>3, <3>1
      <4> QED BY <1>4, <1>6, <2>1, <2>2, <4>1, <4>2 DEF WriteInOrder
    <3>2. CASE Len(writeItems) # 0 /\ Answer' = Ack(FALSE)
      <4>1. Answer'.type = "ack" /\ Answer'.ok = FALSE
        BY <3>2 DEF Ack
      <4> QED BY <1>4, <1>6, <2>1, <2>2, <4>1 DEF WriteInOrder
    <3>3. CASE Len(writeItems) # 0 /\ Answer' # Ack(FALSE)
      <4>1. writeIndex' = 1 /\ VehicleRequestNext(1)
        BY <1>1, <2>2, <3>3
      <4>2. Answer' = Request(Requested(1))
        BY <1>2, <1>3, <3>3, <4>1, NextRequested
      <4>3. Requested(1) = 1 /\ 1 \in DOMAIN writeItems
        BY <1>3, <2>2, <3>3 DEF InOrder
      <4>4. Uploaded(writeIndex - 1)'
        BY <2>3, <4>1
      <4>5. Answer' = Request(1)
        BY <4>2, <4>3
      <4>6. toWrite' = 1..Len(writeItems)
        BY <1>3, <1>6, <2>1
      <4> QED BY <1>3, <1>4, <1>6, <2>1, <2>2, <4>1, <4>3, <4>4, <4>5, <4>6 DEF WriteInOrder, Request
    <3> QED BY <3>1, <3>2, <3>3
  <2> QED BY <1>6, <2>1, <2>4 DEF Mirror, Writing
<1>7. ~\E i, x : Question = ItemAt(i, x)
  BY <1>2 DEF ItemAt
<1> QED BY <1>1, <1>2, <1>5, <1>6, <1>7, QuestionModes

\* The item it gets is the next one of the upload.
LEMMA VehicleItemMirrors == ASSUME Types, Mirror, VehicleItem PROVE Mirror'
<1>0. PICK m, w : m = Head(up) /\ w = writeIndex + 1
  OBVIOUS
<1>1. /\ Handle("item") /\ writeIndex' = w /\ UNCHANGED writeCount
      /\ onVehicle' = [i \in DOMAIN onVehicle \cup {m.i} |-> IF i = m.i THEN m.item ELSE onVehicle[i]]
      /\ IF w <= writeCount
         THEN VehicleRequestNext(w) \/ (Fails("MissingRequests") /\ Respond(Ack(TRUE)))
         ELSE Respond(Ack(TRUE)) \/ (Fails("ErrorAck") /\ Respond(Ack(FALSE)))
      /\ LinkTypes
  BY <1>0, TypesSplit DEF VehicleItem
<1>2. Asking /\ Question.type = "item" /\ Question = m /\ down = <<>> /\ up' = <<>>
  BY <1>0, <1>1, Handled
<1>3. w \in Index /\ Len(writeItems) \in Nat /\ DOMAIN writeItems = 1..Len(writeItems)
  BY <1>0, TypesSplit, LenProperties DEF Index, PlanTypes, VehicleTypes
<1>4. /\ Answering'
      /\ \/ w <= writeCount /\ Answer' = Request(Requested(w))
         \/ w <= writeCount /\ Answer' = Ack(TRUE)
         \/ ~(w <= writeCount) /\ Answer' = Ack(TRUE)
         \/ Answer' = Ack(FALSE)
  <2>1. CASE VehicleRequestNext(w) /\ w <= writeCount
    BY <1>2, <1>3, <2>1, NextRequested
  <2>2. ASSUME NEW ok, Respond(Ack(ok)) PROVE Answering' /\ Answer' = Ack(ok)
    BY <1>2, <2>2 DEF Respond, Answering, Answer
  <2> QED BY <1>1, <2>1, <2>2
<1>5. CASE transaction = "Write" /\ Writing /\ WriteBlocked
  BY <1>1, <1>3, <1>4, <1>5, BlockedAnswered
<1>6. CASE /\ transaction = "Write" /\ Writing /\ WriteInOrder /\ writeIndex \in DOMAIN writeItems
           /\ writeCount = Len(writeItems) /\ Uploaded(writeIndex - 1)
           /\ toWrite = (writeIndex + 1)..Len(writeItems)
           /\ Question = ItemAt(writeIndex, writeItems[writeIndex])
  <2>1. /\ UNCHANGED <<transaction, expectedAck, toWrite, writeItems, asked>>
        /\ \A n : InOrder(n)' <=> InOrder(n)
        /\ InOrder(Len(writeItems))
    BY <1>1, <1>6, VehicleFrame DEF WriteInOrder
  <2>2. /\ writeIndex = w - 1 /\ w - 1 \in 1..Len(writeItems) /\ m.i = w - 1
        /\ m.item = writeItems[w - 1] /\ toWrite = w..Len(writeItems) /\ w \in Nat
    BY <1>0, <1>2, <1>3, <1>6 DEF ItemAt, Index
  <2>3. Uploaded(w - 1)'
    <3>1. DOMAIN onVehicle = 1..(w - 2) /\ \A j \in 1..(w - 2) : onVehicle[j] = writeItems[j]
      BY <1>6, <2>2 DEF Uploaded
    <3>2. DOMAIN onVehicle' = DOMAIN onVehicle \cup {w - 1}
      BY <1>1, <2>2
    <3>3. 1..(w - 1) = 1..(w - 2) \cup {w - 1}
      BY <2>2
    <3>4. \A j \in 1..(w - 1) : onVehicle'[j] = writeItems[j]
      BY <1>1, <2>2, <3>1, <3>2, <3>3
    <3> QED BY <2>1, <3>1, <3>2, <3>3, <3>4 DEF Uploaded
  <2>4. 1 \notin toWrite'
    BY <2>1, <2>2
  <2>5. WriteInOrder'
    <3>1. CASE Answer' = Ack(FALSE)
      <4>1. Answer'.type = "ack" /\ Answer'.ok = FALSE
        BY <3>1 DEF Ack
      <4> QED BY <1>4, <2>1, <2>4, <4>1 DEF WriteInOrder
    <3>2. CASE w <= writeCount /\ Answer' = Ack(TRUE)
      <4>1. Answer'.type = "ack"
        BY <3>2 DEF Ack
      <4>2. toWrite' # {}
        BY <1>6, <2>1, <2>2, <3>2
      <4> QED BY <1>4, <2>1, <2>4, <4>1, <4>2 DEF WriteInOrder
    <3>3. CASE ~(w <= writeCount) /\ Answer' = Ack(TRUE)
      <4>1. Answer'.type = "ack"
        BY <3>3 DEF Ack
      <4>2. w - 1 = Len(writeItems)
        BY <1>3, <1>6, <2>2, <3>3
      <4>3. Uploaded(Len(writeItems))'
        BY <2>1, <2>3, <4>2
      <4> QED BY <1>4, <2>1, <2>4, <4>1, <4>3 DEF WriteInOrder
    <3>4. CASE w <= writeCount /\ Answer' = Request(Requested(w))
      <4>1. w \in 1..Len(writeItems)
        BY <1>3, <1>6, <2>2, <3>4
      <4>2. Answer' = Request(w)
        BY <2>1, <3>4, <4>1 DEF InOrder
      <4>3. Uploaded(writeIndex - 1)' /\ writeCount' = Len(writeItems)
        BY <1>1, <1>6, <2>3
      <4> QED BY <1>1, <1>3, <1>4, <2>1, <2>2, <2>4, <4>1, <4>2, <4>3 DEF WriteInOrder, Request
    <3> QED BY <1>4, <3>1, <3>2, <3>3, <3>4
  <2> QED BY <1>6, <2>1, <2>5 DEF Mirror, Writing
<1>7. ~\E n : Question = Count(n)
  BY <1>2 DEF Count
<1> QED BY <1>1, <1>2, <1>5, <1>6, <1>7, QuestionModes

\* A mission that is cleared is gone.
LEMMA VehicleClearMirrors == ASSUME Types, Mirror, VehicleClearAll PROVE Mirror'
<1>1. Handle("clear") /\ onVehicle' = <<>> /\ Respond(Ack(TRUE)) /\ LinkTypes
  BY TypesSplit DEF VehicleClearAll
<1>2. Asking /\ Question.type = "clear" /\ down = <<>> /\ up' = <<>>
  BY <1>1, Handled
<1>3. transaction = "RemoveAll" /\ Clearing
  BY <1>1, <1>2, QuestionModes
<1>4. Answering' /\ Answer' = Ack(TRUE)
  BY <1>1, <1>2 DEF Respond, Answering, Answer
<1>5. UNCHANGED <<transaction, expectedAck, missionItems, asked>>
  BY <1>1, VehicleFrame
<1>6. Clearing'
  BY <1>1, <1>3, <1>4, <1>5 DEF Clearing, Ack
<1> QED BY <1>3, <1>5, <1>6 DEF Mirror

\* A guided item leaves the mission of the vehicle as it is.
LEMMA VehicleGuidedMirrors == ASSUME Types, Mirror, VehicleGuided PROVE Mirror'
<1>1. Handle("guided") /\ Respond(Ack(TRUE)) /\ LinkTypes
  BY TypesSplit DEF VehicleGuided
<1>2. Asking /\ Question.type = "guided" /\ down = <<>> /\ up' = <<>>
  BY <1>1, Handled
<1>3. transaction = "Write" /\ Guiding
  BY <1>1, <1>2, QuestionModes
<1>4. Answering' /\ Answer'.type = "ack"
  BY <1>1, <1>2 DEF Respond, Answering, Answer, Ack
<1>5. UNCHANGED <<transaction, expectedAck, asked>>
  BY <1>1, VehicleFrame
<1>6. Guiding'
  BY <1>3, <1>4, <1>5 DEF Guiding
<1> QED BY <1>3, <1>5, <1>6 DEF Mirror

\* An ack that the vehicle receives changes nothing there.
LEMMA VehicleAckMirrors == ASSUME Types, Mirror, VehicleAck PROVE Mirror'
<1>1. /\ Handle("ack") /\ UNCHANGED <<down, onVehicle, writeCount, writeIndex>> /\ LinkTypes
  BY TypesSplit DEF VehicleAck
<1>2. UNCHANGED <<manager, vehicle>>
  BY <1>1, VehicleFrame DEF vehicle
<1>3. CASE Quiet
  <2>1. Quiet'
    BY <1>1, <1>3, Handled DEF Quiet
  <2> QED BY <1>2, <2>1, Quieted
<1>4. CASE Asking
  BY <1>1, <1>2, <1>4, Handled, Unmoved
<1> QED BY <1>1, <1>3, <1>4, Handled

\* Whichever message the vehicle takes, its answer is the only one on the link, and the right one.
LEMMA VehicleMirrors == ASSUME Types, Mirror, Vehicle PROVE Mirror'
BY VehicleListMirrors, VehicleRequestMirrors, VehicleRefusesMirrors, VehicleCountMirrors,
   VehicleItemMirrors, VehicleClearMirrors, VehicleGuidedMirrors, VehicleAckMirrors DEF Vehicle

\* What is lost is a question, an answer or an ack ahead.
LEMMA LoseMirrors == ASSUME Types, Mirror, Lose PROVE Mirror'
<1>1. UNCHANGED <<manager, vehicle>> /\ LinkTypes
  BY TypesSplit DEF Lose
<1>2. CASE up # <<>> /\ up' = Tail(up) /\ down' = down
  <2>1. /\ up \in Seq(ToVehicle) /\ Len(up) \in Nat /\ Len(up) > 0 /\ Len(up') = Len(up) - 1
        /\ \A i \in 1..Len(up') : up'[i] = up[i + 1]
    BY <1>1, <1>2, HeadTailProperties, LenProperties, EmptySeq DEF LinkTypes
  <2>2. CASE Quiet
    <3>1. Quiet'
      BY <1>2, <2>1, <2>2 DEF Quiet, Acks
    <3> QED BY <1>1, <3>1, Quieted
  <2>3. CASE Asking /\ Len(up) = 1
    <3>1. Quiet'
      BY <1>2, <2>1, <2>3 DEF Asking, Quiet, Acks
    <3> QED BY <1>1, <3>1, Quieted
  <2>4. CASE Asking /\ Len(up) # 1
    <3>1. Len(up) - 1 \in 1..Len(up') /\ up'[Len(up) - 1] = up[(Len(up) - 1) + 1]
      BY <2>1, <2>4
    <3>2. Question' = Question
      BY <2>1, <3>1 DEF Question
    <3>3. up' # <<>>
      <4>1. Len(up') # 0
        BY <2>1, <2>4
      <4> QED BY <4>1, EmptySeq
    <3>4. \A i \in 1..(Len(up') - 1) : up'[i].type = "ack"
      BY <2>1, <2>4 DEF Asking
    <3>5. Asking'
      BY <1>2, <2>4, <3>2, <3>3, <3>4 DEF Asking
    <3> QED BY <1>1, <2>4, <3>2, <3>5, Unmoved
  <2> QED BY <1>2, <2>2, <2>3, <2>4, LinkStates DEF Answering
<1>3. CASE down # <<>> /\ down' = Tail(down) /\ up' = up
  <2>1. Answering
    BY <1>3, LinkStates DEF Quiet, Asking
  <2>2. Quiet'
    BY <1>3, <2>1 DEF Answering, Quiet, Acks
  <2> QED BY <1>1, <2>2, Quieted
<1> QED BY <1>2, <1>3 DEF Lose

-----------------------------------------------------------------------------
(* The manager's steps.                                                       *)

\* A list of items is the vehicle's mission when it agrees at every position.
LEMMA SameMission ==
  ASSUME VehicleTypes, NEW items \in Seq(Item), DOMAIN onVehicle = 1..Len(items),
         \A j \in 1..Len(items) : items[j] = onVehicle[j]
  PROVE  items = onVehicle
<1>1. items \in [1..Len(items) -> Item] /\ onVehicle \in [1..Len(items) -> Item]
  BY LenProperties DEF VehicleTypes
<1> QED BY <1>1

\* The least of a range of positions is its first.
LEMMA FirstOfRange ==
  ASSUME NEW a \in Nat, NEW b \in Nat, a <= b
  PROVE  (CHOOSE i \in a..b : \A j \in a..b : i <= j) = a
<1>1. a \in a..b /\ \A j \in a..b : a <= j
  OBVIOUS
<1>2. \A i \in a..b : (\A j \in a..b : i <= j) => i = a
  BY <1>1
<1> QED BY <1>1, <1>2

\* A transaction in progress awaits what belongs to it.
LEMMA AckModes ==
  ASSUME Mirror, transaction # "None"
  PROVE  /\ expectedAck = "Count" => transaction = "Read" /\ Last(asked) = "read" /\ Counting
         /\ expectedAck = "Item" =>
              transaction = "Read" /\ Last(asked) = "read" /\ (ReadBlocked \/ ReadInOrder)
         /\ expectedAck = "Request" => transaction = "Write" /\ Writing
         /\ expectedAck = "ClearAll" => transaction = "RemoveAll" /\ Clearing
         /\ expectedAck = "Guided" => transaction = "Write" /\ Guiding
         /\ expectedAck # "None"
BY DEF Mirror, Idle, Clearing, Guiding, Writing, Reading, Counting, ReadBlocked, ReadInOrder

\* What is reported as an error promises nothing.
LEMMA Failed ==
  ASSUME transaction # "None", NEW items, _finishTransaction(FALSE, items), Quiet', timer' = FALSE
  PROVE  Mirror'
<1>1. transaction' = "None" /\ told' = "error"
  BY DEF _finishTransaction
<1> QED BY <1>1 DEF Mirror, Idle

\* A success promises that the manager has what the vehicle has.
LEMMA Succeeded ==
  ASSUME transaction # "None", NEW items, _finishTransaction(TRUE, items), Quiet', timer' = FALSE,
         UNCHANGED <<asked, onVehicle>>,
         Last(asked) = "guided" \/ Finished(TRUE, items) = onVehicle
  PROVE  Mirror'
<1>1. transaction' = "None" /\ missionItems' = Finished(TRUE, items)
  BY DEF _finishTransaction
<1> QED BY <1>1 DEF Mirror, Idle

\* A transaction that asks for its mission anew is where it was when it began, as
\* nothing of it is under way.
LEMMA TimeoutMirrors == ASSUME Types, Mirror, _ackTimeout, ~late' PROVE Mirror'
<1>1. /\ timer /\ up = <<>> /\ down = <<>> /\ down' = <<>> /\ Acks(up)
      /\ UNCHANGED <<asked, failureMode, onVehicle, writeCount, writeIndex>>
  <2>1. timer /\ late' = (late \/ up # <<>> \/ down # <<>>) /\ UNCHANGED <<asked, down, vehicle>>
    BY DEF _ackTimeout
  <2>2. up = <<>> /\ down = <<>>
    BY <2>1
  <2> QED BY <2>1, <2>2 DEF vehicle, Acks
<1>2. transaction # "None"
  BY <1>1 DEF Mirror, Idle
<1>3. up \in Seq(ToVehicle) /\ PlanTypes /\ ControlTypes /\ VehicleTypes /\ Wanted
  BY TypesSplit DEF LinkTypes
<1>4. /\ \A S : Blocked(S)' <=> Blocked(S)
      /\ \A n : InOrder(n)' <=> InOrder(n)
  BY <1>1, RequestedKept
<1>5. ASSUME NEW ack, GiveUp(ack) PROVE Mirror'
  <2>1. _finishTransaction(FALSE, missionItems) /\ timer' = FALSE /\ up' = up
    BY <1>5 DEF GiveUp
  <2>2. Quiet'
    BY <1>1, <2>1 DEF Quiet, Acks
  <2> QED BY <1>2, <2>1, <2>2, Failed
<1>6. CASE expectedAck = "Count" /\ ~Exhausted /\ Retry(_requestList)
  <2>1. /\ missionItems' = <<>> /\ Send(List) /\ expectedAck' = "Count"
        /\ UNCHANGED transaction
    BY <1>6 DEF Retry, _requestList, _startAckTimeout, List
  <2>2. List \in ToVehicle /\ List.type # "ack"
    BY DEF ToVehicle, List
  <2>3. Asking' /\ Question' = List
    BY <1>1, <1>3, <2>1, <2>2, Posed
  <2>4. Counting'
    BY <2>1, <2>3 DEF Counting, List
  <2> QED BY <1>1, <1>2, <1>6, <2>1, <2>4, AckModes DEF Mirror, Reading
<1>7. CASE expectedAck = "Item" /\ ~Exhausted /\ Retry(
           /\ _requestNextMissionItem(toRead)
           /\ UNCHANGED <<toRead, toWrite, missionItems, writeItems, resumeMission>>)
  <2>0. PICK i : i = CHOOSE n \in toRead : \A j \in toRead : n <= j
    OBVIOUS
  <2>1. /\ Send(Request(i)) /\ expectedAck' = "Item"
        /\ UNCHANGED <<transaction, toRead, missionItems>>
    BY <1>7, <2>0 DEF Retry, _requestNextMissionItem, _startAckTimeout, Request
  <2>2. i \in Index
    <3>1. toRead # {} /\ toRead \subseteq Index /\ toRead \subseteq Nat
      BY <1>3, <1>7 DEF Wanted, Exhausted, PlanTypes, Index
    <3>2. \E l \in toRead : \A j \in toRead : l <= j
      BY <3>1, FirstPosition
    <3> QED BY <2>0, <3>1, <3>2
  <2>3. Request(i) \in ToVehicle /\ Request(i).type = "request"
    BY <2>2 DEF ToVehicle, Message, RequestMessage, Request
  <2>4. Asking' /\ Question' = Request(i)
    BY <1>1, <1>3, <2>1, <2>3, Posed
  <2>5. CASE ReadBlocked
    <3>1. ReadBlocked'
      BY <1>4, <2>1, <2>3, <2>4, <2>5 DEF ReadBlocked
    <3> QED BY <1>1, <1>2, <1>7, <2>1, <3>1, AckModes DEF Mirror, Reading
  <2>6. CASE ReadInOrder
    <3>1. Size' = Size /\ Size \in Nat /\ Len(missionItems) \in Nat
      BY <1>1, <1>3, LenProperties, FS_CardinalityType DEF Size, VehicleTypes, PlanTypes
    <3>2. i = Len(missionItems) + 1
      <4>1. Len(missionItems) + 1 <= Size /\ toRead = (Len(missionItems) + 1)..Size
        BY <2>6 DEF ReadInOrder
      <4> QED BY <2>0, <3>1, <4>1, FirstOfRange
    <3>3. ReadInOrder'
      BY <1>1, <1>4, <2>1, <2>4, <2>6, <3>1, <3>2 DEF ReadInOrder, Downloaded, Request
    <3> QED BY <1>1, <1>2, <1>7, <2>1, <3>3, AckModes DEF Mirror, Reading
  <2> QED BY <1>2, <1>7, <2>5, <2>6, AckModes
<1>8. CASE /\ expectedAck = "Request" /\ 1 \in toWrite /\ ~Exhausted
           /\ Retry(/\ _writeMissionCount(writeItems)
                    /\ UNCHANGED <<toRead, toWrite, missionItems, writeItems, resumeMission>>)
  <2>1. /\ Send(Count(Len(writeItems))) /\ expectedAck' = "Request"
        /\ UNCHANGED <<transaction, toWrite, writeItems>>
    BY <1>8 DEF Retry, _writeMissionCount, _startAckTimeout, Count
  <2>2. Count(Len(writeItems)) \in ToVehicle /\ Count(Len(writeItems)).type = "count"
    BY <1>3, LenProperties DEF PlanTypes, ToVehicle, Message, CountMessage, Count
  <2>3. Asking' /\ Question' = Count(Len(writeItems))
    BY <1>1, <1>3, <2>1, <2>2, Posed
  <2>4. CASE WriteBlocked
    <3>1. WriteBlocked'
      BY <1>4, <2>1, <2>2, <2>3, <2>4 DEF WriteBlocked
    <3> QED BY <1>1, <1>2, <1>8, <2>1, <3>1, AckModes DEF Mirror, Writing
  <2>5. CASE WriteInOrder
    <3>1. WriteInOrder'
      BY <1>4, <1>8, <2>1, <2>3, <2>5 DEF WriteInOrder, Count
    <3> QED BY <1>1, <1>2, <1>8, <2>1, <3>1, AckModes DEF Mirror, Writing
  <2> QED BY <1>2, <1>8, <2>4, <2>5, AckModes DEF Writing
<1>9. CASE /\ expectedAck = "ClearAll" /\ ~Exhausted
           /\ Retry(/\ _removeAllWorker
                    /\ UNCHANGED <<toRead, toWrite, missionItems, writeItems, resumeMission>>)
  <2>1. Send(Clear) /\ expectedAck' = "ClearAll" /\ UNCHANGED <<transaction, missionItems>>
    BY <1>9 DEF Retry, _removeAllWorker, _startAckTimeout, Clear
  <2>2. Clear \in ToVehicle /\ Clear.type # "ack"
    BY DEF ToVehicle, Clear
  <2>3. Asking' /\ Question' = Clear
    BY <1>1, <1>3, <2>1, <2>2, Posed
  <2>4. Clearing'
    BY <1>1, <1>2, <1>9, <2>1, <2>3, AckModes DEF Clearing, Clear
  <2> QED BY <1>2, <1>9, <2>1, <2>4, AckModes DEF Mirror
<1>10. \A request : Exhausted /\ Retry(request) => GiveUp(expectedAck)
  BY DEF Retry
<1> QED BY <1>5, <1>6, <1>7, <1>8, <1>9, <1>10 DEF _ackTimeout

\* A count of none ends the read; any other begins it.
LEMMA CountMirrors == ASSUME Types, Mirror, _handleMissionCount PROVE Mirror'
<1>1. /\ Receive("count") /\ expectedAck = "Count" /\ LinkTypes /\ PlanTypes /\ VehicleTypes
      /\ UNCHANGED <<asked, late, failureMode, onVehicle, writeCount, writeIndex>>
  BY TypesSplit DEF _handleMissionCount, Receive, vehicle
<1>2. Answering /\ Answer.type = "count" /\ down' = <<>> /\ up = <<>> /\ Acks(up)
  BY <1>1, Received
<1>3. transaction = "Read" /\ Last(asked) = "read" /\ Counting /\ Answer = Count(Size)
  BY <1>1, <1>2, AnswerModes
<1>4. missionItems = <<>> /\ Size \in Nat /\ Head(down).n = Size /\ Size' = Size
  BY <1>1, <1>3, FS_CardinalityType DEF Counting, Size, VehicleTypes, Answer, Count
<1>5. up \in Seq(ToVehicle) /\ Len(missionItems) = 0
  BY <1>1, <1>4, EmptySeq DEF LinkTypes
<1>6. CASE Size = 0
  <2>1. /\ Send([type |-> "ack", ok |-> TRUE]) /\ timer' = FALSE
        /\ _finishTransaction(TRUE, missionItems)
    BY <1>4, <1>6 DEF _handleMissionCount, _readTransactionComplete, Disarmed
  <2>2. Quiet'
    BY <1>2, <1>5, <2>1, Acknowledged
  <2>3. DOMAIN onVehicle = {}
    BY <1>1, <1>6, FS_EmptySet DEF Size, VehicleTypes
  <2>4. missionItems = onVehicle
    <3>1. missionItems \in Seq(Item) /\ 1..Len(missionItems) = {}
      BY <1>1, <1>5 DEF PlanTypes
    <3> QED BY <1>1, <2>3, <3>1, SameMission
  <2>5. Finished(TRUE, missionItems) = onVehicle
    BY <1>3, <2>4 DEF Finished
  <2> QED BY <1>1, <1>3, <2>1, <2>2, <2>5, Succeeded
<1>7. CASE Size # 0
  <2>1. /\ toRead' = 1..Size /\ _requestNextMissionItem(1..Size)
        /\ UNCHANGED <<transaction, missionItems>>
    BY <1>4, <1>7 DEF _handleMissionCount
  <2>2. (CHOOSE i \in 1..Size : \A j \in 1..Size : i <= j) = 1
    BY <1>4, <1>7, FirstOfRange
  <2>3. Send(Request(1)) /\ expectedAck' = "Item"
    BY <2>1, <2>2 DEF _requestNextMissionItem, _startAckTimeout, Request
  <2>4. Request(1) \in ToVehicle /\ Request(1).type = "request"
    BY DEF ToVehicle, Message, RequestMessage, Request, Index
  <2>5. Asking' /\ Question' = Request(1)
    BY <1>2, <1>5, <2>3, <2>4, Posed
  <2>6. /\ \A S : Blocked(S)' <=> Blocked(S)
        /\ \A n : InOrder(n)' <=> InOrder(n)
    BY <1>1, RequestedKept
  <2>7. CASE Blocked(1..Size)
    <3>1. ReadBlocked'
      BY <2>1, <2>3, <2>4, <2>5, <2>6, <2>7 DEF ReadBlocked
    <3> QED BY <1>1, <1>3, <2>1, <3>1 DEF Mirror, Reading
  <2>8. CASE InOrder(Size)
    <3>1. Downloaded(0)' /\ Len(missionItems)' = 0 /\ 0 + 1 <= Size'
      BY <1>4, <1>5, <1>7, <2>1 DEF Downloaded
    <3>2. ReadInOrder'
      BY <1>4, <2>1, <2>3, <2>5, <2>6, <2>8, <3>1 DEF ReadInOrder, Request
    <3> QED BY <1>1, <1>3, <2>1, <3>2 DEF Mirror, Reading
  <2> QED BY <1>4, <2>7, <2>8, BlockedOrInOrder
<1> QED BY <1>6, <1>7

\* The item that was asked for is added to the mission; the last one ends the read.
LEMMA ItemMirrors == ASSUME Types, Mirror, _handleMissionItem PROVE Mirror'
<1>0. PICK m, items, left : m = Head(down) /\ items = Append(missionItems, m.item) /\ left = toRead \ {m.i}
  OBVIOUS
<1>1. /\ Receive("item") /\ expectedAck = "Item" /\ LinkTypes /\ PlanTypes /\ VehicleTypes
      /\ UNCHANGED <<asked, late, failureMode, onVehicle, writeCount, writeIndex>>
      /\ IF m.i \notin toRead
         THEN Unrequested /\ UNCHANGED <<transaction, retryCount, plan, up>>
         ELSE IF left = {} THEN _readTransactionComplete(items)
              ELSE /\ toRead' = left /\ missionItems' = items
                   /\ _requestNextMissionItem(left)
                   /\ UNCHANGED <<transaction, toWrite, writeItems, resumeMission, told>>
  BY <1>0, TypesSplit DEF _handleMissionItem, Receive, vehicle
<1>2. /\ Answering /\ Answer.type = "item" /\ Answer = m /\ m \in ItemMessage
      /\ down' = <<>> /\ up = <<>> /\ Acks(up) /\ up \in Seq(ToVehicle)
  BY <1>0, <1>1, Received, ReceiveTypes DEF Answer, LinkTypes
<1>3. /\ transaction = "Read" /\ Last(asked) = "read"
      /\ \/ ReadBlocked /\ Requested(m.i) = m.i
         \/ /\ ReadInOrder /\ Len(missionItems) + 1 \in DOMAIN onVehicle
            /\ m = ItemAt(Len(missionItems) + 1, onVehicle[Len(missionItems) + 1])
  BY <1>1, <1>2, AnswerModes
<1>4. /\ \A S : Blocked(S)' <=> Blocked(S)
      /\ \A n : InOrder(n)' <=> InOrder(n)
      /\ Size' = Size /\ Size \in Nat
  BY <1>1, RequestedKept, FS_CardinalityType DEF Size, VehicleTypes
<1>5. /\ items \in Seq(Item) /\ Len(missionItems) \in Nat /\ Len(items) = Len(missionItems) + 1
      /\ items[Len(missionItems) + 1] = m.item
      /\ \A j \in 1..Len(missionItems) : items[j] = missionItems[j]
  BY <1>0, <1>1, <1>2, Appending DEF PlanTypes, ItemMessage
<1>6. CASE ReadBlocked /\ Requested(m.i) = m.i
  <2>1. Blocked(toRead) /\ Blocked(left)
    BY <1>0, <1>6 DEF ReadBlocked, Blocked
  <2>2. CASE m.i \notin toRead
    <3>1. expectedAck' = "Item" /\ UNCHANGED <<transaction, toRead, up>>
      BY <1>1, <2>2 DEF Unrequested, _startAckTimeout, plan
    <3>2. Quiet'
      BY <1>2, <3>1 DEF Quiet, Acks
    <3>3. ReadBlocked'
      BY <1>4, <2>1, <3>1, <3>2 DEF ReadBlocked
    <3> QED BY <1>1, <1>3, <3>1, <3>3 DEF Mirror, Reading
  <2>3. CASE m.i \in toRead
    <3>0. PICK i : i = CHOOSE n \in left : \A j \in left : n <= j
      OBVIOUS
    <3>1. left # {} /\ left \subseteq Index /\ left \subseteq Nat
      BY <1>0, <1>1, <2>1 DEF Blocked, PlanTypes, Index
    <3>2. toRead' = left /\ expectedAck' = "Item" /\ Send(Request(i)) /\ UNCHANGED transaction
      BY <1>1, <2>3, <3>0, <3>1 DEF _requestNextMissionItem, _startAckTimeout, Request
    <3>3. i \in Index
      <4>1. \E l \in left : \A j \in left : l <= j
        BY <3>1, FirstPosition
      <4> QED BY <3>0, <3>1, <4>1
    <3>4. Request(i) \in ToVehicle /\ Request(i).type = "request"
      BY <3>3 DEF ToVehicle, Message, RequestMessage, Request
    <3>5. Asking' /\ Question' = Request(i)
      BY <1>2, <3>2, <3>4, Posed
    <3>6. ReadBlocked'
      BY <1>4, <2>1, <3>2, <3>4, <3>5 DEF ReadBlocked
    <3> QED BY <1>1, <1>3, <3>2, <3>6 DEF Mirror, Reading
  <2> QED BY <2>2, <2>3
<1>7. CASE /\ ReadInOrder /\ Len(missionItems) + 1 \in DOMAIN onVehicle
           /\ m = ItemAt(Len(missionItems) + 1, onVehicle[Len(missionItems) + 1])
  <2>0. PICK next : next = Len(missionItems) + 1
    OBVIOUS
  <2>1. /\ next \in Nat /\ next <= Size /\ toRead = next..Size /\ InOrder(Size)
        /\ Downloaded(next - 1) /\ m.i = next /\ m.item = onVehicle[next] /\ next \in DOMAIN onVehicle
        /\ Len(missionItems) = next - 1 /\ Len(items) = next
    BY <1>5, <1>7, <2>0 DEF ReadInOrder, ItemAt
  <2>2. left = (next + 1)..Size /\ m.i \in toRead
    BY <1>0, <1>4, <2>1
  <2>3. \A j \in 1..next : j \in DOMAIN onVehicle /\ items[j] = onVehicle[j]
    BY <1>5, <2>1 DEF Downloaded
  <2>4. CASE next = Size
    <3>1. left = {}
      BY <1>4, <2>2, <2>4
    <3>2. /\ Send([type |-> "ack", ok |-> TRUE]) /\ timer' = FALSE
          /\ _finishTransaction(TRUE, items)
      BY <1>1, <2>2, <3>1 DEF _readTransactionComplete, Disarmed
    <3>3. Quiet'
      BY <1>2, <3>2, Acknowledged
    <3>4. DOMAIN onVehicle = 1..Size
      <4>1. 1..Size \subseteq DOMAIN onVehicle
        BY <2>3, <2>4
      <4>2. Cardinality(1..Size) = Size
        BY <1>4, FS_Interval
      <4> QED BY <1>1, <4>1, <4>2, FS_Subset DEF VehicleTypes, Size
    <3>5. items = onVehicle
      BY <1>1, <1>5, <2>1, <2>3, <2>4, <3>4, SameMission
    <3>6. Finished(TRUE, items) = onVehicle
      BY <1>3, <3>5 DEF Finished
    <3> QED BY <1>1, <1>3, <3>2, <3>3, <3>6, Succeeded
  <2>5. CASE next # Size
    <3>1. next + 1 <= Size /\ left # {} /\ next + 1 \in Nat
      <4>1. next + 1 <= Size /\ next + 1 \in Nat
        BY <1>4, <2>1, <2>5
      <4>2. next + 1 \in (next + 1)..Size
        BY <1>4, <4>1
      <4> QED BY <2>2, <4>1, <4>2
    <3>2. (CHOOSE i \in left : \A j \in left : i <= j) = next + 1
      BY <1>4, <2>2, <3>1, FirstOfRange
    <3>3. /\ toRead' = left /\ missionItems' = items /\ expectedAck' = "Item"
          /\ Send(Request(next + 1)) /\ UNCHANGED transaction
      BY <1>1, <2>2, <3>1, <3>2 DEF _requestNextMissionItem, _startAckTimeout, Request
    <3>4. Request(next + 1) \in ToVehicle /\ Request(next + 1).type = "request"
      BY <2>1 DEF ToVehicle, Message, RequestMessage, Request, Index
    <3>5. Asking' /\ Question' = Request(next + 1)
      BY <1>2, <3>3, <3>4, Posed
    <3>6. Downloaded(Len(missionItems))' /\ Len(missionItems)' = next
      BY <1>1, <2>1, <2>3, <3>3 DEF Downloaded
    <3>7. ReadInOrder'
      BY <1>4, <2>1, <2>2, <3>1, <3>3, <3>5, <3>6 DEF ReadInOrder, Request
    <3> QED BY <1>1, <1>3, <3>3, <3>7 DEF Mirror, Reading
  <2> QED BY <2>4, <2>5
<1> QED BY <1>3, <1>6, <1>7

\* The item asked for is sent and counts as sent, whether it arrives or not.
LEMMA RequestMirrors == ASSUME Types, Mirror, _handleMissionRequest PROVE Mirror'
<1>0. PICK i, n : i = Head(down).i /\ n = Len(writeItems)
  OBVIOUS
<1>1. /\ Receive("request") /\ expectedAck = "Request" /\ LinkTypes /\ PlanTypes /\ VehicleTypes
      /\ UNCHANGED <<asked, late, failureMode, onVehicle, writeCount, writeIndex>>
      /\ IF i > n THEN Disarmed /\ _finishTransaction(FALSE, missionItems) /\ UNCHANGED up
         ELSE /\ toWrite' = toWrite \ {i} /\ Send(ItemAt(i, writeItems[i]))
              /\ _startAckTimeout("Request") /\ UNCHANGED <<transaction, writeItems>>
  BY <1>0, TypesSplit DEF _handleMissionRequest, Receive, vehicle, ItemAt
<1>2. /\ Answering /\ Answer.type = "request" /\ Answer.i = i /\ i \in Index
      /\ down' = <<>> /\ up = <<>> /\ Acks(up) /\ up \in Seq(ToVehicle)
  BY <1>0, <1>1, Received, ReceiveTypes DEF Answer, LinkTypes, RequestMessage
<1>3. /\ transaction = "Write" /\ Writing
      /\ \/ WriteBlocked /\ Requested(i) = i
         \/ /\ WriteInOrder /\ writeIndex \in DOMAIN writeItems
            /\ writeCount = n /\ Uploaded(writeIndex - 1)
            /\ toWrite = writeIndex..n /\ Answer = Request(writeIndex)
  BY <1>0, <1>1, <1>2, AnswerModes
<1>4. /\ \A S : Blocked(S)' <=> Blocked(S)
      /\ \A l : InOrder(l)' <=> InOrder(l)
  BY <1>1, RequestedKept
<1>5. n \in Nat /\ DOMAIN writeItems = 1..n
  BY <1>0, <1>1, LenProperties DEF PlanTypes
<1>6. CASE i > n
  <2>1. _finishTransaction(FALSE, missionItems) /\ timer' = FALSE /\ UNCHANGED up
    BY <1>1, <1>6 DEF Disarmed
  <2>2. Quiet'
    BY <1>2, <2>1 DEF Quiet, Acks
  <2> QED BY <1>3, <2>1, <2>2, Failed
<1>7. CASE ~(i > n)
  <2>1. /\ toWrite' = toWrite \ {i} /\ Send(ItemAt(i, writeItems[i])) /\ expectedAck' = "Request"
        /\ UNCHANGED <<transaction, writeItems>>
    BY <1>1, <1>7 DEF _startAckTimeout
  <2>2. i \in 1..n /\ i \in Nat
    BY <1>2, <1>5, <1>7 DEF Index
  <2>3. ItemAt(i, writeItems[i]) \in ToVehicle /\ ItemAt(i, writeItems[i]).type = "item"
    <3>1. writeItems[i] \in Item
      BY <1>0, <1>1, <2>2, ElementOfSeq DEF PlanTypes
    <3> QED BY <1>2, <3>1 DEF ToVehicle, Message, ItemMessage, ItemAt
  <2>4. Asking' /\ Question' = ItemAt(i, writeItems[i])
    BY <1>2, <2>1, <2>3, Posed
  <2>5. CASE WriteBlocked /\ Requested(i) = i
    <3>1. Blocked(toWrite')
      BY <2>1, <2>5 DEF WriteBlocked, Blocked
    <3>2. WriteBlocked'
      BY <1>4, <2>3, <2>4, <3>1 DEF WriteBlocked
    <3> QED BY <1>1, <1>3, <2>1, <3>2 DEF Mirror, Writing
  <2>6. CASE /\ WriteInOrder /\ writeIndex \in DOMAIN writeItems
             /\ writeCount = n /\ Uploaded(writeIndex - 1)
             /\ toWrite = writeIndex..n /\ Answer = Request(writeIndex)
    <3>1. i = writeIndex
      BY <1>2, <2>6 DEF Request
    <3>2. toWrite' = (i + 1)..n /\ 1 \notin toWrite'
      BY <1>5, <2>1, <2>2, <2>6, <3>1
    <3>3. Uploaded(writeIndex - 1)' /\ InOrder(n)
      BY <1>0, <1>1, <2>1, <2>6 DEF Uploaded, WriteInOrder
    <3>4. WriteInOrder'
      BY <1>0, <1>1, <1>4, <2>1, <2>4, <2>6, <3>1, <3>2, <3>3 DEF WriteInOrder, ItemAt
    <3> QED BY <1>1, <1>3, <2>1, <3>4 DEF Mirror, Writing
  <2> QED BY <1>3, <2>5, <2>6
<1> QED BY <1>6, <1>7

\* An ack ends a transaction well only if the vehicle has done what it was to do.
LEMMA AckMirrors == ASSUME Types, Mirror, _handleMissionAck PROVE Mirror'
<1>0. PICK ok : ok = Head(down).ok
  OBVIOUS
<1>1. /\ Receive("ack") /\ timer' = FALSE /\ UNCHANGED up /\ LinkTypes /\ PlanTypes /\ VehicleTypes
      /\ UNCHANGED <<asked, onVehicle>>
      /\ expectedAck # "None" => _finishTransaction(Accepted(ok), missionItems)
  BY <1>0, TypesSplit DEF _handleMissionAck, Disarmed, Receive, vehicle
<1>2. /\ Answering /\ Answer.type = "ack" /\ Answer.ok = ok /\ ok \in BOOLEAN
      /\ down' = <<>> /\ up = <<>> /\ Acks(up)
  BY <1>0, <1>1, Received, ReceiveTypes DEF Answer, AckMessage
<1>3. Quiet'
  BY <1>1, <1>2 DEF Quiet, Acks
<1>4. transaction # "None"
  BY <1>1, <1>2, AnswerModes
<1>5. expectedAck # "None" /\ _finishTransaction(Accepted(ok), missionItems)
  BY <1>1, <1>4, AckModes
<1>6. Accepted(ok) \in BOOLEAN
  BY <1>2 DEF Accepted
<1>7. CASE Accepted(ok) = FALSE
  <2>1. _finishTransaction(FALSE, missionItems)
    BY <1>5, <1>7
  <2> QED BY <1>1, <1>3, <1>4, <2>1, Failed
<1>8. CASE Accepted(ok) = TRUE
  <2>1. _finishTransaction(TRUE, missionItems)
    BY <1>5, <1>8
  <2>2. ok /\ expectedAck \in {"ClearAll", "Guided", "Request"} /\ (expectedAck = "Request" => toWrite = {})
    BY <1>2, <1>8 DEF Accepted
  <2>3. Last(asked) = "guided" \/ Finished(TRUE, missionItems) = onVehicle
    <3>1. CASE transaction = "RemoveAll" /\ Clearing /\ onVehicle = <<>>
      BY <3>1 DEF Clearing, Finished
    <3>2. CASE transaction = "Write" /\ Guiding
      BY <3>2 DEF Guiding
    <3>3. CASE transaction = "Write" /\ Writing /\ WriteBlocked
      BY <2>2, <3>3 DEF Writing, WriteBlocked, Blocked
    <3>4. CASE /\ transaction = "Write" /\ Writing /\ WriteInOrder
               /\ Answer.ok /\ toWrite = {} => Uploaded(Len(writeItems))
      <4>1. Uploaded(Len(writeItems))
        BY <1>2, <2>2, <3>4 DEF Writing
      <4>2. writeItems = onVehicle
        BY <1>1, <4>1, SameMission DEF Uploaded, PlanTypes
      <4> QED BY <3>4, <4>2 DEF Finished
    <3>5. CASE transaction = "Read" /\ Answer = Ack(FALSE)
      BY <1>2, <2>2, <3>5 DEF Ack
    <3> QED BY <1>1, <1>2, <3>1, <3>2, <3>3, <3>4, <3>5, AnswerModes
  <2> QED BY <1>1, <1>3, <1>4, <2>1, <2>3, Succeeded
<1> QED BY <1>6, <1>7, <1>8

\* What is dropped is an answer like one that is lost.
LEMMA DropMirrors == ASSUME Types, Mirror, DropSpurious PROVE Mirror'
<1>1. UNCHANGED <<manager, vehicle, up>> /\ LinkTypes /\ \E type : Receive(type)
  BY TypesSplit DEF DropSpurious, Receive, manager
<1>2. down' = <<>> /\ up = <<>>
  BY <1>1, Received
<1>3. Quiet'
  BY <1>1, <1>2 DEF Quiet, Acks
<1> QED BY <1>1, <1>3, Quieted

-----------------------------------------------------------------------------
(* The user's steps: a transaction begins on a link that is quiet.             *)

\* A transaction starts with its question on an otherwise quiet link.
LEMMA Begun ==
  ASSUME Types, Mirror, NEW kind, NEW type, Begin(kind, type), NEW m \in ToVehicle, m.type # "ack",
         Send(m)
  PROVE  /\ Asking' /\ Question' = m /\ transaction' = type /\ Last(asked') = kind
         /\ UNCHANGED <<failureMode, onVehicle, writeCount, writeIndex>>
<1>1. /\ transaction = "None" /\ transaction' = type /\ asked' = Append(asked, kind)
      /\ UNCHANGED <<down, failureMode, onVehicle, writeCount, writeIndex>>
  BY DEF Begin, vehicle
<1>2. Quiet /\ up \in Seq(ToVehicle) /\ asked \in Seq({"read", "write", "removeAll", "guided"})
  BY <1>1, TypesSplit DEF Mirror, Idle, LinkTypes, HistoryTypes
<1>3. Asking' /\ Question' = m
  BY <1>1, <1>2, Posed DEF Quiet
<1>4. Last(asked') = kind
  <2>1. PICK s : s = asked'
    OBVIOUS
  <2>2. Len(asked) \in Nat /\ Len(s) = Len(asked) + 1 /\ s[Len(asked) + 1] = kind
    <3>1. asked \in Seq({"read", "write", "removeAll", "guided"} \cup {kind})
      BY <1>2, SeqMonotonic
    <3> QED BY <1>1, <2>1, <3>1, Appending
  <2>3. Last(s) = kind
    BY <2>2 DEF Last
  <2> QED BY <2>1, <2>3
<1> QED BY <1>1, <1>3, <1>4

\* The transactions the user asks for start as the protocol has it.
LEMMA UserMirrors == ASSUME Types, Mirror, User PROVE Mirror'
<1>1. CASE loadFromVehicle
  <2>1. Begin("read", "Read") /\ missionItems' = <<>> /\ Send(List) /\ expectedAck' = "Count"
    BY <1>1 DEF loadFromVehicle, _requestList, _startAckTimeout, List
  <2>2. List \in ToVehicle /\ List.type # "ack"
    BY DEF ToVehicle, List
  <2>3. Asking' /\ Question' = List /\ transaction' = "Read" /\ Last(asked') = "read"
    BY <2>1, <2>2, Begun
  <2>4. Counting'
    BY <2>1, <2>3 DEF Counting, List
  <2> QED BY <2>3, <2>4 DEF Mirror, Reading
<1>2. CASE removeAll
  <2>1. Begin("removeAll", "RemoveAll") /\ missionItems' = <<>> /\ Send(Clear) /\ expectedAck' = "ClearAll"
    BY <1>2 DEF removeAll, _removeAllWorker, _startAckTimeout, Clear
  <2>2. Clear \in ToVehicle /\ Clear.type # "ack"
    BY DEF ToVehicle, Clear
  <2>3. Asking' /\ Question' = Clear /\ transaction' = "RemoveAll" /\ Last(asked') = "removeAll"
    BY <2>1, <2>2, Begun
  <2>4. Clearing'
    BY <2>1, <2>3 DEF Clearing, Clear
  <2> QED BY <2>3, <2>4 DEF Mirror
<1>3. CASE writeArduPilotGuidedMissionItem
  <2>1. Begin("guided", "Write") /\ Send(Guided) /\ expectedAck' = "Guided"
    BY <1>3 DEF writeArduPilotGuidedMissionItem, _startAckTimeout, Guided
  <2>2. Guided \in ToVehicle /\ Guided.type # "ack"
    BY DEF ToVehicle, Guided
  <2>3. Asking' /\ Question' = Guided /\ transaction' = "Write" /\ Last(asked') = "guided"
    BY <2>1, <2>2, Begun
  <2>4. Guiding'
    BY <2>1, <2>3 DEF Guiding, Guided
  <2> QED BY <2>3, <2>4 DEF Mirror
<1>4. ASSUME NEW items \in Seq(Item), _writeMissionItemsWorker(items) PROVE Mirror'
  <2>1. /\ Begin("write", "Write") /\ writeItems' = items /\ toWrite' = DOMAIN items
        /\ Send(Count(Len(items))) /\ expectedAck' = "Request"
    BY <1>4 DEF _writeMissionItemsWorker, _writeMissionCount, _startAckTimeout, Count
  <2>2. Len(items) \in Nat /\ DOMAIN items = 1..Len(items)
    BY LenProperties
  <2>3. Count(Len(items)) \in ToVehicle /\ Count(Len(items)).type = "count"
    BY <2>2 DEF ToVehicle, Message, CountMessage, Count
  <2>4. /\ Asking' /\ Question' = Count(Len(items)) /\ transaction' = "Write"
        /\ Last(asked') = "write" /\ UNCHANGED failureMode
    BY <2>1, <2>3, Begun
  <2>5. /\ \A S : Blocked(S)' <=> Blocked(S)
        /\ \A n : InOrder(n)' <=> InOrder(n)
    BY <2>4, RequestedKept
  <2>6. CASE Blocked(1..Len(items))
    <3>1. WriteBlocked'
      BY <2>1, <2>2, <2>3, <2>4, <2>5, <2>6 DEF WriteBlocked
    <3> QED BY <2>1, <2>4, <3>1 DEF Mirror, Writing
  <2>7. CASE InOrder(Len(items))
    <3>1. WriteInOrder'
      BY <2>1, <2>4, <2>5, <2>7 DEF WriteInOrder, Count
    <3> QED BY <2>1, <2>4, <3>1 DEF Mirror, Writing
  <2> QED BY <2>2, <2>6, <2>7, BlockedOrInOrder
<1>5. ASSUME NEW m \in Missions, writeMissionItems(m) PROVE Mirror'
  BY <1>4, <1>5, MissionsAreItems DEF writeMissionItems
<1>6. ASSUME NEW k \in 1..Len(missionItems), generateResumeMission(k) PROVE Mirror'
  <2>1. k \in 2..(Len(missionItems) - 2) /\ _writeMissionItemsWorker(ResumeMission(missionItems, k))
    BY <1>6 DEF generateResumeMission
  <2>2. missionItems \in Seq(Item) /\ k > 1
    BY <2>1, TypesSplit DEF PlanTypes
  <2>3. ResumeMission(missionItems, k) \in Seq(Item)
    BY <2>2, ResumeKeeps
  <2> QED BY <1>4, <2>1, <2>3
<1> QED BY <1>1, <1>2, <1>3, <1>5, <1>6 DEF User

-----------------------------------------------------------------------------
(* All steps.                                                                 *)

\* No outcome is reported while a transaction is in progress.
LEMMA PendingStep == ASSUME Pending, [Next]_vars PROVE Pending'
<1>1. ASSUME NEW success, NEW items, _finishTransaction(success, items) PROVE Pending'
  BY <1>1 DEF _finishTransaction, Pending
<1>2. ASSUME UNCHANGED <<transaction, told>> PROVE Pending'
  BY <1>2 DEF Pending
<1>3. CASE User
  <2>1. ASSUME NEW kind, NEW type, Begin(kind, type) PROVE Pending'
    BY <2>1 DEF Begin, Pending
  <2> QED BY <1>3, <2>1 DEF User, loadFromVehicle, removeAll, writeArduPilotGuidedMissionItem,
                            writeMissionItems, generateResumeMission, _writeMissionItemsWorker
<1>4. CASE _ackTimeout
  <2>1. ASSUME NEW ack, GiveUp(ack) PROVE Pending'
    BY <1>1, <2>1 DEF GiveUp
  <2>2. \A request : Retry(request) => GiveUp(expectedAck) \/ UNCHANGED <<transaction, told>>
    BY DEF Retry
  <2> QED BY <1>2, <1>4, <2>1, <2>2 DEF _ackTimeout
<1>5. CASE _handleMissionCount
  BY <1>1, <1>2, <1>5 DEF _handleMissionCount, _readTransactionComplete
<1>6. CASE _handleMissionItem
  BY <1>1, <1>2, <1>6 DEF _handleMissionItem, _readTransactionComplete, plan
<1>7. CASE _handleMissionRequest
  BY <1>1, <1>2, <1>7 DEF _handleMissionRequest
<1>8. CASE _handleMissionAck
  BY <1>1, <1>2, <1>8 DEF _handleMissionAck, plan
<1>9. CASE DropSpurious \/ Lose \/ UNCHANGED vars
  BY <1>2, <1>9 DEF DropSpurious, Lose, vars, manager, plan
<1>10. CASE Vehicle
  <2>1. \E type : Handle(type)
    BY <1>10 DEF Vehicle, VehicleRequestList, VehicleRequest, VehicleRefuses, VehicleCount,
                 VehicleItem, VehicleClearAll, VehicleGuided, VehicleAck
  <2> QED BY <1>2, <2>1, VehicleFrame
<1> QED BY <1>3, <1>4, <1>5, <1>6, <1>7, <1>8, <1>9, <1>10 DEF Next, Manager

\* A message that has outlived the timeout is never forgotten.
LEMMA LateForGood == ASSUME [Next]_vars, ~late' PROVE ~late
<1>1. ASSUME UNCHANGED late PROVE ~late
  BY <1>1
<1>2. CASE User
  <2>1. ASSUME NEW kind, NEW type, Begin(kind, type) PROVE UNCHANGED late
    BY <2>1 DEF Begin
  <2> QED BY <1>1, <1>2, <2>1 DEF User, loadFromVehicle, removeAll, writeArduPilotGuidedMissionItem,
                            writeMissionItems, generateResumeMission, _writeMissionItemsWorker
<1>3. CASE _ackTimeout
  BY <1>3 DEF _ackTimeout
<1>4. CASE \E type : Receive(type)
  BY <1>1, <1>4 DEF Receive
<1>5. CASE \E type : Handle(type)
  BY <1>1, <1>5, VehicleFrame
<1>6. CASE Lose \/ UNCHANGED vars
  BY <1>1, <1>6 DEF Lose, vars, manager
<1> QED BY <1>2, <1>3, <1>4, <1>5, <1>6
     DEF Next, Manager, Vehicle, DropSpurious, _handleMissionCount, _handleMissionItem,
         _handleMissionRequest, _handleMissionAck, VehicleRequestList, VehicleRequest, VehicleRefuses,
         VehicleCount, VehicleItem, VehicleClearAll, VehicleGuided, VehicleAck

\* As long as no message is late, every step keeps both sides in step with each other.
LEMMA MirrorStep == ASSUME Types, Mirror, [Next]_vars, ~late' PROVE Mirror'
<1>1. CASE UNCHANGED vars
  <2>1. UNCHANGED <<manager, vehicle, up, down>> /\ LinkTypes
    BY <1>1, TypesSplit DEF vars
  <2>2. CASE Quiet
    BY <2>1, <2>2, Quieted DEF Quiet
  <2>3. CASE Asking
    BY <2>1, <2>3, Unmoved DEF Asking, Question
  <2>4. CASE Answering
    BY <1>1, <2>1
       DEF vars, manager, plan, vehicle, Mirror, Idle, Clearing, Guiding, Writing, WriteBlocked,
           WriteInOrder, Reading, Counting, ReadBlocked, ReadInOrder, Quiet, Asking, Answering,
           Question, Answer, Uploaded, Downloaded, Size, Blocked, InOrder, Requested, Fails, Clear,
           List, Guided, Count, Request, ItemAt, Ack
  <2> QED BY <2>2, <2>3, <2>4, LinkStates
<1> QED BY <1>1, UserMirrors, TimeoutMirrors, CountMirrors, ItemMirrors, RequestMirrors, AckMirrors,
           DropMirrors, VehicleMirrors, LoseMirrors DEF Next, Manager

\* From whatever the vehicle had at first, under every loss, retry, refusal and
\* misbehaviour: a success that is reported mirrors what the vehicle has.
THEOREM SuccessCorrect == Spec => []SuccessMirrors
<1>1. Init => Mirrored
  <2> SUFFICES ASSUME Init PROVE Mirrored
    OBVIOUS
  <2>1. Quiet
    BY EmptySeq DEF Init, Quiet, Acks
  <2> QED BY <2>1 DEF Init, Mirrored, Pending, Mirror, Idle
<1>2. Mirrored /\ Types /\ [Next]_vars => Mirrored'
  <2> SUFFICES ASSUME Mirrored, Types, [Next]_vars PROVE Mirrored'
    OBVIOUS
  <2>1. Pending'
    BY PendingStep DEF Mirrored
  <2>2. ASSUME ~late' PROVE Mirror'
    BY <2>2, LateForGood, MirrorStep DEF Mirrored
  <2> QED BY <2>1, <2>2 DEF Mirrored
<1>3. Mirrored => SuccessMirrors
  <2> SUFFICES ASSUME Mirrored, told = "ok", ~late, Last(asked) # "guided"
               PROVE  missionItems = onVehicle
    BY DEF SuccessMirrors
  <2>1. transaction = "None" /\ Idle
    BY DEF Mirrored, Pending, Mirror
  <2> QED BY <2>1 DEF Idle
<1> QED BY <1>1, <1>2, <1>3, TypesAlways, PTL DEF Spec
===============================================================================
