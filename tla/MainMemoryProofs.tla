-------------------------- MODULE MainMemoryProofs ---------------------------
(***************************************************************************)
(* Proofs about main memory and its request queue, for each kind of        *)
(* memory, every burst, page and queue size, every delay and every TDM     *)
(* schedule.                                                               *)
(***************************************************************************)
EXTENDS MainMemory, FiniteSetTheorems, SequenceTheorems, TLAPS

(***************************************************************************)
(* Durations.                                                              *)
(***************************************************************************)
\* The quotient of natural numbers, by what it is used for.
LEMMA Quotient ==
  ASSUME NEW n \in Nat, NEW d \in Nat \ {0}
  PROVE  /\ n \div d \in Nat
         /\ d * (n \div d) <= n
         /\ n < d * (n \div d) + d
  OBVIOUS

LEMMA ProductMonotone ==
  ASSUME NEW m \in Nat, NEW n \in Nat, NEW k \in Nat, m <= n
  PROVE  k * m <= k * n
  OBVIOUS

LEMMA ProductAtLeast ==
  ASSUME NEW n \in Nat \ {0}, NEW k \in Nat
  PROVE  k * n \in Nat /\ k * n >= k
  OBVIOUS

LEMMA QuotientMonotone ==
  ASSUME NEW m \in Nat, NEW n \in Nat, NEW d \in Nat \ {0}, m <= n
  PROVE  m \div d <= n \div d
  OBVIOUS

\* A request is rounded up to at least one whole burst.
LEMMA AlignedSizeType ==
  ASSUME NEW address \in Nat, NEW size \in Nat \ {0}
  PROVE  /\ AlignedAddress(address) \in Nat
         /\ AlignedSize(address, size) \in Nat \ {0}
  <1> DEFINE first == address \div BurstSize
             last == (address + size - 1) \div BurstSize
  <1>1. BurstSize \in Nat \ {0}
    BY Positive
  <1>2. /\ first \in Nat /\ BurstSize * first <= address
        /\ last \in Nat /\ address + size - 1 < BurstSize * last + BurstSize
    <2>1. address + size - 1 \in Nat
      OBVIOUS
    <2> QED BY <1>1, <2>1, Quotient
  <1>3. /\ AlignedAddress(address) = BurstSize * first
        /\ AlignedSize(address, size) = BurstSize * last + BurstSize - BurstSize * first
    BY <1>1, <1>2 DEF AlignedAddress, AlignedSize
  <1>4. BurstSize * first \in Nat /\ BurstSize * last \in Nat
    BY <1>1, <1>2
  <1> HIDE DEF first, last
  <1> QED BY <1>1, <1>2, <1>3, <1>4

LEMMA BurstsType ==
  ASSUME NEW aligned \in Nat \ {0}
  PROVE  Bursts(aligned) \in Nat \ {0}
  <1>1. BurstSize \in Nat \ {0} /\ aligned - 1 \in Nat
    BY Positive
  <1>2. (aligned - 1) \div BurstSize \in Nat
    BY <1>1, Quotient
  <1> QED BY <1>2 DEF Bursts

LEMMA PagesType ==
  ASSUME NEW start \in Nat, NEW aligned \in Nat \ {0}
  PROVE  Pages(start, aligned) \in Nat \ {0}
  <1>1. PageSize \in Nat \ {0} /\ start + aligned - 1 \in Nat /\ start <= start + aligned - 1
    BY Positive
  <1>2. /\ start \div PageSize \in Nat /\ (start + aligned - 1) \div PageSize \in Nat
        /\ start \div PageSize <= (start + aligned - 1) \div PageSize
    BY <1>1, Quotient, QuotientMonotone
  <1> QED BY <1>2 DEF Pages

\* A new request is never finished: the memory answers no access at once.
LEMMA RequestTakesTime ==
  ASSUME NEW address \in Nat, NEW size \in Nat \ {0}, NEW load \in BOOLEAN
  PROVE  /\ FixedTicks(address, size, load, FALSE) \in Nat \ {0}
         /\ VariableTicks(address, size, load, FALSE) \in Nat \ {0}
         /\ TDMTicks(address, size) \in Nat \ {0}
  <1> DEFINE start == AlignedAddress(address)
             aligned == AlignedSize(address, size)
             bursts == Bursts(aligned)
             pages == Pages(start, aligned)
             rest == (aligned - pages * BurstSize) % UnsignedSpan
  <1>1. start \in Nat /\ aligned \in Nat \ {0}
    BY AlignedSizeType
  <1>2. bursts \in Nat \ {0} /\ pages \in Nat \ {0}
    BY <1>1, BurstsType, PagesType
  <1>3. Delay(load, FALSE) = ReadDelay
    BY DEF Delay
  <1>4. /\ TicksPerBurst \in Nat /\ ReadDelay \in Nat /\ TicksPerBurst + ReadDelay > 0
    BY TakesTime
  <1>5. rest \in Nat
    <2>1. UnsignedSpan \in Nat \ {0} /\ BurstSize \in Nat
      BY Positive
    <2>2. aligned - pages * BurstSize \in Int
      <3> HIDE DEF aligned, pages
      <3> QED BY <1>1, <1>2, <2>1
    <2> HIDE DEF aligned, pages
    <2> QED BY <2>1, <2>2
  <1>6. /\ TicksPerBurst * bursts \in Nat /\ TicksPerBurst * bursts >= TicksPerBurst
        /\ TicksPerBurst * pages \in Nat /\ TicksPerBurst * pages >= TicksPerBurst
    <2> HIDE DEF bursts, pages
    <2> QED BY <1>2, <1>4, ProductAtLeast
  <1>7. pages * TicksPerBurst = TicksPerBurst * pages
    <2> HIDE DEF pages
    <2> QED BY <1>2, <1>4
  <1>8. /\ FixedTicks(address, size, load, FALSE) = TicksPerBurst * bursts + ReadDelay
        /\ VariableTicks(address, size, load, FALSE) = pages * TicksPerBurst + rest + ReadDelay
        /\ TDMTicks(address, size) = bursts
    BY <1>3 DEF FixedTicks, VariableTicks, TDMTicks
  <1> HIDE DEF bursts, pages, rest
  <1>9. TicksPerBurst * bursts + ReadDelay \in Nat \ {0}
    BY <1>4, <1>6
  <1>10. pages * TicksPerBurst + rest + ReadDelay \in Nat \ {0}
    BY <1>4, <1>5, <1>6, <1>7
  <1> QED BY <1>2, <1>8, <1>9, <1>10

-----------------------------------------------------------------------------
(***************************************************************************)
(* The inductive invariant.                                                *)
(***************************************************************************)
Request == [addr : Addr, size : Nat \ {0}, load : BOOLEAN,
            posted : BOOLEAN, ticks : Nat]

\* The queue holds no two requests for the same access: find_or_create_request
\* finds the only one there is.
KeysDiffer ==
  \A i, j \in 1 .. Len(requests) :
    requests[i].addr = requests[j].addr /\ requests[i].size = requests[j].size
      /\ requests[i].load = requests[j].load => i = j

QueueInv == KeysDiffer /\ FinishedIsFirst

FetchWaits == ~disableIF /\ pc # InCache
AccessWaits == access # NoAccess

Wanted(request) ==
  \/ FetchWaits /\ Matches(request, FetchAccess)
  \/ AccessWaits /\ Matches(request, access)

AllWanted == \A i \in 1 .. Len(requests) : Wanted(requests[i])

\* The instructions move on only in a cycle in which nobody waits for memory.
MovesOn ==
  /\ turn = "MW" /\ ~stall => ~FetchWaits
  /\ turn = "tick" /\ ~stall => ~FetchWaits /\ ~AccessWaits

QueueIInv == TypeOK /\ QueueInv
OrphanIInv == QueueIInv /\ AllWanted /\ MovesOn

-----------------------------------------------------------------------------
(***************************************************************************)
(* One call of read or write.                                              *)
(***************************************************************************)
LEMMA NewRequestType ==
  ASSUME NEW a \in Accesses
  PROVE  /\ NewRequest(a) \in Request
         /\ NewRequest(a).ticks # 0
         /\ Matches(NewRequest(a), a)
<1>1. a.addr \in Nat /\ a.addr \in Addr /\ a.size \in Nat \ {0} /\ a.load \in BOOLEAN
  BY MemoryProgram DEF Accesses, Addr
<1>2. /\ FixedTicks(a.addr, a.size, a.load, FALSE) \in Nat \ {0}
      /\ VariableTicks(a.addr, a.size, a.load, FALSE) \in Nat \ {0}
      /\ TDMTicks(a.addr, a.size) \in Nat \ {0}
  BY <1>1, RequestTakesTime
<1>3. Kind \in {"fixed", "variable", "tdm"}
  BY MemoryProgram
<1>4. TransferTicks(a, FALSE) \in Nat \ {0}
  <2>1. CASE Kind = "fixed"
    <3>1. TransferTicks(a, FALSE) = FixedTicks(a.addr, a.size, a.load, FALSE)
      BY <2>1, Zenon DEF TransferTicks
    <3> QED BY <3>1, <1>2
  <2>2. CASE Kind = "variable"
    <3>1. Kind # "fixed"
      BY <2>2
    <3>2. TransferTicks(a, FALSE) = VariableTicks(a.addr, a.size, a.load, FALSE)
      BY <2>2, <3>1, Zenon DEF TransferTicks
    <3> QED BY <3>2, <1>2
  <2>3. CASE Kind = "tdm"
    <3>1. Kind # "fixed" /\ Kind # "variable"
      BY <2>3
    <3>2. TransferTicks(a, FALSE) = TDMTicks(a.addr, a.size)
      BY <2>3, <3>1, Zenon DEF TransferTicks
    <3> QED BY <3>2, <1>2
  <2> QED BY <1>3, <2>1, <2>2, <2>3
<1> HIDE DEF TransferTicks
<1> QED BY <1>1, <1>4 DEF NewRequest, Request, Matches

\* The queue as the access finds it: all the requests it held, and one for it.
LEMMA FoundType ==
  ASSUME NEW a \in Accesses, requests \in Seq(Request), QueueInv
  PROVE  /\ Found(a) \in Seq(Request) /\ Len(Found(a)) >= Len(requests)
         /\ \A i \in 1 .. Len(requests) : Found(a)[i] = requests[i]
         /\ \A i \in 1 .. Len(Found(a)) :
              i > Len(requests) => Matches(Found(a)[i], a) /\ Found(a)[i].ticks # 0
         /\ \A i, j \in 1 .. Len(Found(a)) :
              Found(a)[i].addr = Found(a)[j].addr /\ Found(a)[i].size = Found(a)[j].size
                /\ Found(a)[i].load = Found(a)[j].load => i = j
         /\ \A i \in 1 .. Len(Found(a)) : Found(a)[i].ticks = 0 => i = 1
<1>1. CASE Matching(a) # {}
  <2>1. Found(a) = requests
    BY <1>1 DEF Found
  <2> QED BY <2>1 DEF QueueInv, KeysDiffer, FinishedIsFirst
<1>2. CASE Matching(a) = {}
  <2> DEFINE new == NewRequest(a)
  <2>1. new \in Request /\ new.ticks # 0 /\ Matches(new, a)
    BY NewRequestType
  <2>2. Found(a) = Append(requests, new)
    BY <1>2 DEF Found
  <2>3. \A i \in 1 .. Len(requests) : ~Matches(requests[i], a)
    BY <1>2 DEF Matching
  <2> HIDE DEF new
  <2>4. /\ Found(a) \in Seq(Request) /\ Len(Found(a)) = Len(requests) + 1
        /\ \A i \in 1 .. Len(requests) : Found(a)[i] = requests[i]
        /\ Found(a)[Len(requests) + 1] = new
    BY <2>1, <2>2, AppendProperties
  <2>5. Len(requests) \in Nat
    BY LenProperties
  <2> HIDE DEF Found
  <2>6. \A i \in 1 .. Len(Found(a)) : i \in 1 .. Len(requests) \/ i = Len(requests) + 1
    BY <2>4, <2>5
  <2> QED BY <2>1, <2>3, <2>4, <2>5, <2>6 DEF QueueInv, KeysDiffer, FinishedIsFirst, Matches
<1> QED BY <1>1, <1>2

\* An access that is answered takes the first request away, and that is its own.
LEMMA AnswersFirst ==
  ASSUME NEW a \in Accesses, requests \in Seq(Request), QueueInv, Finished(a)
  PROVE  /\ requests # <<>> /\ Len(requests) >= 1
         /\ Matches(requests[1], a)
         /\ Found(a) = requests
<1>1. Len(requests) \in Nat
  BY LenProperties
<1>2. Matching(a) # {}
  <2>1. SUFFICES ASSUME Matching(a) = {} PROVE FALSE
    OBVIOUS
  <2>2. Found(a) = Append(requests, NewRequest(a)) /\ First(a) = Len(requests) + 1
    BY <2>1 DEF Found, First
  <2>3. NewRequest(a) \in Request /\ NewRequest(a).ticks # 0
    BY NewRequestType
  <2>4. Append(requests, NewRequest(a))[Len(requests) + 1] = NewRequest(a)
    BY <2>3, AppendProperties
  <2> QED BY <2>2, <2>3, <2>4 DEF Finished
<1>3. PICK k \in 1 .. Len(requests) : Matches(requests[k], a)
  BY <1>2 DEF Matching
<1>4. Matching(a) = {k}
  <2>1. \A i \in Matching(a) : i = k
    BY <1>3 DEF Matching, Matches, QueueInv, KeysDiffer
  <2> QED BY <1>3, <2>1 DEF Matching
<1>5. First(a) = k
  BY <1>1, <1>4 DEF First
<1>6. Found(a) = requests
  BY <1>2 DEF Found
<1>7. k = 1
  BY <1>3, <1>5, <1>6 DEF Finished, QueueInv, FinishedIsFirst
<1>8. requests # <<>>
  BY <1>1, <1>3, <1>7, EmptySeq
<1> QED BY <1>1, <1>3, <1>6, <1>7, <1>8

\* What a call does to the queue when it is answered ...
LEMMA ReadyQueue ==
  ASSUME NEW p \in Port, NEW a \in Accesses, requests \in Seq(Request), QueueInv,
         Ready(p, a)
  PROVE  /\ requests' \in Seq(Request) /\ QueueInv'
         /\ Finished(a) => /\ requests # <<>> /\ Matches(requests[1], a)
                           /\ requests' = Tail(requests)
         /\ ~Finished(a) => Posted > 0
<1>1. CASE Finished(a)
  <2>1. requests' = Tail(Found(a))
    BY <1>1 DEF Ready, ReadReady, WriteReady, WritePosted, WithoutFirst
  <2>2. /\ requests # <<>> /\ Len(requests) >= 1 /\ Matches(requests[1], a)
        /\ Found(a) = requests
    BY <1>1, AnswersFirst
  <2>3. requests' = Tail(requests)
    BY <2>1, <2>2
  <2>4. /\ requests' \in Seq(Request) /\ Len(requests') = Len(requests) - 1
        /\ \A i \in 1 .. Len(requests') : requests'[i] = requests[i + 1]
    BY <2>2, <2>3, HeadTailProperties
  <2>5. Len(requests) \in Nat
    BY LenProperties
  <2>6. \A i \in 1 .. Len(requests') :
          i + 1 \in 1 .. Len(requests) /\ i + 1 # 1 /\ requests'[i] = requests[i + 1]
    BY <2>4, <2>5
  <2>7. \A i, j \in 1 .. Len(requests') : i + 1 = j + 1 => i = j
    BY <2>4, <2>5
  <2>8. KeysDiffer'
    <3> SUFFICES ASSUME NEW i \in 1 .. Len(requests'), NEW j \in 1 .. Len(requests'),
                        requests'[i].addr = requests'[j].addr,
                        requests'[i].size = requests'[j].size,
                        requests'[i].load = requests'[j].load
                 PROVE  i = j
      BY DEF KeysDiffer
    <3>1. i + 1 = j + 1
      BY <2>6 DEF QueueInv, KeysDiffer
    <3> QED BY <2>7, <3>1
  <2>9. FinishedIsFirst'
    BY <2>6 DEF QueueInv, FinishedIsFirst
  <2> QED BY <1>1, <2>2, <2>3, <2>4, <2>8, <2>9 DEF QueueInv
<1>2. CASE ~Finished(a)
  <2>1. requests' = Found(a) /\ Posted > 0
    BY <1>2 DEF Ready, ReadReady, WriteReady, WritePosted
  <2> QED BY <1>2, <2>1, FoundType DEF QueueInv, KeysDiffer, FinishedIsFirst
<1> QED BY <1>1, <1>2

\* ... and when it is not.
LEMMA NotReadyQueue ==
  ASSUME NEW p \in Port, NEW a \in Accesses, requests \in Seq(Request), QueueInv,
         NotReady(p, a)
  PROVE  /\ requests' \in Seq(Request) /\ QueueInv'
         /\ \A i \in 1 .. Len(requests') :
              \/ i \in 1 .. Len(requests) /\ requests'[i] = requests[i]
              \/ Matches(requests'[i], a)
<1>1. requests' = Found(a)
  BY DEF NotReady
<1>2. Len(requests) \in Nat /\ Len(Found(a)) \in Nat
  BY FoundType, LenProperties
<1>3. \A i \in 1 .. Len(Found(a)) : i \in 1 .. Len(requests) \/ i > Len(requests)
  BY <1>2
<1>4. /\ Found(a) \in Seq(Request)
      /\ \A i \in 1 .. Len(requests) : Found(a)[i] = requests[i]
      /\ \A i \in 1 .. Len(Found(a)) : i > Len(requests) => Matches(Found(a)[i], a)
  BY FoundType
<1>5. QueueInv'
  BY <1>1, FoundType DEF QueueInv, KeysDiffer, FinishedIsFirst
<1> QED BY <1>1, <1>3, <1>4, <1>5

\* The clock of the history variable counts in integers.
LEMMA WordsFinite ==
  ASSUME NEW a \in Accesses
  PROVE  /\ IsFiniteSet(BurstsOf(a)) /\ IsFiniteSet(WordsTransferred(a))
         /\ IsFiniteSet(PagesOf(a))
<1> DEFINE bound == a.addr + a.size
           Quotients(S, d) == {x \div d : x \in S}
<1>1. bound \in Nat /\ \A x \in Words(a) : x \in Nat /\ x <= bound
  BY MemoryProgram DEF Accesses, Addr, Words
<1>2. BurstSize \in Nat \ {0} /\ PageSize \in Nat \ {0}
  BY Positive
<1>3. \A x, d \in Nat : d # 0 => x \div d \in Nat /\ x \div d <= x
  <2> SUFFICES ASSUME NEW x \in Nat, NEW d \in Nat, d # 0
               PROVE  x \div d \in Nat /\ x \div d <= x
    OBVIOUS
  <2>1. x \div d \in Nat /\ d * (x \div d) <= x
    BY Quotient
  <2>2. 1 * (x \div d) <= d * (x \div d)
    <3> DEFINE q == x \div d
    <3>1. q \in Nat /\ d \in Nat \ {0}
      BY <2>1
    <3> HIDE DEF q
    <3> QED BY <3>1, ProductAtLeast
  <2> QED BY <2>1, <2>2
<1>4. BurstsOf(a) \in SUBSET Nat /\ \A b \in BurstsOf(a) : b <= bound
  <2> HIDE DEF bound
  <2> QED BY <1>1, <1>2, <1>3 DEF BurstsOf
<1>5. IsFiniteSet(BurstsOf(a))
  <2> HIDE DEF bound
  <2> QED BY <1>1, <1>4, FS_BoundedSetOfNaturals
<1> DEFINE top == (bound + 1) * BurstSize
<1>6. top \in Nat
  BY <1>1, <1>2
<1>7. WordsTransferred(a) \in SUBSET Nat /\ \A x \in WordsTransferred(a) : x <= top
  <2> SUFFICES ASSUME NEW x \in WordsTransferred(a)
               PROVE  x \in Nat /\ x <= top
    OBVIOUS
  <2>1. PICK b \in BurstsOf(a) : x \in b * BurstSize .. (b + 1) * BurstSize - 1
    BY DEF WordsTransferred
  <2>2. b \in Nat /\ b <= bound
    BY <1>4
  <2>3. b * BurstSize \in Nat /\ (b + 1) * BurstSize \in Nat
    BY <1>2, <2>2
  <2>4. (b + 1) * BurstSize <= (bound + 1) * BurstSize
    <3> HIDE DEF bound
    <3>1. BurstSize * (b + 1) <= BurstSize * (bound + 1)
      BY <1>1, <1>2, <2>2, ProductMonotone
    <3> QED BY <1>1, <1>2, <2>2, <3>1
  <2> HIDE DEF bound
  <2> QED BY <2>1, <2>3, <2>4, <1>6
<1>8. IsFiniteSet(WordsTransferred(a))
  <2> HIDE DEF top
  <2> QED BY <1>6, <1>7, FS_BoundedSetOfNaturals
<1>9. PagesOf(a) \in SUBSET Nat /\ \A x \in PagesOf(a) : x <= top
  <2> HIDE DEF top
  <2> QED BY <1>2, <1>3, <1>6, <1>7 DEF PagesOf
<1>10. IsFiniteSet(PagesOf(a))
  <2> HIDE DEF top
  <2> QED BY <1>6, <1>9, FS_BoundedSetOfNaturals
<1> QED BY <1>5, <1>8, <1>10

LEMMA DurationType ==
  ASSUME NEW a \in Accesses, TypeOK
  PROVE  Duration(a) \in Int
<1> DEFINE bursts == Cardinality(BurstsOf(a))
           words == Cardinality(WordsTransferred(a))
           pages == Cardinality(PagesOf(a))
<1>1. bursts \in Nat /\ words \in Nat /\ pages \in Nat
  BY WordsFinite, FS_CardinalityType
<1> HIDE DEF bursts, words, pages
<1>2. /\ TicksPerBurst \in Nat /\ ReadDelay \in Nat /\ BurstSize \in Nat
      /\ RefreshTicks \in Nat /\ Cores \in Nat \ {0} /\ CpuId \in Nat
  BY Positive, TakesTime, Round
<1>3. Earlier \in Nat
  <2>1. CASE requests = <<>>
    BY <2>1 DEF Earlier
  <2>2. CASE requests # <<>>
    <3>1. requests \in Seq(Request)
      BY DEF TypeOK, Request
    <3>2. 1 \in 1 .. Len(requests)
      BY <2>2, <3>1, EmptySeq, LenProperties
    <3>3. requests[1] \in Request
      BY <3>1, <3>2, ElementOfSeq
    <3> QED BY <2>2, <3>3 DEF Earlier, Request
  <2> QED BY <2>1, <2>2
<1>4. CASE Kind = "fixed"
  <2>1. RequestTime(a) = ReadDelay + bursts * TicksPerBurst
    BY <1>4, Zenon DEF RequestTime, bursts
  <2>2. bursts * TicksPerBurst \in Nat
    BY <1>1, <1>2
  <2>3. RequestTime(a) \in Int
    BY <1>2, <2>1, <2>2
  <2>4. Duration(a) = Earlier + RequestTime(a)
    BY <1>4 DEF Duration
  <2> QED BY <1>3, <2>3, <2>4
<1>5. CASE Kind = "variable"
  <2>1. RequestTime(a) = ReadDelay + pages * TicksPerBurst + words - pages * BurstSize
    <3>1. Kind # "fixed"
      BY <1>5
    <3> QED BY <1>5, <3>1, Zenon DEF RequestTime, pages, words
  <2>2. pages * TicksPerBurst \in Nat /\ pages * BurstSize \in Nat
    BY <1>1, <1>2
  <2>3. RequestTime(a) \in Int
    BY <1>1, <1>2, <2>1, <2>2
  <2>4. Duration(a) = Earlier + RequestTime(a)
    BY <1>5 DEF Duration
  <2> QED BY <1>3, <2>3, <2>4
<1>6. CASE Kind = "tdm"
  <2> DEFINE done == IF transferring THEN 1 ELSE 0
             n == Earlier - done + bursts
  <2>1. n \in Int
    BY <1>1, <1>3
  <2>2. RoundLength \in Nat \ {0} /\ RoundStart \in Nat
    BY <1>2, <1>6, MemoryProgram DEF RoundLength, RoundStart
  <2>3. roundCounter \in Nat
    BY DEF TypeOK
  <2>4. WaitForSlot \in Int
    BY <2>2, <2>3 DEF WaitForSlot
  <2>5. Duration(a) = WaitForSlot + (n - 1) * RoundLength + ReadDelay + TicksPerBurst
    BY <1>6 DEF Duration, RoundsTime, bursts
  <2> HIDE DEF n
  <2>6. (n - 1) * RoundLength \in Int
    BY <2>1, <2>2
  <2> QED BY <1>2, <2>4, <2>5, <2>6
<1> QED BY <1>4, <1>5, <1>6, MemoryProgram

\* What a call of a port does to the typed variables.
LEMMA CallType ==
  ASSUME TypeOK, QueueInv, NEW p \in Port, NEW a \in Accesses,
         Ready(p, a) \/ NotReady(p, a)
  PROVE  /\ requests' \in Seq(Request) /\ QueueInv'
         /\ mem' \in [Addr -> Val]
         /\ due' \in [Port -> Int]
<1>1. requests \in Seq(Request)
  BY DEF TypeOK, Request
<1>2. requests' \in Seq(Request) /\ QueueInv'
  BY <1>1, ReadyQueue, NotReadyQueue
<1>3. mem' \in [Addr -> Val]
  <2>1. mem \in [Addr -> Val] /\ a.val \in Val
    BY DEF TypeOK, Accesses
  <2>2. Written(a) \in [Addr -> Val]
    BY <2>1 DEF Written
  <2>3. mem' = mem \/ mem' = Written(a)
    BY DEF Ready, ReadReady, WriteReady, WritePosted, NotReady
  <2> QED BY <2>1, <2>2, <2>3
<1>4. due' \in [Port -> Int]
  <2>1. due \in [Port -> Int]
    BY DEF TypeOK
  <2>2. Duration(a) \in Int
    BY DurationType
  <2>3. CASE Answered(p)
    BY <2>1, <2>3 DEF Answered, NotWaiting
  <2>4. CASE Unanswered(p, a)
    <3> HIDE DEF Duration
    <3> QED BY <2>1, <2>2, <2>4 DEF Unanswered
  <2>5. Answered(p) \/ Unanswered(p, a)
    BY DEF Ready, ReadReady, WriteReady, WritePosted, NotReady
  <2> QED BY <2>3, <2>4, <2>5
<1> QED BY <1>2, <1>3, <1>4

\* The accesses of the two ports.
LEMMA AccessTypes ==
  ASSUME TypeOK
  PROVE  /\ pc # InCache => FetchAccess \in Accesses
         /\ access # NoAccess => access \in Accesses
<1>1. ASSUME pc # InCache PROVE FetchAccess \in Accesses
  <2>1. pc \in Counters /\ fetched \in 0 .. Slots - 1
    BY <1>1 DEF TypeOK
  <2>2. pc \in Nat /\ pc + Slots - 1 <= MaxAddr /\ Slots \in Nat /\ MaxAddr \in Nat
    BY <2>1, MemoryProgram
  <2>3. pc + fetched \in Addr
    BY <2>1, <2>2 DEF Addr
  <2>4. Zero \in Val
    BY MemoryProgram
  <2> QED BY <2>3, <2>4 DEF FetchAccess, Accesses
<1>2. ASSUME access # NoAccess PROVE access \in Accesses
  BY <1>2, MemoryProgram DEF TypeOK
<1> QED BY <1>1, <1>2

-----------------------------------------------------------------------------
(***************************************************************************)
(* The tick.                                                               *)
(***************************************************************************)
LEMMA TickQueueType ==
  ASSUME requests \in Seq(Request), QueueInv, NEW ticks \in Int,
         requests # <<>> /\ requests[1].ticks # 0 => ticks = requests[1].ticks - 1,
         TickQueue(ticks)
  PROVE  /\ requests' \in Seq(Request) /\ QueueInv'
         /\ \A i \in 1 .. Len(requests') :
              \E j \in 1 .. Len(requests) :
                /\ requests'[i].addr = requests[j].addr
                /\ requests'[i].size = requests[j].size
                /\ requests'[i].load = requests[j].load
         /\ requests = <<>> => requests' = <<>>
<1>1. CASE requests = <<>> \/ requests[1].ticks = 0
  <2>1. requests' = requests
    BY <1>1 DEF TickQueue
  <2> QED BY <2>1 DEF QueueInv, KeysDiffer, FinishedIsFirst
<1>2. CASE ~(requests = <<>> \/ requests[1].ticks = 0)
  <2>1. Len(requests) \in Nat /\ 1 \in 1 .. Len(requests)
    BY <1>2, EmptySeq, LenProperties
  <2>2. requests[1] \in Request
    BY <2>1, ElementOfSeq
  <2>3. CASE ticks = 0 /\ requests[1].posted
    <3>1. requests' = Tail(requests)
      BY <1>2, <2>3 DEF TickQueue
    <3>2. /\ requests' \in Seq(Request) /\ Len(requests') = Len(requests) - 1
          /\ \A i \in 1 .. Len(requests') : requests'[i] = requests[i + 1]
      BY <1>2, <3>1, HeadTailProperties
    <3>3. \A i \in 1 .. Len(requests') :
            i + 1 \in 1 .. Len(requests) /\ i + 1 # 1 /\ requests'[i] = requests[i + 1]
      BY <2>1, <3>2
    <3>4. KeysDiffer'
      <4> SUFFICES ASSUME NEW i \in 1 .. Len(requests'), NEW j \in 1 .. Len(requests'),
                          requests'[i].addr = requests'[j].addr,
                          requests'[i].size = requests'[j].size,
                          requests'[i].load = requests'[j].load
                   PROVE  i = j
        BY DEF KeysDiffer
      <4>1. i + 1 = j + 1
        BY <3>3 DEF QueueInv, KeysDiffer
      <4>2. i \in Int /\ j \in Int
        OBVIOUS
      <4> QED BY <4>1, <4>2
    <3>5. FinishedIsFirst'
      BY <3>3 DEF QueueInv, FinishedIsFirst
    <3> QED BY <1>2, <3>2, <3>3, <3>4, <3>5 DEF QueueInv
  <2>4. CASE ~(ticks = 0 /\ requests[1].posted)
    <3> DEFINE first == [requests[1] EXCEPT !.ticks = ticks]
    <3>1. requests' = [requests EXCEPT ![1].ticks = ticks]
      BY <1>2, <2>4 DEF TickQueue
    <3>2. ticks \in Nat
      BY <1>2, <2>2 DEF Request
    <3>3. first \in Request /\ first.addr = requests[1].addr
          /\ first.size = requests[1].size /\ first.load = requests[1].load
      BY <2>2, <3>2 DEF Request
    <3>4. requests' = [requests EXCEPT ![1] = first]
      BY <2>1, <3>1
    <3> HIDE DEF first
    <3>5. /\ requests' \in Seq(Request) /\ Len(requests') = Len(requests)
          /\ \A i \in 1 .. Len(requests) :
               requests'[i] = IF i = 1 THEN first ELSE requests[i]
      BY <2>1, <3>3, <3>4, ExceptSeq
    <3>6. KeysDiffer'
      BY <2>1, <3>3, <3>5 DEF QueueInv, KeysDiffer
    <3>7. FinishedIsFirst'
      BY <3>5 DEF QueueInv, FinishedIsFirst
    <3> QED BY <1>2, <2>1, <3>3, <3>5, <3>6, <3>7 DEF QueueInv
  <2> QED BY <2>3, <2>4
<1> QED BY <1>1, <1>2

\* A tick of each kind of memory leaves the accesses of the queue as they are.
LEMMA TickKeepsQueue ==
  ASSUME TypeOK, QueueInv, TickFixed \/ TickTDM
  PROVE  /\ requests' \in Seq(Request) /\ QueueInv'
         /\ \A i \in 1 .. Len(requests') :
              \E j \in 1 .. Len(requests) :
                /\ requests'[i].addr = requests[j].addr
                /\ requests'[i].size = requests[j].size
                /\ requests'[i].load = requests[j].load
         /\ requests = <<>> => requests' = <<>>
         /\ transferring' \in BOOLEAN
         /\ roundCounter' \in Nat /\ (Kind = "tdm" => roundCounter' < RoundLength)
<1>1. requests \in Seq(Request) /\ Len(requests) \in Nat
  BY LenProperties DEF TypeOK, Request
<1>2. requests # <<>> => requests[1] \in Request
  BY <1>1, EmptySeq, ElementOfSeq
<1> DEFINE ticks == IF requests = <<>> THEN 0 ELSE requests[1].ticks - 1
<1>3. ticks \in Int /\ (requests # <<>> => ticks = requests[1].ticks - 1)
  BY <1>2 DEF Request
<1>4. CASE TickFixed
  <2>1. TickQueue(ticks) /\ Kind # "tdm"
        /\ roundCounter' = roundCounter /\ transferring' = transferring
    BY <1>4 DEF TickFixed, tdmVars
  <2>2. roundCounter \in Nat /\ transferring \in BOOLEAN
    BY DEF TypeOK
  <2> HIDE DEF ticks
  <2>3. /\ requests' \in Seq(Request) /\ QueueInv'
        /\ \A i \in 1 .. Len(requests') :
              \E j \in 1 .. Len(requests) :
                /\ requests'[i].addr = requests[j].addr
                /\ requests'[i].size = requests[j].size
                /\ requests'[i].load = requests[j].load
        /\ requests = <<>> => requests' = <<>>
    BY <1>1, <1>3, <2>1, TickQueueType
  <2> QED BY <2>1, <2>2, <2>3
<1>5. CASE TickTDM
  <2>1. RoundLength \in Nat \ {0}
    <3>1. Cores * TicksPerBurst \in Nat
      BY TakesTime, Round
    <3>2. TicksPerBurst + ReadDelay < RoundLength
      BY <1>5, MemoryProgram DEF TickTDM
    <3> QED BY <3>1, <3>2, TakesTime, Round DEF RoundLength
  <2>2. roundCounter' = (roundCounter + 1) % RoundLength
    BY <1>5 DEF TickTDM
  <2>3. roundCounter' \in Nat /\ roundCounter' < RoundLength
    BY <2>1, <2>2 DEF TypeOK
  <2>4. transferring' \in BOOLEAN
    BY <1>5 DEF TickTDM, TypeOK
  <2>5. requests' = requests \/ (requests # <<>> /\ TickQueue(requests[1].ticks - 1))
    BY <1>5 DEF TickTDM
  <2>6. CASE requests' = requests
    BY <1>1, <2>3, <2>4, <2>6 DEF QueueInv, KeysDiffer, FinishedIsFirst
  <2>7. CASE requests # <<>> /\ TickQueue(requests[1].ticks - 1)
    <3>1. TickQueue(ticks)
      BY <2>7
    <3> HIDE DEF ticks
    <3>2. /\ requests' \in Seq(Request) /\ QueueInv'
          /\ \A i \in 1 .. Len(requests') :
                \E j \in 1 .. Len(requests) :
                  /\ requests'[i].addr = requests[j].addr
                  /\ requests'[i].size = requests[j].size
                  /\ requests'[i].load = requests[j].load
          /\ requests = <<>> => requests' = <<>>
      BY <1>1, <1>3, <3>1, TickQueueType
    <3> QED BY <2>3, <2>4, <3>2
  <2> QED BY <2>5, <2>6, <2>7
<1> QED BY <1>4, <1>5

-----------------------------------------------------------------------------
(***************************************************************************)
(* Types, and the place of the finished request, for every program and     *)
(* any number of posted writes.                                            *)
(***************************************************************************)
LEMMA QueueInit == Init => QueueIInv
<1> SUFFICES ASSUME Init PROVE QueueIInv
  OBVIOUS
<1>1. 0 \in 0 .. Slots - 1 /\ Zero \in Val
  BY MemoryProgram
<1>2. Kind = "tdm" => 0 < RoundLength
  <2> SUFFICES ASSUME Kind = "tdm" PROVE 0 < RoundLength
    OBVIOUS
  <2>1. TicksPerBurst + ReadDelay < RoundLength
    BY MemoryProgram
  <2>2. RoundLength \in Int
    <3>1. Cores * TicksPerBurst \in Int
      BY TakesTime, Round
    <3> QED BY <3>1, Round DEF RoundLength
  <2> QED BY <2>1, <2>2, TakesTime
<1>3. requests \in Seq(Request) /\ Len(requests) = 0
  BY EmptySeq DEF Init
<1>4. TypeOK
  <2>1. mem \in [Addr -> Val] /\ due \in [Port -> Int]
    BY <1>1 DEF Init, NotWaiting
  <2>2. /\ turn \in {"IF", "MW", "tick"} /\ stall \in BOOLEAN
        /\ pc \in Counters \cup {InCache} /\ fetched \in 0 .. Slots - 1
        /\ disableIF \in BOOLEAN /\ access \in DataAccesses \cup {NoAccess}
    BY <1>1 DEF Init
  <2>3. /\ roundCounter \in Nat /\ transferring \in BOOLEAN
        /\ Kind = "tdm" => roundCounter < RoundLength
    BY <1>2 DEF Init
  <2> QED BY <1>3, <2>1, <2>2, <2>3 DEF TypeOK, Request
<1>5. QueueInv
  BY <1>3 DEF QueueInv, KeysDiffer, FinishedIsFirst
<1> QED BY <1>4, <1>5 DEF QueueIInv

LEMMA QueueStep == QueueIInv /\ [Next]_vars => QueueIInv'
<1> SUFFICES ASSUME QueueIInv, [Next]_vars PROVE QueueIInv'
  OBVIOUS
<1> USE DEF QueueIInv
<1>1. requests \in Seq(Request) /\ "IF" \in Port /\ "MW" \in Port
  BY DEF TypeOK, Request, Port
<1>2. Slots \in Nat \ {0}
  BY MemoryProgram
<1>3. CASE FetchWord
  <2>1. pc # InCache /\ Ready("IF", FetchAccess)
    BY <1>3 DEF FetchWord
  <2>2. FetchAccess \in Accesses
    BY <2>1, AccessTypes
  <2> HIDE DEF QueueIInv
  <2>3. requests' \in Seq(Request) /\ QueueInv' /\ mem' \in [Addr -> Val] /\ due' \in [Port -> Int]
    BY <1>1, <2>1, <2>2, CallType DEF QueueIInv
  <2>4. /\ fetched' \in 0 .. Slots - 1 /\ disableIF' \in BOOLEAN
        /\ turn' \in {"IF", "MW", "tick"}
    <3>1. fetched \in 0 .. Slots - 1
      BY DEF QueueIInv, TypeOK
    <3>2. \/ /\ fetched + 1 < Slots /\ fetched' = fetched + 1
             /\ disableIF' = FALSE /\ turn' = "IF"
          \/ fetched' = 0 /\ disableIF' = TRUE /\ turn' = "MW"
      BY <1>3, Zenon DEF FetchWord
    <3>3. fetched' \in 0 .. Slots - 1
      <4>1. \/ fetched + 1 < Slots /\ fetched' = fetched + 1
            \/ fetched' = 0
        BY <3>2, Zenon
      <4> QED BY <1>2, <3>1, <4>1
    <3>4. disableIF' \in BOOLEAN /\ turn' \in {"IF", "MW", "tick"}
      BY <3>2, Zenon
    <3> QED BY <3>3, <3>4
  <2>5. UNCHANGED <<pc, access, stall, roundCounter, transferring>>
    BY <1>3 DEF FetchWord, tdmVars
  <2> QED BY <2>3, <2>4, <2>5 DEF QueueIInv, TypeOK, Request
<1>4. CASE FetchStalls
  <2>1. pc # InCache /\ NotReady("IF", FetchAccess)
    BY <1>4 DEF FetchStalls
  <2>2. FetchAccess \in Accesses
    BY <2>1, AccessTypes
  <2>3. requests' \in Seq(Request) /\ QueueInv' /\ mem' \in [Addr -> Val] /\ due' \in [Port -> Int]
    BY <1>1, <2>1, <2>2, CallType
  <2>4. /\ stall' \in BOOLEAN /\ turn' \in {"IF", "MW", "tick"}
        /\ UNCHANGED <<pc, fetched, disableIF, access, roundCounter, transferring>>
    BY <1>4 DEF FetchStalls, pipeVars, tdmVars
  <2> QED BY <2>3, <2>4 DEF TypeOK, Request
<1>5. CASE NoFetch
  BY <1>5 DEF NoFetch, TypeOK, tdmVars, QueueInv, KeysDiffer, FinishedIsFirst
<1>6. CASE AccessDone
  <2>1. access \in Accesses /\ Ready("MW", access)
    BY <1>6, AccessTypes DEF AccessDone
  <2>2. requests' \in Seq(Request) /\ QueueInv' /\ mem' \in [Addr -> Val] /\ due' \in [Port -> Int]
    BY <1>1, <2>1, CallType
  <2>3. /\ access' \in DataAccesses \cup {NoAccess} /\ turn' \in {"IF", "MW", "tick"}
        /\ UNCHANGED <<pc, fetched, disableIF, stall, roundCounter, transferring>>
    BY <1>6 DEF AccessDone, tdmVars
  <2> QED BY <2>2, <2>3 DEF TypeOK, Request
<1>7. CASE AccessStalls
  <2>1. access \in Accesses /\ NotReady("MW", access)
    BY <1>7, AccessTypes DEF AccessStalls
  <2>2. requests' \in Seq(Request) /\ QueueInv' /\ mem' \in [Addr -> Val] /\ due' \in [Port -> Int]
    BY <1>1, <2>1, CallType
  <2>3. /\ stall' \in BOOLEAN /\ turn' \in {"IF", "MW", "tick"}
        /\ UNCHANGED <<pc, fetched, disableIF, access, roundCounter, transferring>>
    BY <1>7 DEF AccessStalls, pipeVars, tdmVars
  <2> QED BY <2>2, <2>3 DEF TypeOK, Request
<1>8. CASE NoAccessInMW
  BY <1>8 DEF NoAccessInMW, TypeOK, pipeVars, tdmVars, QueueInv, KeysDiffer, FinishedIsFirst
<1>9. CASE Tick
  <2>1. requests' \in Seq(Request) /\ QueueInv' /\ transferring' \in BOOLEAN
        /\ roundCounter' \in Nat /\ (Kind = "tdm" => roundCounter' < RoundLength)
    BY <1>1, <1>9, TickKeepsQueue DEF Tick
  <2>2. /\ pc' \in Counters \cup {InCache} /\ access' \in DataAccesses \cup {NoAccess}
        /\ disableIF' \in BOOLEAN
    BY <1>9 DEF Tick, MovePipeline, TypeOK
  <2>3. due' \in [Port -> Int]
    BY <1>9 DEF Tick, TypeOK
  <2>4. /\ turn' \in {"IF", "MW", "tick"} /\ stall' \in BOOLEAN
        /\ UNCHANGED <<fetched, mem>>
    BY <1>9 DEF Tick
  <2> QED BY <2>1, <2>2, <2>3, <2>4 DEF TypeOK, Request
<1>10. CASE UNCHANGED vars
  BY <1>10 DEF vars, TypeOK, QueueInv, KeysDiffer, FinishedIsFirst
<1> QED BY <1>3, <1>4, <1>5, <1>6, <1>7, <1>8, <1>9, <1>10 DEF Next, FetchStage, MWStage

\* Every variable keeps its type, for each kind of memory and any number of
\* posted writes.
THEOREM MemoryTypeOK == Spec => []TypeOK
<1>1. QueueIInv => TypeOK
  BY DEF QueueIInv
<1> QED BY <1>1, QueueInit, QueueStep, PTL DEF Spec

\* read() and write() erase the first request of the queue when they find
\* theirs finished, and theirs is the first: the assertion the code makes.
THEOREM MemoryFinishedIsFirst == Spec => []FinishedIsFirst
<1>1. QueueIInv => FinishedIsFirst
  BY DEF QueueIInv, QueueInv
<1> QED BY <1>1, QueueInit, QueueStep, PTL DEF Spec

-----------------------------------------------------------------------------
(***************************************************************************)
(* No request is left behind, without posted writes.                       *)
(***************************************************************************)

LEMMA OrphanInit == Init => OrphanIInv
<1> SUFFICES ASSUME Init PROVE OrphanIInv
  OBVIOUS
<1>1. QueueIInv
  BY QueueInit
<1>2. Len(requests) = 0 /\ turn = "IF"
  BY EmptySeq DEF Init
<1> QED BY <1>1, <1>2 DEF OrphanIInv, AllWanted, MovesOn

\* When an access is answered its port wants something else, and the one
\* request of the queue that was for it is gone: nobody else waits for it.
LEMMA AnswerLeavesWanted ==
  ASSUME TypeOK, QueueInv, AllWanted, Posted = 0,
         NEW p \in Port, NEW a \in Accesses, Ready(p, a)
  PROVE  \A i \in 1 .. Len(requests') :
           Wanted(requests'[i]) /\ ~Matches(requests'[i], a)
<1>1. requests \in Seq(Request) /\ Len(requests) \in Nat
  BY LenProperties DEF TypeOK, Request
<1>2. requests # <<>> /\ Matches(requests[1], a) /\ requests' = Tail(requests)
  BY <1>1, ReadyQueue
<1>3. /\ Len(requests') = Len(requests) - 1
      /\ \A i \in 1 .. Len(requests') : requests'[i] = requests[i + 1]
  BY <1>1, <1>2, HeadTailProperties
<1>4. \A i \in 1 .. Len(requests') :
        1 \in 1 .. Len(requests) /\ i + 1 \in 1 .. Len(requests) /\ i + 1 # 1
          /\ requests'[i] = requests[i + 1]
  BY <1>1, <1>3
<1>5. \A i \in 1 .. Len(requests') : ~Matches(requests'[i], a)
  BY <1>2, <1>4 DEF Matches, QueueInv, KeysDiffer
<1>6. \A i \in 1 .. Len(requests') : Wanted(requests'[i])
  BY <1>4 DEF AllWanted
<1> QED BY <1>5, <1>6

LEMMA OrphanStep == Posted = 0 /\ OrphanIInv /\ [Next]_vars => OrphanIInv'
<1> SUFFICES ASSUME Posted = 0, OrphanIInv, [Next]_vars PROVE OrphanIInv'
  OBVIOUS
<1>1. TypeOK /\ QueueInv /\ AllWanted /\ MovesOn
  BY DEF OrphanIInv, QueueIInv
<1>2. QueueIInv'
  BY QueueStep DEF OrphanIInv
<1>3. requests \in Seq(Request) /\ "IF" \in Port /\ "MW" \in Port
  BY <1>1 DEF TypeOK, Request, Port
<1> SUFFICES AllWanted' /\ MovesOn'
  BY <1>2 DEF OrphanIInv
<1>4. CASE FetchWord
  <2>1. /\ FetchWaits /\ Ready("IF", FetchAccess) /\ UNCHANGED <<access, stall>>
        /\ turn' = "IF" \/ (turn' = "MW" /\ disableIF' = TRUE)
    BY <1>4, Zenon DEF FetchWord, FetchWaits
  <2>2. FetchAccess \in Accesses
    BY <1>1, <2>1, AccessTypes DEF FetchWaits
  <2>3. \A i \in 1 .. Len(requests') :
          Wanted(requests'[i]) /\ ~Matches(requests'[i], FetchAccess)
    BY <1>1, <1>3, <2>1, <2>2, AnswerLeavesWanted
  <2>4. \A i \in 1 .. Len(requests') :
          access # NoAccess /\ Matches(requests'[i], access)
    BY <2>3 DEF Wanted, AccessWaits
  <2>5. AllWanted'
    BY <2>1, <2>4 DEF AllWanted, Wanted, AccessWaits
  <2>6. MovesOn'
    BY <2>1 DEF MovesOn, FetchWaits
  <2> QED BY <2>5, <2>6
<1>5. CASE FetchStalls
  <2>1. /\ FetchWaits /\ NotReady("IF", FetchAccess) /\ stall' = TRUE
        /\ UNCHANGED <<pc, fetched, disableIF, access>>
    BY <1>5 DEF FetchStalls, FetchWaits, pipeVars
  <2>2. FetchAccess \in Accesses
    BY <1>1, <2>1, AccessTypes DEF FetchWaits
  <2>3. \A i \in 1 .. Len(requests') :
          \/ i \in 1 .. Len(requests) /\ requests'[i] = requests[i]
          \/ Matches(requests'[i], FetchAccess)
    BY <1>1, <1>3, <2>1, <2>2, NotReadyQueue
  <2>4. \A i \in 1 .. Len(requests') : Wanted(requests'[i])
    BY <1>1, <2>1, <2>3 DEF AllWanted, Wanted
  <2>5. AllWanted'
    BY <2>1, <2>4 DEF AllWanted, Wanted, AccessWaits, FetchWaits, FetchAccess, Matches
  <2> QED BY <2>1, <2>5 DEF MovesOn
<1>6. CASE NoFetch
  <2>1. /\ ~FetchWaits /\ ~FetchWaits' /\ turn' = "MW"
        /\ UNCHANGED <<access, requests>>
    BY <1>6 DEF NoFetch, FetchWaits
  <2> QED BY <1>1, <2>1 DEF AllWanted, Wanted, AccessWaits, MovesOn
<1>7. CASE AccessDone
  <2>1. /\ access # NoAccess /\ Ready("MW", access) /\ access' = NoAccess
        /\ turn = "MW" /\ turn' = "tick"
        /\ UNCHANGED <<pc, fetched, disableIF, stall>>
    BY <1>7 DEF AccessDone
  <2>2. access \in Accesses
    BY <1>1, <2>1, AccessTypes
  <2>3. \A i \in 1 .. Len(requests') :
          Wanted(requests'[i]) /\ ~Matches(requests'[i], access)
    BY <1>1, <1>3, <2>1, <2>2, AnswerLeavesWanted
  <2>4. \A i \in 1 .. Len(requests') :
          FetchWaits /\ Matches(requests'[i], FetchAccess)
    BY <2>3 DEF Wanted
  <2>5. AllWanted'
    BY <2>1, <2>4 DEF AllWanted, Wanted, FetchWaits, FetchAccess, Matches
  <2>6. MovesOn'
    BY <1>1, <2>1 DEF MovesOn, FetchWaits, AccessWaits
  <2> QED BY <2>5, <2>6
<1>8. CASE AccessStalls
  <2>1. /\ access # NoAccess /\ NotReady("MW", access) /\ stall' = TRUE
        /\ UNCHANGED <<pc, fetched, disableIF, access>>
    BY <1>8 DEF AccessStalls, pipeVars
  <2>2. access \in Accesses
    BY <1>1, <2>1, AccessTypes
  <2>3. \A i \in 1 .. Len(requests') :
          \/ i \in 1 .. Len(requests) /\ requests'[i] = requests[i]
          \/ Matches(requests'[i], access)
    BY <1>1, <1>3, <2>1, <2>2, NotReadyQueue
  <2>4. \A i \in 1 .. Len(requests') : Wanted(requests'[i])
    BY <1>1, <2>1, <2>3 DEF AllWanted, Wanted, AccessWaits
  <2>5. AllWanted'
    BY <2>1, <2>4 DEF AllWanted, Wanted, AccessWaits, FetchWaits, FetchAccess, Matches
  <2> QED BY <2>1, <2>5 DEF MovesOn
<1>9. CASE NoAccessInMW
  <2>1. /\ access = NoAccess /\ turn = "MW" /\ turn' = "tick"
        /\ UNCHANGED <<pc, fetched, disableIF, access, stall, requests>>
    BY <1>9 DEF NoAccessInMW, pipeVars
  <2>2. AllWanted'
    BY <1>1, <2>1 DEF AllWanted, Wanted, AccessWaits, FetchWaits, FetchAccess, Matches
  <2> QED BY <1>1, <2>1, <2>2 DEF MovesOn, AccessWaits, FetchWaits
<1>10. CASE Tick
  <2>1. /\ turn = "tick" /\ turn' = "IF" /\ UNCHANGED fetched
        /\ TickFixed \/ TickTDM
        /\ MovePipeline
    BY <1>10 DEF Tick
  <2>2. /\ requests' \in Seq(Request)
        /\ \A i \in 1 .. Len(requests') :
             \E j \in 1 .. Len(requests) :
               /\ requests'[i].addr = requests[j].addr
               /\ requests'[i].size = requests[j].size
               /\ requests'[i].load = requests[j].load
    BY <1>1, <2>1, TickKeepsQueue
  <2>3. CASE stall
    <3>1. UNCHANGED <<pc, fetched, disableIF, access>>
      BY <2>1, <2>3 DEF MovePipeline
    <3>2. \A i \in 1 .. Len(requests') : Wanted(requests'[i])
      BY <1>1, <2>2 DEF AllWanted, Wanted, Matches
    <3>3. AllWanted'
      BY <3>1, <3>2 DEF AllWanted, Wanted, AccessWaits, FetchWaits, FetchAccess, Matches
    <3> QED BY <2>1, <3>3 DEF MovesOn
  <2>4. CASE ~stall
    <3>1. \A r \in Request : ~Wanted(r)
      BY <1>1, <2>1, <2>4 DEF MovesOn, Wanted
    <3>2. \A i \in 1 .. Len(requests) : FALSE
      BY <1>1, <1>3, <3>1, ElementOfSeq DEF AllWanted
    <3>3. \A i \in 1 .. Len(requests') : FALSE
      BY <2>2, <3>2
    <3> QED BY <2>1, <3>3 DEF AllWanted, MovesOn
  <2> QED BY <2>3, <2>4
<1>11. CASE UNCHANGED vars
  BY <1>1, <1>11 DEF vars, AllWanted, MovesOn, Wanted, AccessWaits, FetchWaits, FetchAccess, Matches
<1> QED BY <1>4, <1>5, <1>6, <1>7, <1>8, <1>9, <1>10, <1>11 DEF Next, FetchStage, MWStage

LEMMA OrphanIInvImpliesNoOrphans == OrphanIInv => NoOrphans
<1> SUFFICES ASSUME OrphanIInv PROVE NoOrphans
  OBVIOUS
<1>1. TypeOK /\ QueueInv /\ AllWanted
  BY DEF OrphanIInv, QueueIInv
<1>2. /\ "IF" \in Port /\ "MW" \in Port
      /\ FetchWaits => Pending["IF"] = FetchAccess
      /\ Pending["MW"] = access
  BY Zenon DEF Pending, Port, FetchWaits
<1>3. FetchWaits => FetchAccess # NoAccess
  BY <1>1, AccessTypes, MemoryProgram DEF FetchWaits
<1>4. \A i \in 1 .. Len(requests) : \E p \in Port :
        Pending[p] # NoAccess /\ Matches(requests[i], Pending[p])
  <2> SUFFICES ASSUME NEW i \in 1 .. Len(requests)
               PROVE  \E p \in Port : Pending[p] # NoAccess /\ Matches(requests[i], Pending[p])
    OBVIOUS
  <2>1. Wanted(requests[i])
    BY <1>1 DEF AllWanted
  <2> HIDE DEF Pending
  <2> QED BY <1>2, <1>3, <2>1 DEF Wanted, AccessWaits
<1> QED BY <1>1, <1>4 DEF NoOrphans, QueueInv, KeysDiffer

\* Every request in the queue is one a port still waits for, and each for
\* another access: nothing can stay at the head of the queue and block it.
THEOREM MemoryNoOrphans == Posted = 0 /\ Spec => []NoOrphans
<1> SUFFICES ASSUME Posted = 0 PROVE Spec => []NoOrphans
  OBVIOUS
<1>1. OrphanIInv /\ [Next]_vars => OrphanIInv'
  BY OrphanStep
<1> QED BY <1>1, OrphanInit, OrphanIInvImpliesNoOrphans, PTL DEF Spec

-----------------------------------------------------------------------------
(***************************************************************************)
(* The slots of the TDM memory.                                            *)
(***************************************************************************)
\* A finished request is taken in the same cycle, by the port that waits for it.
TakenInTime ==
  /\ turn = "MW" =>
       \A i \in 1 .. Len(requests) :
         requests[i].ticks = 0 => AccessWaits /\ Matches(requests[i], access)
  /\ turn = "tick" => \A i \in 1 .. Len(requests) : requests[i].ticks # 0

Unposted == \A i \in 1 .. Len(requests) : requests[i].posted = FALSE

\* A transfer is that of the first request, and goes on from the beginning of the
\* slot until its response.
WithinSlot ==
  transferring =>
    /\ Kind = "tdm"
    /\ requests # <<>> /\ requests[1].ticks # 0
    /\ \E k \in 0 .. TicksPerBurst + ReadDelay - 1 :
         roundCounter = RoundStart + k \/ roundCounter = RoundStart + k - RoundLength

SlotIInv == OrphanIInv /\ TakenInTime /\ Unposted /\ WithinSlot

\* The beginning of the slot and the response in the round.
LEMMA SlotInRound ==
  ASSUME Kind = "tdm"
  PROVE  /\ RoundLength \in Nat \ {0}
         /\ RoundStart \in Nat /\ RoundStart < RoundLength
         /\ TicksPerBurst \in Nat /\ ReadDelay \in Nat
         /\ TicksPerBurst + ReadDelay > 0 /\ TicksPerBurst + ReadDelay < RoundLength
<1>1. /\ Cores \in Nat \ {0} /\ CpuId \in Nat /\ CpuId + 1 <= Cores /\ RefreshTicks \in Nat
      /\ TicksPerBurst \in Nat /\ ReadDelay \in Nat /\ TicksPerBurst + ReadDelay > 0
  BY TakesTime, Round
<1>2. /\ Cores * TicksPerBurst \in Nat /\ CpuId * TicksPerBurst \in Nat
      /\ CpuId * TicksPerBurst + TicksPerBurst <= Cores * TicksPerBurst
  <2>1. TicksPerBurst * (CpuId + 1) <= TicksPerBurst * Cores
    BY <1>1, ProductMonotone
  <2>2. TicksPerBurst * (CpuId + 1) = CpuId * TicksPerBurst + TicksPerBurst
    BY <1>1
  <2>3. TicksPerBurst * Cores = Cores * TicksPerBurst /\ Cores * TicksPerBurst \in Nat
        /\ CpuId * TicksPerBurst \in Nat
    BY <1>1
  <2> QED BY <2>1, <2>2, <2>3
<1>3. TicksPerBurst + ReadDelay < RoundLength
  BY MemoryProgram
<1>4. /\ RoundLength = Cores * TicksPerBurst + RefreshTicks
      /\ RoundStart = CpuId * TicksPerBurst
  BY DEF RoundLength, RoundStart
<1>5. TicksPerBurst = 0 => CpuId * TicksPerBurst = 0
  BY <1>1
<1>6. ASSUME NEW c \in Nat, NEW s \in Nat, s + TicksPerBurst <= c,
             TicksPerBurst = 0 => s = 0,
             RoundLength = c + RefreshTicks, RoundStart = s
      PROVE  RoundLength \in Nat \ {0} /\ RoundStart \in Nat /\ RoundStart < RoundLength
  BY <1>1, <1>3, <1>6
<1> QED BY <1>1, <1>2, <1>3, <1>4, <1>5, <1>6

\* A call that is answered ends no transfer: its request was through before.
LEMMA AnswerKeepsSlots ==
  ASSUME TypeOK, QueueInv, Unposted, Posted = 0,
         NEW p \in Port, NEW a \in Accesses, Ready(p, a)
  PROVE  /\ \A i \in 1 .. Len(requests') :
              requests'[i].ticks # 0 /\ requests'[i].posted = FALSE
         /\ requests[1].ticks = 0
<1>1. requests \in Seq(Request) /\ Len(requests) \in Nat
  BY LenProperties DEF TypeOK, Request
<1>2. /\ Finished(a) /\ requests # <<>> /\ Matches(requests[1], a)
      /\ requests' = Tail(requests)
  BY <1>1, ReadyQueue
<1>3. /\ Len(requests') = Len(requests) - 1
      /\ \A i \in 1 .. Len(requests') : requests'[i] = requests[i + 1]
  BY <1>1, <1>2, HeadTailProperties
<1>4. \A i \in 1 .. Len(requests') :
        i + 1 \in 1 .. Len(requests) /\ i + 1 # 1 /\ requests'[i] = requests[i + 1]
  BY <1>1, <1>3
<1>5. \A i \in 1 .. Len(requests') :
        requests'[i].ticks # 0 /\ requests'[i].posted = FALSE
  BY <1>4 DEF QueueInv, FinishedIsFirst, Unposted
<1>6. requests[1].ticks = 0
  <2>1. Found(a) = requests /\ 1 \in 1 .. Len(requests)
    BY <1>1, <1>2, AnswersFirst
  <2>2. Matching(a) = {1}
    <3>1. \A i \in Matching(a) : i = 1
      BY <1>2, <2>1 DEF Matching, Matches, QueueInv, KeysDiffer
    <3> QED BY <1>2, <2>1, <3>1 DEF Matching
  <2>3. First(a) = 1
    BY <2>2 DEF First
  <2> QED BY <1>2, <2>1, <2>3 DEF Finished
<1> QED BY <1>5, <1>6

\* A call that is not answered leaves the first request where it is, and what it
\* waits for is not finished.
LEMMA WaitKeepsSlots ==
  ASSUME TypeOK, QueueInv, Unposted,
         NEW p \in Port, NEW a \in Accesses, NotReady(p, a)
  PROVE  /\ \A i \in 1 .. Len(requests') :
              /\ requests'[i].posted = FALSE
              /\ requests'[i].ticks = 0 =>
                   /\ i \in 1 .. Len(requests) /\ requests'[i] = requests[i]
                   /\ ~ Matches(requests[i], a)
         /\ requests # <<>> => requests' # <<>> /\ requests'[1] = requests[1]
<1>1. requests \in Seq(Request) /\ Len(requests) \in Nat
  BY LenProperties DEF TypeOK, Request
<1>2. requests' = Found(a) /\ ~ Finished(a)
  BY DEF NotReady
<1>3. CASE Matching(a) = {}
  <2> DEFINE new == NewRequest(a)
  <2>1. new \in Request /\ new.ticks # 0 /\ new.posted = FALSE
    BY NewRequestType DEF NewRequest
  <2>2. requests' = Append(requests, new)
    BY <1>2, <1>3 DEF Found
  <2>3. \A i \in 1 .. Len(requests) : ~ Matches(requests[i], a)
    BY <1>3 DEF Matching
  <2> HIDE DEF new
  <2>4. /\ Len(requests') = Len(requests) + 1
        /\ \A i \in 1 .. Len(requests) : requests'[i] = requests[i]
        /\ requests'[Len(requests) + 1] = new
    BY <1>1, <2>1, <2>2, AppendProperties
  <2>5. \A i \in 1 .. Len(requests') : i \in 1 .. Len(requests) \/ i = Len(requests) + 1
    BY <1>1, <2>4
  <2>6. requests # <<>> => requests' # <<>> /\ requests'[1] = requests[1]
    <3>1. requests' \in Seq(Request) /\ requests' # <<>>
      BY <1>1, <2>1, <2>2, AppendProperties
    <3>2. requests # <<>> => 1 \in 1 .. Len(requests)
      BY <1>1, EmptySeq
    <3> QED BY <2>4, <3>1, <3>2
  <2> QED BY <2>1, <2>3, <2>4, <2>5, <2>6 DEF Unposted
<1>4. CASE Matching(a) # {}
  <2>1. requests' = requests
    BY <1>2, <1>4 DEF Found
  <2>2. ASSUME NEW i \in 1 .. Len(requests), Matches(requests[i], a)
        PROVE  requests[i].ticks # 0
    <3>1. \A j \in Matching(a) : j = i
      BY <2>2 DEF Matching, Matches, QueueInv, KeysDiffer
    <3>2. Matching(a) = {i}
      BY <2>2, <3>1 DEF Matching
    <3>3. First(a) = i
      BY <1>1, <3>2 DEF First
    <3> QED BY <1>2, <2>1, <3>3 DEF Finished
  <2> QED BY <2>1, <2>2 DEF Unposted
<1> QED BY <1>3, <1>4

\* Until the tick, nothing but an answer disturbs a transfer.
LEMMA CallsKeepSlots ==
  ASSUME SlotIInv, Posted = 0, FetchStage \/ MWStage
  PROVE  TakenInTime' /\ Unposted' /\ WithinSlot'
<1>1. /\ TypeOK /\ QueueInv /\ AllWanted /\ TakenInTime /\ Unposted /\ WithinSlot
      /\ "IF" \in Port /\ "MW" \in Port
  BY DEF SlotIInv, OrphanIInv, QueueIInv, Port
<1>2. /\ roundCounter' = roundCounter /\ transferring' = transferring
  BY DEF FetchStage, MWStage, FetchWord, FetchStalls, NoFetch, AccessDone, AccessStalls,
         NoAccessInMW, tdmVars
<1>3. requests \in Seq(Request) /\ Len(requests) \in Nat
  BY <1>1, LenProperties DEF TypeOK, Request
<1>4. requests # <<>> => 1 \in 1 .. Len(requests)
  BY <1>3, EmptySeq
<1>5. SUFFICES /\ TakenInTime' /\ Unposted'
               /\ transferring => requests' # <<>> /\ requests'[1].ticks # 0
  BY <1>1, <1>2 DEF WithinSlot
<1>6. CASE FetchWord
  <2>1. FetchWaits /\ Ready("IF", FetchAccess) /\ turn' \in {"IF", "MW"}
    BY <1>6, Zenon DEF FetchWord, FetchWaits
  <2>2. FetchAccess \in Accesses
    BY <1>1, <2>1, AccessTypes DEF FetchWaits
  <2>3. /\ \A i \in 1 .. Len(requests') :
              requests'[i].ticks # 0 /\ requests'[i].posted = FALSE
        /\ requests[1].ticks = 0
    BY <1>1, <2>1, <2>2, AnswerKeepsSlots
  <2> QED BY <1>1, <2>1, <2>3 DEF TakenInTime, Unposted, WithinSlot
<1>7. CASE FetchStalls
  <2>1. /\ FetchWaits /\ NotReady("IF", FetchAccess) /\ turn' = "MW"
        /\ access' = access
    BY <1>7 DEF FetchStalls, FetchWaits, pipeVars
  <2>2. FetchAccess \in Accesses
    BY <1>1, <2>1, AccessTypes DEF FetchWaits
  <2>3. /\ \A i \in 1 .. Len(requests') :
              /\ requests'[i].posted = FALSE
              /\ requests'[i].ticks = 0 =>
                   /\ i \in 1 .. Len(requests) /\ requests'[i] = requests[i]
                   /\ ~ Matches(requests[i], FetchAccess)
        /\ requests # <<>> => requests' # <<>> /\ requests'[1] = requests[1]
    BY <1>1, <2>1, <2>2, WaitKeepsSlots
  <2>4. \A i \in 1 .. Len(requests') :
          requests'[i].ticks = 0 => AccessWaits /\ Matches(requests'[i], access)
    BY <1>1, <2>3 DEF AllWanted, Wanted
  <2> QED BY <1>1, <2>1, <2>3, <2>4 DEF TakenInTime, Unposted, WithinSlot, AccessWaits
<1>8. CASE NoFetch
  <2>1. ~ FetchWaits /\ turn' = "MW" /\ UNCHANGED <<access, requests>>
    BY <1>8 DEF NoFetch, FetchWaits
  <2>2. \A i \in 1 .. Len(requests) : AccessWaits /\ Matches(requests[i], access)
    BY <1>1, <2>1 DEF AllWanted, Wanted
  <2> QED BY <1>1, <2>1, <2>2 DEF TakenInTime, Unposted, WithinSlot, AccessWaits
<1>9. CASE AccessDone
  <2>1. access # NoAccess /\ Ready("MW", access) /\ turn' = "tick"
    BY <1>9 DEF AccessDone
  <2>2. access \in Accesses
    BY <1>1, <2>1, AccessTypes
  <2>3. /\ \A i \in 1 .. Len(requests') :
              requests'[i].ticks # 0 /\ requests'[i].posted = FALSE
        /\ requests[1].ticks = 0
    BY <1>1, <2>1, <2>2, AnswerKeepsSlots
  <2> QED BY <1>1, <2>1, <2>3 DEF TakenInTime, Unposted, WithinSlot
<1>10. CASE AccessStalls
  <2>1. /\ access # NoAccess /\ NotReady("MW", access) /\ turn = "MW" /\ turn' = "tick"
    BY <1>10 DEF AccessStalls
  <2>2. access \in Accesses
    BY <1>1, <2>1, AccessTypes
  <2>3. /\ \A i \in 1 .. Len(requests') :
              /\ requests'[i].posted = FALSE
              /\ requests'[i].ticks = 0 =>
                   /\ i \in 1 .. Len(requests) /\ requests'[i] = requests[i]
                   /\ ~ Matches(requests[i], access)
        /\ requests # <<>> => requests' # <<>> /\ requests'[1] = requests[1]
    BY <1>1, <2>1, <2>2, WaitKeepsSlots
  <2>4. \A i \in 1 .. Len(requests') : requests'[i].ticks # 0
    BY <1>1, <2>1, <2>3 DEF TakenInTime
  <2> QED BY <1>1, <2>1, <2>3, <2>4 DEF TakenInTime, Unposted, WithinSlot
<1>11. CASE NoAccessInMW
  <2>1. ~ AccessWaits /\ turn = "MW" /\ turn' = "tick" /\ requests' = requests
    BY <1>11 DEF NoAccessInMW, AccessWaits
  <2> QED BY <1>1, <2>1 DEF TakenInTime, Unposted, WithinSlot
<1> QED BY <1>6, <1>7, <1>8, <1>9, <1>10, <1>11 DEF FetchStage, MWStage

\* The response comes before the slot does again.
LEMMA TickKeepsSlots ==
  ASSUME SlotIInv, Tick
  PROVE  TakenInTime' /\ Unposted' /\ WithinSlot'
<1>1. /\ TypeOK /\ TakenInTime /\ Unposted /\ WithinSlot
      /\ turn = "tick" /\ turn' = "IF" /\ (TickFixed \/ TickTDM)
  BY DEF SlotIInv, OrphanIInv, QueueIInv, Tick
<1>2. requests \in Seq(Request) /\ Len(requests) \in Nat
  BY <1>1, LenProperties DEF TypeOK, Request
<1>3. requests # <<>> => 1 \in 1 .. Len(requests) /\ requests[1] \in Request
  BY <1>2, EmptySeq, ElementOfSeq
<1>4. \A i \in 1 .. Len(requests) : requests[i].ticks # 0
  BY <1>1 DEF TakenInTime
<1>5. TakenInTime'
  BY <1>1 DEF TakenInTime
<1>6. ASSUME NEW ticks \in Nat, TickQueue(ticks)
      PROVE  Unposted'
  <2>1. CASE requests' = requests
    BY <1>1, <2>1 DEF Unposted
  <2>2. CASE requests' # requests
    <3>1. /\ requests # <<>> /\ requests' = [requests EXCEPT ![1].ticks = ticks]
      BY <1>1, <1>3, <1>6, <2>2 DEF TickQueue, Unposted
    <3>2. requests' = [requests EXCEPT ![1] = [requests[1] EXCEPT !.ticks = ticks]]
      BY <1>3, <3>1
    <3>3. [requests[1] EXCEPT !.ticks = ticks] \in Request
          /\ [requests[1] EXCEPT !.ticks = ticks].posted = requests[1].posted
      BY <1>3, <3>1 DEF Request
    <3>4. /\ Len(requests') = Len(requests)
          /\ \A i \in 1 .. Len(requests) :
               requests'[i] = IF i = 1 THEN [requests[1] EXCEPT !.ticks = ticks] ELSE requests[i]
      BY <1>2, <1>3, <3>1, <3>2, <3>3, ExceptSeq
    <3> QED BY <1>1, <1>3, <3>1, <3>3, <3>4 DEF Unposted
  <2> QED BY <2>1, <2>2
<1>7. CASE TickFixed
  <2>1. Kind # "tdm" /\ transferring' = transferring
    BY <1>7 DEF TickFixed, tdmVars
  <2>2. PICK ticks \in Nat : TickQueue(ticks) \/ requests' = requests
    <3>1. CASE requests = <<>>
      BY <1>7, <3>1 DEF TickFixed, TickQueue
    <3>2. CASE requests # <<>>
      <4>1. requests[1].ticks - 1 \in Nat
        BY <1>3, <1>4, <3>2 DEF Request
      <4> QED BY <1>7, <3>2, <4>1 DEF TickFixed
    <3> QED BY <3>1, <3>2
  <2>3. Unposted'
    <3>1. CASE TickQueue(ticks)
      BY <1>6, <3>1
    <3>2. CASE requests' = requests
      BY <1>1, <3>2 DEF Unposted
    <3> QED BY <2>2, <3>1, <3>2
  <2>4. WithinSlot'
    BY <1>1, <2>1 DEF WithinSlot
  <2> QED BY <1>5, <2>3, <2>4
<1>8. CASE TickTDM
  <2> DEFINE counter == (roundCounter + 1) % RoundLength
             started == IF counter = RoundStart THEN requests # <<>> ELSE transferring
             completes == /\ requests # <<>> /\ requests[1].ticks > 0
                          /\ counter = RoundEnd(requests[1].posted)
                          /\ started
  <2>1. /\ Kind = "tdm" /\ roundCounter' = counter
        /\ IF completes
           THEN TickQueue(requests[1].ticks - 1) /\ transferring' = FALSE
           ELSE requests' = requests /\ transferring' = started
    BY <1>8 DEF TickTDM
  <2>2. /\ RoundLength \in Nat \ {0}
        /\ RoundStart \in Nat /\ RoundStart < RoundLength
        /\ TicksPerBurst \in Nat /\ ReadDelay \in Nat
        /\ TicksPerBurst + ReadDelay > 0 /\ TicksPerBurst + ReadDelay < RoundLength
    BY <2>1, SlotInRound
  <2>3. roundCounter \in Nat /\ roundCounter < RoundLength
    BY <1>1, <2>1 DEF TypeOK
  <2>4. counter = IF roundCounter + 1 = RoundLength THEN 0 ELSE roundCounter + 1
    <3> HIDE DEF counter
    <3>1. \A n, m \in Nat : n < m => (n + 1) % m = IF n + 1 = m THEN 0 ELSE n + 1
      OBVIOUS
    <3> QED BY <2>2, <2>3, <3>1 DEF counter
  <2>5. CASE completes
    <3>1. /\ TickQueue(requests[1].ticks - 1) /\ transferring' = FALSE
          /\ requests # <<>>
      BY <2>1, <2>5
    <3>2. requests[1].ticks - 1 \in Nat
      BY <1>3, <1>4, <3>1 DEF Request
    <3> QED BY <1>5, <1>6, <3>1, <3>2 DEF WithinSlot
  <2>6. CASE ~ completes
    <3>1. requests' = requests /\ transferring' = started
      BY <2>1, <2>6
    <3>2. Unposted'
      BY <1>1, <3>1 DEF Unposted
    <3>3. WithinSlot'
      <4> SUFFICES ASSUME started PROVE WithinSlot'
        BY <3>1 DEF WithinSlot
      <4>1. requests # <<>> /\ requests[1].ticks # 0
        BY <1>1, <1>3, <1>4 DEF WithinSlot
      <4>2. requests[1].posted = FALSE /\ requests[1].ticks > 0
        BY <1>1, <1>3, <1>4, <4>1 DEF Unposted, Request
      <4>3. counter # RoundEnd(FALSE)
        BY <2>6, <4>1, <4>2
      <4>4. RoundEnd(FALSE) = IF RoundStart + (TicksPerBurst + ReadDelay) >= RoundLength
                              THEN RoundStart + (TicksPerBurst + ReadDelay) - RoundLength
                              ELSE RoundStart + (TicksPerBurst + ReadDelay)
        BY <2>2 DEF RoundEnd
      <4> HIDE DEF counter
      <4>5. \E k \in 0 .. TicksPerBurst + ReadDelay - 1 :
              counter = RoundStart + k \/ counter = RoundStart + k - RoundLength
        <5>1. CASE counter = RoundStart
          <6>1. 0 \in 0 .. TicksPerBurst + ReadDelay - 1 /\ counter = RoundStart + 0
            BY <2>2, <5>1
          <6> QED BY <6>1
        <5>2. CASE counter # RoundStart
          <6>1. PICK k \in 0 .. TicksPerBurst + ReadDelay - 1 :
                  roundCounter = RoundStart + k \/ roundCounter = RoundStart + k - RoundLength
            BY <1>1, <5>2 DEF WithinSlot
          <6>2. counter = RoundStart + (k + 1) \/ counter = RoundStart + (k + 1) - RoundLength
            BY <2>2, <2>3, <2>4, <6>1
          <6>3. k + 1 # TicksPerBurst + ReadDelay
            <7>1. counter \in Nat /\ counter < RoundLength
              BY <2>2, <2>3, <2>4
            <7>2. SUFFICES ASSUME k + 1 = TicksPerBurst + ReadDelay PROVE FALSE
              OBVIOUS
            <7>3. \/ counter = RoundStart + (TicksPerBurst + ReadDelay)
                  \/ counter = RoundStart + (TicksPerBurst + ReadDelay) - RoundLength
              BY <6>2, <7>2
            <7>4. ASSUME NEW s \in Nat, NEW w \in Nat, NEW l \in Nat, NEW c \in Nat, c < l,
                         s < l, w < l, c = s + w \/ c = s + w - l
                  PROVE  c = IF s + w >= l THEN s + w - l ELSE s + w
              BY <7>4
            <7>5. TicksPerBurst + ReadDelay \in Nat
              BY <2>2
            <7> HIDE DEF completes, started
            <7>6. counter = IF RoundStart + (TicksPerBurst + ReadDelay) >= RoundLength
                            THEN RoundStart + (TicksPerBurst + ReadDelay) - RoundLength
                            ELSE RoundStart + (TicksPerBurst + ReadDelay)
              BY <2>2, <7>1, <7>3, <7>4, <7>5
            <7>7. counter = RoundEnd(FALSE)
              BY <4>4, <7>6
            <7> QED BY <4>3, <7>7
          <6>4. k + 1 \in 0 .. TicksPerBurst + ReadDelay - 1
            BY <2>2, <6>1, <6>3
          <6> QED BY <6>2, <6>4
        <5> QED BY <5>1, <5>2
      <4> QED BY <2>1, <3>1, <4>1, <4>5 DEF WithinSlot, counter
    <3> QED BY <1>5, <3>2, <3>3
  <2> QED BY <2>5, <2>6
<1> QED BY <1>1, <1>7, <1>8

\* The invariant holds throughout.
LEMMA SlotAlways == Posted = 0 /\ Spec => []SlotIInv
<1> SUFFICES ASSUME Posted = 0 PROVE Spec => []SlotIInv
  OBVIOUS
<1>1. Init => SlotIInv
  <2> SUFFICES ASSUME Init PROVE SlotIInv
    OBVIOUS
  <2>1. Len(requests) = 0 /\ turn = "IF" /\ transferring = FALSE
    BY EmptySeq DEF Init
  <2> QED BY <2>1, OrphanInit DEF SlotIInv, TakenInTime, Unposted, WithinSlot
<1>2. SlotIInv /\ [Next]_vars => SlotIInv'
  <2> SUFFICES ASSUME SlotIInv, [Next]_vars PROVE SlotIInv'
    OBVIOUS
  <2>1. OrphanIInv'
    BY OrphanStep DEF SlotIInv
  <2>2. CASE FetchStage \/ MWStage
    BY <2>1, <2>2, CallsKeepSlots DEF SlotIInv
  <2>3. CASE Tick
    BY <2>1, <2>3, TickKeepsSlots DEF SlotIInv
  <2>4. CASE UNCHANGED vars
    BY <2>1, <2>4 DEF vars, SlotIInv, TakenInTime, Unposted, WithinSlot, AccessWaits
  <2> QED BY <2>2, <2>3, <2>4 DEF Next
<1> QED BY <1>1, <1>2, PTL DEF Spec

\* Whatever the schedule, a transfer of this core is over, its response included,
\* when its next slot begins: tick_request needs no room for two.
THEOREM MemoryNoOverlap == Posted = 0 /\ Spec => []NoOverlap
<1> SUFFICES ASSUME Posted = 0 PROVE Spec => []NoOverlap
  OBVIOUS
<1>1. SlotIInv => NoOverlap
  <2> SUFFICES ASSUME SlotIInv, transferring, (roundCounter + 1) % RoundLength = RoundStart
               PROVE  FALSE
    BY DEF NoOverlap
  <2>1. TypeOK /\ WithinSlot /\ Kind = "tdm"
    BY DEF SlotIInv, OrphanIInv, QueueIInv, WithinSlot
  <2>2. /\ RoundLength \in Nat \ {0}
        /\ RoundStart \in Nat /\ RoundStart < RoundLength
        /\ TicksPerBurst + ReadDelay < RoundLength
        /\ TicksPerBurst \in Nat /\ ReadDelay \in Nat
    BY <2>1, SlotInRound
  <2>3. roundCounter \in Nat /\ roundCounter < RoundLength
    BY <2>1 DEF TypeOK
  <2>4. (roundCounter + 1) % RoundLength =
          IF roundCounter + 1 = RoundLength THEN 0 ELSE roundCounter + 1
    <3>1. \A n, m \in Nat : n < m => (n + 1) % m = IF n + 1 = m THEN 0 ELSE n + 1
      OBVIOUS
    <3> QED BY <2>2, <2>3, <3>1
  <2>5. PICK k \in 0 .. TicksPerBurst + ReadDelay - 1 :
          roundCounter = RoundStart + k \/ roundCounter = RoundStart + k - RoundLength
    BY <2>1 DEF WithinSlot
  <2>6. RoundStart = IF roundCounter + 1 = RoundLength THEN 0 ELSE roundCounter + 1
    BY <2>4
  <2> QED BY <2>2, <2>3, <2>5, <2>6
<1>2. Posted = 0 /\ Spec => []SlotIInv
  BY SlotAlways
<1> QED BY <1>1, <1>2, PTL

-----------------------------------------------------------------------------
(***************************************************************************)
(* The duration of an access.                                              *)
(***************************************************************************)
\* A quotient is the only number between whose multiples the dividend lies.
LEMMA QuotientUnique ==
  ASSUME NEW n \in Nat, NEW d \in Nat \ {0}, NEW q \in Nat, d * q <= n, n < d * q + d
  PROVE  n \div d = q
<1> DEFINE p == n \div d
<1>1. p \in Nat /\ d * p <= n /\ n < d * p + d
  BY Quotient
<1> HIDE DEF p
<1>2. ASSUME p < q PROVE FALSE
  <2>1. p + 1 \in Nat /\ p + 1 <= q
    BY <1>1, <1>2
  <2>2. d * (p + 1) <= d * q
    BY <2>1, ProductMonotone
  <2>3. d * (p + 1) = d * p + d /\ d * p \in Nat /\ d * q \in Nat
    BY <1>1
  <2> QED BY <1>1, <2>2, <2>3
<1>3. ASSUME q < p PROVE FALSE
  <2>1. q + 1 \in Nat /\ q + 1 <= p
    BY <1>1, <1>3
  <2>2. d * (q + 1) <= d * p
    BY <1>1, <2>1, ProductMonotone
  <2>3. d * (q + 1) = d * q + d /\ d * p \in Nat /\ d * q \in Nat
    BY <1>1
  <2> QED BY <1>1, <2>2, <2>3
<1> QED BY <1>1, <1>2, <1>3 DEF p

\* The quotients of an interval are an interval.
LEMMA QuotientsOfInterval ==
  ASSUME NEW m \in Nat, NEW n \in Nat, m <= n, NEW d \in Nat \ {0}
  PROVE  /\ m \div d \in Nat /\ n \div d \in Nat /\ m \div d <= n \div d
         /\ {x \div d : x \in m .. n} = (m \div d) .. (n \div d)
         /\ Cardinality({x \div d : x \in m .. n}) = (n \div d) - (m \div d) + 1
<1> DEFINE lo == m \div d
           hi == n \div d
<1>1. /\ lo \in Nat /\ d * lo <= m /\ m < d * lo + d
      /\ hi \in Nat /\ d * hi <= n /\ n < d * hi + d /\ lo <= hi
  BY Quotient, QuotientMonotone
<1>2. ASSUME NEW x \in m .. n PROVE x \div d \in lo .. hi
  <2>1. x \in Nat /\ m <= x /\ x <= n
    BY <1>2
  <2>2. x \div d \in Nat /\ lo <= x \div d /\ x \div d <= hi
    BY <2>1, Quotient, QuotientMonotone
  <2> HIDE DEF lo, hi
  <2> QED BY <1>1, <2>2
<1>3. ASSUME NEW q \in lo .. hi PROVE \E x \in m .. n : x \div d = q
  <2> HIDE DEF lo, hi
  <2>1. q \in Nat /\ lo <= q /\ q <= hi
    BY <1>1, <1>3
  <2>2. CASE q = lo
    BY <1>1, <2>2 DEF lo
  <2>3. CASE q # lo
    <3>1. lo + 1 <= q /\ lo + 1 \in Nat
      BY <1>1, <2>1, <2>3
    <3>2. d * (lo + 1) <= d * q /\ d * q <= d * hi
      BY <1>1, <2>1, <3>1, ProductMonotone
    <3>3. d * (lo + 1) = d * lo + d /\ d * q \in Nat /\ d * lo \in Nat /\ d * hi \in Nat
      BY <1>1, <2>1
    <3>4. d * q \in m .. n
      BY <1>1, <3>2, <3>3
    <3>5. (d * q) \div d = q
      BY <2>1, <3>3, QuotientUnique
    <3> QED BY <3>4, <3>5
  <2> QED BY <2>2, <2>3
<1>4. {x \div d : x \in m .. n} = lo .. hi
  <2> HIDE DEF lo, hi
  <2> QED BY <1>2, <1>3
<1>5. Cardinality(lo .. hi) = hi - lo + 1
  <2> HIDE DEF lo, hi
  <2>1. lo \in Int /\ hi \in Int /\ ~ (lo > hi)
    BY <1>1
  <2> QED BY <2>1, FS_Interval
<1> QED BY <1>1, <1>4, <1>5

\* The bursts an access transfers, their words and pages, as the memory counts them.
LEMMA TransferCounted ==
  ASSUME NEW a \in Accesses,
         NEW aligned, aligned = AlignedSize(a.addr, a.size),
         NEW start, start = AlignedAddress(a.addr)
  PROVE  /\ Cardinality(BurstsOf(a)) = Bursts(aligned)
         /\ Cardinality(WordsTransferred(a)) = aligned
         /\ Cardinality(PagesOf(a)) = Pages(start, aligned)
<1> DEFINE lo == a.addr \div BurstSize
           hi == (a.addr + a.size - 1) \div BurstSize
<1>1. /\ a.addr \in Nat /\ a.addr + a.size - 1 \in Nat /\ a.addr <= a.addr + a.size - 1
      /\ BurstSize \in Nat \ {0} /\ PageSize \in Nat \ {0}
  BY Positive, MemoryProgram DEF Accesses, Addr
<1>2. /\ lo \in Nat /\ hi \in Nat /\ lo <= hi
      /\ BurstsOf(a) = lo .. hi
      /\ Cardinality(BurstsOf(a)) = hi - lo + 1
  BY <1>1, QuotientsOfInterval DEF BurstsOf, Words
<1>3. /\ start = lo * BurstSize
      /\ aligned = (hi + 1) * BurstSize - lo * BurstSize
  BY DEF AlignedAddress, AlignedSize
<1> HIDE DEF lo, hi
<1>4. /\ lo * BurstSize = BurstSize * lo /\ (hi + 1) * BurstSize = BurstSize * hi + BurstSize
      /\ BurstSize * lo \in Nat /\ BurstSize * hi \in Nat /\ BurstSize * lo <= BurstSize * hi
  <2>1. BurstSize * lo <= BurstSize * hi
    BY <1>1, <1>2, ProductMonotone
  <2> QED BY <1>1, <1>2, <2>1
<1>5. Bursts(aligned) = hi - lo + 1
  <2>1. hi - lo \in Nat
    BY <1>2
  <2>2. BurstSize * (hi - lo) = BurstSize * hi - BurstSize * lo
    BY <1>1, <1>2
  <2>3. aligned - 1 = BurstSize * (hi - lo) + BurstSize - 1
    BY <1>1, <1>3, <1>4, <2>2
  <2>4. (aligned - 1) \div BurstSize = hi - lo
    <3>1. BurstSize * (hi - lo) \in Nat
      BY <1>4, <2>2
    <3>2. aligned - 1 \in Nat /\ BurstSize * (hi - lo) <= aligned - 1
          /\ aligned - 1 < BurstSize * (hi - lo) + BurstSize
      BY <1>1, <2>3, <3>1
    <3> QED BY <1>1, <2>1, <3>2, QuotientUnique
  <2> QED BY <2>4 DEF Bursts
<1>6. WordsTransferred(a) = start .. start + aligned - 1
  <2>1. ASSUME NEW x \in start .. start + aligned - 1
        PROVE  \E b \in lo .. hi : x \in b * BurstSize .. (b + 1) * BurstSize - 1
    <3>1. x \in Nat /\ BurstSize * lo <= x /\ x < BurstSize * hi + BurstSize
      <4>1. start = BurstSize * lo /\ start + aligned - 1 = BurstSize * hi + BurstSize - 1
        BY <1>1, <1>3, <1>4
      <4> QED BY <1>1, <1>4, <2>1, <4>1
    <3> DEFINE b == x \div BurstSize
    <3>2. b \in Nat /\ BurstSize * b <= x /\ x < BurstSize * b + BurstSize
      BY <1>1, <3>1, Quotient
    <3>3. lo <= b
      <4>1. (BurstSize * lo) \div BurstSize = lo
        BY <1>1, <1>2, <1>4, QuotientUnique
      <4> QED BY <1>1, <1>4, <3>1, <4>1, QuotientMonotone
    <3>4. b <= hi
      <4>1. BurstSize * hi + BurstSize - 1 \in Nat /\ x <= BurstSize * hi + BurstSize - 1
        BY <1>1, <1>4, <3>1
      <4>2. (BurstSize * hi + BurstSize - 1) \div BurstSize = hi
        BY <1>1, <1>2, <1>4, <4>1, QuotientUnique
      <4> QED BY <1>1, <3>1, <4>1, <4>2, QuotientMonotone
    <3> HIDE DEF b
    <3>5. b * BurstSize = BurstSize * b /\ (b + 1) * BurstSize = BurstSize * b + BurstSize
          /\ BurstSize * b \in Nat
      BY <1>1, <3>2
    <3> QED BY <1>1, <1>2, <3>1, <3>2, <3>3, <3>4, <3>5
  <2>2. ASSUME NEW b \in lo .. hi, NEW x \in b * BurstSize .. (b + 1) * BurstSize - 1
        PROVE  x \in start .. start + aligned - 1
    <3>1. b \in Nat /\ lo <= b /\ b <= hi
      BY <1>2
    <3>2. BurstSize * lo <= BurstSize * b /\ BurstSize * b <= BurstSize * hi
      BY <1>1, <1>2, <3>1, ProductMonotone
    <3>3. b * BurstSize = BurstSize * b /\ (b + 1) * BurstSize = BurstSize * b + BurstSize
          /\ BurstSize * b \in Nat
      BY <1>1, <3>1
    <3> QED BY <1>1, <1>3, <1>4, <2>2, <3>2, <3>3
  <2> QED BY <1>2, <2>1, <2>2 DEF WordsTransferred
<1>7. /\ start \in Nat /\ aligned \in Nat \ {0} /\ start + aligned - 1 \in Nat
      /\ start <= start + aligned - 1
  BY <1>1, <1>3, <1>4
<1>8. Cardinality(WordsTransferred(a)) = aligned
  <2>1. start \in Int /\ start + aligned - 1 \in Int /\ ~ (start > start + aligned - 1)
    BY <1>7
  <2>2. Cardinality(start .. start + aligned - 1) = (start + aligned - 1) - start + 1
    BY <2>1, FS_Interval
  <2> QED BY <1>6, <1>7, <2>2
<1>9. Cardinality(PagesOf(a)) = Pages(start, aligned)
  <2>1. PagesOf(a) = {x \div PageSize : x \in start .. start + aligned - 1}
    BY <1>6 DEF PagesOf
  <2> DEFINE last == start + aligned - 1
  <2>2. last \in Nat /\ start \in Nat /\ start <= last
    BY <1>7
  <2>3. PagesOf(a) = {x \div PageSize : x \in start .. last}
    BY <2>1
  <2>4. Pages(start, aligned) = (last \div PageSize) - (start \div PageSize) + 1
    BY DEF Pages
  <2> HIDE DEF last
  <2>5. Cardinality({x \div PageSize : x \in start .. last}) =
          (last \div PageSize) - (start \div PageSize) + 1
    BY <1>1, <2>2, QuotientsOfInterval
  <2> QED BY <2>3, <2>4, <2>5
<1> QED BY <1>2, <1>5, <1>8, <1>9

\* The pages of a memory hold whole bursts, and addresses are unsigned numbers.
PagesHoldBursts == \E k \in Nat \ {0} : PageSize = k * BurstSize
AddressesUnsigned == MaxAddr < UnsignedSpan

\* An access opens at most as many pages as it transfers bursts.
LEMMA PagesWithinBursts ==
  ASSUME PagesHoldBursts, NEW lo \in Nat, NEW hi \in Nat, lo <= hi
  PROVE  ((BurstSize * hi + BurstSize - 1) \div PageSize) - ((BurstSize * lo) \div PageSize)
           <= hi - lo
<1> DEFINE first == (BurstSize * lo) \div PageSize
           last == (BurstSize * hi + BurstSize - 1) \div PageSize
<1>1. BurstSize \in Nat \ {0} /\ PageSize \in Nat \ {0}
  BY Positive
<1>2. PICK k \in Nat \ {0} : PageSize = k * BurstSize
  BY DEF PagesHoldBursts
<1>3. /\ BurstSize * lo \in Nat /\ BurstSize * hi \in Nat
      /\ BurstSize * hi + BurstSize - 1 \in Nat
  BY <1>1
<1>4. /\ first \in Nat /\ BurstSize * lo < PageSize * first + PageSize
      /\ last \in Nat /\ PageSize * last <= BurstSize * hi + BurstSize - 1
  BY <1>1, <1>3, Quotient
<1> HIDE DEF first, last
<1>5. /\ k * first \in Nat /\ k * last \in Nat
      /\ PageSize * first = BurstSize * (k * first)
      /\ PageSize * last = BurstSize * (k * last)
      /\ PageSize = BurstSize * k
  BY <1>1, <1>2, <1>4
<1>6. k * last <= hi
  <2>1. SUFFICES ASSUME hi + 1 <= k * last PROVE FALSE
    BY <1>5
  <2>2. BurstSize * (hi + 1) <= BurstSize * (k * last)
    BY <1>1, <1>5, <2>1, ProductMonotone
  <2>3. BurstSize * (hi + 1) = BurstSize * hi + BurstSize
    BY <1>1
  <2> QED BY <1>1, <1>3, <1>4, <1>5, <2>2, <2>3
<1>7. lo + 1 <= k * first + k
  <2>1. SUFFICES ASSUME k * first + k <= lo PROVE FALSE
    BY <1>5
  <2>2. k * first + k \in Nat
    BY <1>5
  <2>3. BurstSize * (k * first + k) <= BurstSize * lo
    BY <1>1, <2>1, <2>2, ProductMonotone
  <2>4. BurstSize * (k * first + k) = BurstSize * (k * first) + BurstSize * k
    BY <1>1, <1>5
  <2> QED BY <1>1, <1>3, <1>4, <1>5, <2>3, <2>4
<1>8. SUFFICES ASSUME hi - lo + 1 <= last - first PROVE FALSE
  BY <1>4 DEF first, last
<1>9. hi - lo + 1 \in Nat /\ last - first \in Nat /\ hi - lo \in Nat
  BY <1>4, <1>8
<1>10. k * (hi - lo + 1) <= k * (last - first)
  BY <1>8, <1>9, ProductMonotone
<1>11. k * (last - first) = k * last - k * first
  BY <1>4, <1>9
<1>12. k * (hi - lo + 1) = k * (hi - lo) + k /\ k * (hi - lo) \in Nat
  BY <1>9
<1>13. hi - lo <= k * (hi - lo)
  <2>1. (hi - lo) * 1 <= (hi - lo) * k
    BY <1>9, ProductMonotone
  <2> QED BY <1>9, <2>1
<1> QED BY <1>5, <1>6, <1>7, <1>9, <1>10, <1>11, <1>12, <1>13

\* A new request takes the time, or the rounds, the README says.
LEMMA RequestTimeKept ==
  ASSUME NEW a \in Accesses, a.addr + a.size - 1 <= MaxAddr,
         Kind = "variable" => PagesHoldBursts /\ AddressesUnsigned
  PROVE  /\ NewRequest(a).ticks \in Nat \ {0}
         /\ Kind # "tdm" => NewRequest(a).ticks = RequestTime(a)
         /\ Kind = "tdm" => NewRequest(a).ticks = Cardinality(BurstsOf(a))
<1> DEFINE start == AlignedAddress(a.addr)
           aligned == AlignedSize(a.addr, a.size)
           bursts == Cardinality(BurstsOf(a))
           words == Cardinality(WordsTransferred(a))
           pages == Cardinality(PagesOf(a))
<1>1. /\ bursts = Bursts(aligned) /\ words = aligned /\ pages = Pages(start, aligned)
  BY TransferCounted
<1>2. bursts \in Nat /\ words \in Nat /\ pages \in Nat
  BY WordsFinite, FS_CardinalityType
<1>3. TicksPerBurst \in Nat /\ ReadDelay \in Nat /\ BurstSize \in Nat \ {0}
      /\ UnsignedSpan \in Nat \ {0}
  BY Positive, TakesTime
<1>4. NewRequest(a).ticks \in Nat \ {0} /\ NewRequest(a).ticks = TransferTicks(a, FALSE)
  BY NewRequestType DEF NewRequest, Request
<1>5. CASE Kind = "fixed"
  <2>1. TransferTicks(a, FALSE) = TicksPerBurst * Bursts(aligned) + ReadDelay
    BY <1>5 DEF TransferTicks, FixedTicks, Delay
  <2>2. RequestTime(a) = ReadDelay + bursts * TicksPerBurst
    BY <1>5, Zenon DEF RequestTime, bursts
  <2> HIDE DEF bursts, aligned
  <2>3. TicksPerBurst * bursts + ReadDelay = ReadDelay + bursts * TicksPerBurst
    BY <1>2, <1>3
  <2> QED BY <1>1, <1>4, <1>5, <2>1, <2>2, <2>3
<1>6. CASE Kind = "variable"
  <2>1. TransferTicks(a, FALSE) =
          Pages(start, aligned) * TicksPerBurst
            + ((aligned - Pages(start, aligned) * BurstSize) % UnsignedSpan) + ReadDelay
    <3>1. Kind # "fixed"
      BY <1>6
    <3>2. TransferTicks(a, FALSE) = VariableTicks(a.addr, a.size, a.load, FALSE)
      BY <1>6, <3>1, Zenon DEF TransferTicks
    <3> QED BY <3>2 DEF VariableTicks, Delay
  <2>2. RequestTime(a) = ReadDelay + pages * TicksPerBurst + words - pages * BurstSize
    <3>1. Kind # "fixed"
      BY <1>6
    <3> QED BY <1>6, <3>1, Zenon DEF RequestTime, pages, words
  <2> DEFINE lo == a.addr \div BurstSize
             hi == (a.addr + a.size - 1) \div BurstSize
  <2>3. a.addr \in Nat /\ a.addr + a.size - 1 \in Nat /\ a.addr <= a.addr + a.size - 1
    BY MemoryProgram DEF Accesses, Addr
  <2>4. /\ lo \in Nat /\ hi \in Nat /\ lo <= hi
        /\ BurstSize * hi <= a.addr + a.size - 1
    BY <1>3, <2>3, Quotient, QuotientMonotone
  <2>5. start = lo * BurstSize /\ aligned = (hi + 1) * BurstSize - lo * BurstSize
    BY DEF AlignedAddress, AlignedSize
  <2> HIDE DEF lo, hi, start, aligned, pages, words
  <2>6. /\ start = BurstSize * lo /\ BurstSize * lo \in Nat /\ BurstSize * hi \in Nat
        /\ aligned = BurstSize * hi + BurstSize - BurstSize * lo
        /\ start + aligned - 1 = BurstSize * hi + BurstSize - 1
    BY <1>3, <2>4, <2>5
  <2>7. pages - 1 <= hi - lo
    <3>1. pages = ((BurstSize * hi + BurstSize - 1) \div PageSize)
                    - ((BurstSize * lo) \div PageSize) + 1
      BY <1>1, <2>6 DEF Pages
    <3>2. ((BurstSize * hi + BurstSize - 1) \div PageSize) - ((BurstSize * lo) \div PageSize)
            <= hi - lo
      BY <1>6, <2>4, PagesWithinBursts
    <3>3. ((BurstSize * hi + BurstSize - 1) \div PageSize) \in Int
          /\ ((BurstSize * lo) \div PageSize) \in Int
      BY <1>3, <2>6, Positive
    <3> QED BY <2>4, <3>1, <3>2, <3>3
  <2>8. pages >= 1
    <3>1. start \in Nat /\ aligned \in Nat \ {0}
      BY <2>3, AlignedSizeType DEF start, aligned, Accesses
    <3> QED BY <1>1, <3>1, PagesType
  <2>9. /\ BurstSize * 1 <= BurstSize * pages
        /\ BurstSize * pages <= BurstSize * (hi - lo + 1)
    BY <1>2, <1>3, <2>4, <2>7, <2>8, ProductMonotone
  <2>10. /\ BurstSize * (hi - lo + 1) = BurstSize * hi - BurstSize * lo + BurstSize
         /\ BurstSize * pages \in Nat /\ pages * BurstSize = BurstSize * pages
         /\ pages * TicksPerBurst \in Nat
    BY <1>2, <1>3, <2>4
  <2>11. /\ aligned - pages * BurstSize \in Nat
         /\ aligned - pages * BurstSize < UnsignedSpan
    <3>1. MaxAddr < UnsignedSpan /\ MaxAddr \in Nat
      BY <1>6, MemoryProgram DEF AddressesUnsigned
    <3> QED BY <1>3, <2>3, <2>4, <2>6, <2>9, <2>10, <3>1
  <2>12. (aligned - pages * BurstSize) % UnsignedSpan = aligned - pages * BurstSize
    <3>1. \A n \in Nat, m \in Nat \ {0} : n < m => n % m = n
      OBVIOUS
    <3> QED BY <1>3, <2>11, <3>1
  <2>13. TransferTicks(a, FALSE) = pages * TicksPerBurst + (aligned - pages * BurstSize)
                                     + ReadDelay
    BY <1>1, <2>1, <2>12
  <2>14. words = aligned
    BY <1>1 DEF words, aligned
  <2>15. TransferTicks(a, FALSE) = RequestTime(a)
    <3> DEFINE x == pages * TicksPerBurst
               y == pages * BurstSize
    <3>1. x \in Nat /\ y \in Nat /\ words \in Nat
      BY <1>2, <2>10
    <3>2. TransferTicks(a, FALSE) = x + (words - y) + ReadDelay
      BY <2>13, <2>14
    <3>3. RequestTime(a) = ReadDelay + x + words - y
      BY <2>2
    <3> HIDE DEF x, y
    <3>4. x + (words - y) + ReadDelay = ReadDelay + x + words - y
      BY <1>3, <3>1
    <3> QED BY <3>2, <3>3, <3>4, Zenon
  <2> QED BY <1>4, <1>6, <2>15
<1>7. CASE Kind = "tdm"
  <2>1. TransferTicks(a, FALSE) = TDMTicks(a.addr, a.size)
    <3>1. Kind # "fixed" /\ Kind # "variable"
      BY <1>7
    <3> QED BY <1>7, <3>1, Zenon DEF TransferTicks
  <2> QED BY <1>1, <1>4, <1>7, <2>1 DEF TDMTicks
<1> QED BY <1>4, <1>5, <1>6, <1>7, MemoryProgram

Waiting(p) == IF p = "IF" THEN FetchWaits ELSE AccessWaits
AccessOf(p) == IF p = "IF" THEN FetchAccess ELSE access

\* Ticks, or rounds, until the i-th request is finished.
TicksUpTo(i) == IF i = 1 THEN requests[1].ticks ELSE requests[1].ticks + requests[2].ticks

\* WaitForSlot in cycle rc of the round.
WaitAt(rc) == ((RoundStart - rc - 1) % RoundLength) + 1

\* Cycles until n ticks or rounds of the queue are over.
LeftAt(n, rc, tr) ==
  IF Kind # "tdm" \/ n = 0 THEN n
  ELSE RoundsTime(n - (IF tr THEN 1 ELSE 0), WaitAt(rc))

\* The clock of a port that waits shows when its request will be finished, and a
\* port whose request is in the queue has a clock.
DueInv ==
  /\ \A p \in Port : due[p] # NotWaiting =>
       /\ Waiting(p)
       /\ \E i \in 1 .. Len(requests) :
            /\ Matches(requests[i], AccessOf(p))
            /\ due[p] = LeftAt(TicksUpTo(i), roundCounter, transferring)
  /\ \A p \in Port, i \in 1 .. Len(requests) :
       Waiting(p) /\ Matches(requests[i], AccessOf(p)) => due[p] # NotWaiting

TimeIInv == SlotIInv /\ DueInv

\* The wait for the slot by the place in the round.
LEMMA WaitInRound ==
  ASSUME Kind = "tdm", NEW rc \in Nat, rc < RoundLength
  PROVE  WaitAt(rc) = IF rc < RoundStart THEN RoundStart - rc
                      ELSE RoundStart - rc + RoundLength
<1>1. /\ RoundLength \in Nat \ {0}
      /\ RoundStart \in Nat /\ RoundStart < RoundLength
  BY SlotInRound
<1>2. ASSUME NEW s \in Nat, NEW l \in Nat \ {0}, NEW r \in Nat, s < l, r < l
      PROVE  (s - r - 1) % l = IF r < s THEN s - r - 1 ELSE s - r - 1 + l
  <2>1. CASE r < s
    <3>1. s - r - 1 \in Nat /\ s - r - 1 < l
      BY <1>2, <2>1
    <3>2. \A n \in Nat, m \in Nat \ {0} : n < m => n % m = n
      OBVIOUS
    <3> QED BY <1>2, <2>1, <3>1, <3>2
  <2>2. CASE ~ (r < s)
    <3>1. s - r - 1 \in Int /\ s - r - 1 < 0 /\ s - r - 1 >= 0 - l
      BY <1>2, <2>2
    <3>2. \A n \in Int, m \in Nat \ {0} : n < 0 /\ n >= 0 - m => n % m = n + m
      OBVIOUS
    <3> QED BY <1>2, <2>2, <3>1, <3>2
  <2> QED BY <2>1, <2>2
<1>3. (RoundStart - rc - 1) % RoundLength =
        IF rc < RoundStart THEN RoundStart - rc - 1 ELSE RoundStart - rc - 1 + RoundLength
  BY <1>1, <1>2
<1> QED BY <1>1, <1>3 DEF WaitAt

\* The cycle after one of the round.
LEMMA NextInRound ==
  ASSUME Kind = "tdm", NEW rc \in Nat, rc < RoundLength
  PROVE  (rc + 1) % RoundLength = IF rc + 1 = RoundLength THEN 0 ELSE rc + 1
<1>1. RoundLength \in Nat \ {0}
  BY SlotInRound
<1>2. \A n, m \in Nat : n < m => (n + 1) % m = IF n + 1 = m THEN 0 ELSE n + 1
  OBVIOUS
<1> QED BY <1>1, <1>2

\* A transfer is under way in these cycles of the round.
InTransfer(rc) ==
  \E k \in 0 .. TicksPerBurst + ReadDelay - 1 :
    rc = RoundStart + k \/ rc = RoundStart + k - RoundLength

\* The rounds a request of n bursts takes after its first one.
LaterRounds(n) == (n - 1) * RoundLength

\* The time of n bursts, before and after the transfer of the first begins.
LEMMA RoundsOf ==
  ASSUME Kind = "tdm", NEW n \in Nat \ {0}, NEW rc \in Nat, rc < RoundLength
  PROVE  /\ LaterRounds(n) \in Nat
         /\ n = 1 => LaterRounds(n) = 0
         /\ n # 1 => LaterRounds(n) >= RoundLength
         /\ LeftAt(n, rc, FALSE) = WaitAt(rc) + LaterRounds(n) + (ReadDelay + TicksPerBurst)
         /\ LeftAt(n, rc, TRUE) =
              WaitAt(rc) + LaterRounds(n) - RoundLength + (ReadDelay + TicksPerBurst)
         /\ n # 1 => LeftAt(n - 1, rc, FALSE) =
              WaitAt(rc) + LaterRounds(n) - RoundLength + (ReadDelay + TicksPerBurst)
<1>1. /\ RoundLength \in Nat \ {0} /\ TicksPerBurst \in Nat /\ ReadDelay \in Nat
  BY SlotInRound
<1>2. WaitAt(rc) \in Int
  BY SlotInRound, WaitInRound
<1>3. LaterRounds(n) = RoundLength * (n - 1)
  BY <1>1 DEF LaterRounds
<1>4. LaterRounds(n) \in Nat /\ (n = 1 => LaterRounds(n) = 0)
  BY <1>1, <1>3
<1>5. n # 1 => LaterRounds(n) >= RoundLength
  <2> SUFFICES ASSUME n # 1 PROVE LaterRounds(n) >= RoundLength
    OBVIOUS
  <2>1. n - 1 \in Nat \ {0}
    OBVIOUS
  <2> QED BY <1>1, <1>3, <2>1, ProductAtLeast
<1>6. LaterRounds(n - 1) = LaterRounds(n) - RoundLength
  <2>1. \A x \in Int, y \in Nat : (x - 1) * y = x * y - y
    OBVIOUS
  <2>2. n - 1 \in Int
    OBVIOUS
  <2> QED BY <1>1, <2>1, <2>2 DEF LaterRounds
<1>7. \A m \in Nat, wait \in Int : LaterRounds(m) \in Int =>
        RoundsTime(m, wait) = wait + LaterRounds(m) + (ReadDelay + TicksPerBurst)
  <2> SUFFICES ASSUME NEW m \in Nat, NEW wait \in Int, LaterRounds(m) \in Int
               PROVE  RoundsTime(m, wait) = wait + LaterRounds(m) + (ReadDelay + TicksPerBurst)
    OBVIOUS
  <2>1. RoundsTime(m, wait) = wait + LaterRounds(m) + ReadDelay + TicksPerBurst
    BY Zenon DEF RoundsTime, LaterRounds
  <2> QED BY <1>1, <2>1
<1>8. /\ n - 0 = n /\ n - 1 \in Nat /\ n - 1 - 0 = n - 1 /\ n # 0
      /\ n # 1 => n - 1 # 0
      /\ LaterRounds(n) \in Int /\ LaterRounds(n - 1) \in Int
  BY <1>1, <1>4, <1>6
<1>9. /\ LeftAt(n, rc, FALSE) = RoundsTime(n, WaitAt(rc))
      /\ LeftAt(n, rc, TRUE) = RoundsTime(n - 1, WaitAt(rc))
      /\ n # 1 => LeftAt(n - 1, rc, FALSE) = RoundsTime(n - 1, WaitAt(rc))
  BY <1>8 DEF LeftAt
<1>10. /\ RoundsTime(n, WaitAt(rc)) =
            WaitAt(rc) + LaterRounds(n) + (ReadDelay + TicksPerBurst)
       /\ RoundsTime(n - 1, WaitAt(rc)) =
            WaitAt(rc) + LaterRounds(n - 1) + (ReadDelay + TicksPerBurst)
  BY <1>2, <1>7, <1>8
<1>11. WaitAt(rc) + LaterRounds(n - 1) = WaitAt(rc) + LaterRounds(n) - RoundLength
  BY <1>1, <1>2, <1>4, <1>6
<1> QED BY <1>4, <1>5, <1>9, <1>10, <1>11, Zenon

\* What is left of a request that is not finished is some time.
LEMMA SomethingLeft ==
  ASSUME NEW n \in Nat \ {0}, NEW rc \in Nat, NEW tr \in BOOLEAN,
         Kind = "tdm" => rc < RoundLength,
         tr /\ Kind = "tdm" => InTransfer(rc)
  PROVE  LeftAt(n, rc, tr) \in Nat \ {0}
<1>1. CASE Kind # "tdm"
  BY <1>1 DEF LeftAt
<1>2. CASE Kind = "tdm"
  <2>1. /\ RoundLength \in Nat \ {0} /\ RoundStart \in Nat /\ RoundStart < RoundLength
        /\ TicksPerBurst \in Nat /\ ReadDelay \in Nat
        /\ TicksPerBurst + ReadDelay > 0 /\ TicksPerBurst + ReadDelay < RoundLength
    BY <1>2, SlotInRound
  <2>2. WaitAt(rc) = IF rc < RoundStart THEN RoundStart - rc
                     ELSE RoundStart - rc + RoundLength
    BY <1>2, WaitInRound
  <2>3. WaitAt(rc) \in Nat \ {0}
    BY <1>2, <2>1, <2>2
  <2>4. /\ LaterRounds(n) \in Nat
        /\ LeftAt(n, rc, FALSE) = WaitAt(rc) + LaterRounds(n) + (ReadDelay + TicksPerBurst)
        /\ LeftAt(n, rc, TRUE) =
             WaitAt(rc) + LaterRounds(n) - RoundLength + (ReadDelay + TicksPerBurst)
    BY <1>2, RoundsOf
  <2> DEFINE before == LeftAt(n, rc, FALSE)
             during == LeftAt(n, rc, TRUE)
  <2>5. CASE tr = FALSE
    <3>1. before = WaitAt(rc) + LaterRounds(n) + (ReadDelay + TicksPerBurst)
      BY <2>4
    <3> HIDE DEF before
    <3>2. before \in Nat \ {0}
      BY <2>1, <2>3, <2>4, <3>1
    <3> QED BY <2>5, <3>2, Zenon DEF before
  <2>6. CASE tr = TRUE
    <3>1. PICK k \in 0 .. TicksPerBurst + ReadDelay - 1 :
            rc = RoundStart + k \/ rc = RoundStart + k - RoundLength
      BY <1>2, <2>6 DEF InTransfer
    <3>2. WaitAt(rc) = RoundLength - k
      BY <1>2, <2>1, <2>2, <3>1
    <3>3. WaitAt(rc) + TicksPerBurst + ReadDelay - RoundLength >= 1
      BY <2>1, <3>1, <3>2
    <3>4. during = WaitAt(rc) + LaterRounds(n) - RoundLength + (ReadDelay + TicksPerBurst)
      BY <2>4
    <3> HIDE DEF during
    <3>5. during \in Nat \ {0}
      BY <2>1, <2>3, <2>4, <3>3, <3>4
    <3> QED BY <2>6, <3>5, Zenon DEF during
  <2> QED BY <2>5, <2>6
<1> QED BY <1>1, <1>2

\* The round of l cycles with a slot at s and w cycles from its beginning to the
\* response, in numbers.
LEMMA RoundArithmetic ==
  ASSUME NEW l \in Nat, NEW s \in Nat, NEW w \in Nat \ {0}, s < l, w < l,
         NEW rc \in Nat, rc < l,
         NEW next \in Nat, next = IF rc + 1 = l THEN 0 ELSE rc + 1,
         NEW wait \in Int, wait = IF rc < s THEN s - rc ELSE s - rc + l,
         NEW waitNext \in Int, waitNext = IF next < s THEN s - next ELSE s - next + l,
         NEW end \in Int, end = IF s + w >= l THEN s + w - l ELSE s + w
  PROVE  /\ next = s => wait = 1 /\ waitNext = l /\ next # end
         /\ next # s => waitNext = wait - 1
         /\ \A k \in 0 .. w - 1 : rc = s + k \/ rc = s + k - l =>
              /\ next # s
              /\ wait = l - k
              /\ next = end => wait - l + w = 1
<1>1. next = s => wait = 1 /\ waitNext = l /\ next # end
  OBVIOUS
<1>2. next # s => waitNext = wait - 1
  OBVIOUS
<1>3. ASSUME NEW k \in 0 .. w - 1, rc = s + k \/ rc = s + k - l
      PROVE  next # s /\ wait = l - k
  BY <1>3
<1>4. ASSUME NEW k \in 0 .. w - 1, rc = s + k \/ rc = s + k - l, next = end
      PROVE  wait - l + w = 1
  BY <1>4
<1> QED BY <1>1, <1>2, <1>3, <1>4

\* One cycle of the TDM memory brings a request one cycle nearer to its end:
\* outside the slot, at its beginning, during the transfer and at its response.
LEMMA TimePasses ==
  ASSUME Kind = "tdm", NEW n \in Nat \ {0}, NEW rc \in Nat, rc < RoundLength,
         NEW counter, counter = (rc + 1) % RoundLength
  PROVE  /\ counter = RoundStart =>
              /\ counter # RoundEnd(FALSE) /\ ~ InTransfer(rc)
              /\ LeftAt(n, counter, TRUE) = LeftAt(n, rc, FALSE) - 1
         /\ counter # RoundStart =>
              /\ LeftAt(n, counter, FALSE) = LeftAt(n, rc, FALSE) - 1
              /\ LeftAt(n, counter, TRUE) = LeftAt(n, rc, TRUE) - 1
              /\ counter = RoundEnd(FALSE) /\ InTransfer(rc) =>
                   LeftAt(n - 1, counter, FALSE) = LeftAt(n, rc, TRUE) - 1
<1>1. /\ RoundLength \in Nat \ {0} /\ RoundStart \in Nat /\ RoundStart < RoundLength
      /\ TicksPerBurst \in Nat /\ ReadDelay \in Nat
      /\ TicksPerBurst + ReadDelay > 0 /\ TicksPerBurst + ReadDelay < RoundLength
  BY SlotInRound
<1> DEFINE l == RoundLength
           s == RoundStart
           w == TicksPerBurst + ReadDelay
<1>2. counter = IF rc + 1 = l THEN 0 ELSE rc + 1
  BY NextInRound
<1>3. counter \in Nat /\ counter < RoundLength
  BY <1>1, <1>2
<1> DEFINE wait == WaitAt(rc)
           waitNext == WaitAt(counter)
<1>4. /\ wait = IF rc < s THEN s - rc ELSE s - rc + l
      /\ waitNext = IF counter < s THEN s - counter ELSE s - counter + l
  BY <1>3, WaitInRound
<1>5. RoundEnd(FALSE) = IF s + w >= l THEN s + w - l ELSE s + w
  BY <1>1 DEF RoundEnd
<1>6. /\ LaterRounds(n) \in Nat
      /\ n = 1 => LaterRounds(n) = 0
      /\ LeftAt(n, rc, FALSE) = WaitAt(rc) + LaterRounds(n) + (ReadDelay + TicksPerBurst)
      /\ LeftAt(n, rc, TRUE) =
           WaitAt(rc) + LaterRounds(n) - RoundLength + (ReadDelay + TicksPerBurst)
      /\ LeftAt(n, counter, FALSE) =
           WaitAt(counter) + LaterRounds(n) + (ReadDelay + TicksPerBurst)
      /\ LeftAt(n, counter, TRUE) =
           WaitAt(counter) + LaterRounds(n) - RoundLength + (ReadDelay + TicksPerBurst)
      /\ n # 1 => LeftAt(n - 1, counter, FALSE) =
           WaitAt(counter) + LaterRounds(n) - RoundLength + (ReadDelay + TicksPerBurst)
  BY <1>3, RoundsOf
<1>7. n = 1 => LeftAt(n - 1, counter, FALSE) = 0
  BY DEF LeftAt
<1>8. l \in Nat /\ s \in Nat /\ s < l /\ w \in Nat \ {0} /\ w < l
      /\ ReadDelay + TicksPerBurst = w
  BY <1>1
<1> DEFINE before == LeftAt(n, rc, FALSE)
           during == LeftAt(n, rc, TRUE)
           beforeNext == LeftAt(n, counter, FALSE)
           duringNext == LeftAt(n, counter, TRUE)
           after == LeftAt(n - 1, counter, FALSE)
           later == LaterRounds(n)
           end == RoundEnd(FALSE)
<1>9. /\ later \in Nat /\ (n = 1 => later = 0)
      /\ before = wait + later + w /\ during = wait + later - l + w
      /\ beforeNext = waitNext + later + w /\ duringNext = waitNext + later - l + w
      /\ n # 1 => after = waitNext + later - l + w
      /\ n = 1 => after = 0
      /\ end = IF s + w >= l THEN s + w - l ELSE s + w
  BY <1>5, <1>6, <1>7, <1>8, Zenon
<1>10. InTransfer(rc) <=> \E k \in 0 .. w - 1 : rc = s + k \/ rc = s + k - l
  <2>1. TicksPerBurst + ReadDelay - 1 = w - 1
    BY <1>1
  <2> QED BY <2>1, Zenon DEF InTransfer
<1>11. counter < l /\ rc < l
  BY <1>3
<1> HIDE DEF l, s, w, before, during, beforeNext, duringNext, after, later, wait, waitNext, end
<1>12. wait \in Int /\ waitNext \in Int /\ end \in Int
  <2>1. rc \in Int /\ counter \in Int
    BY <1>3
  <2>2. wait \in Int
    BY <1>4, <1>8, <2>1
  <2>3. waitNext \in Int
    BY <1>4, <1>8, <2>1
  <2>4. end \in Int
    BY <1>8, <1>9
  <2> QED BY <2>2, <2>3, <2>4
<1>13. /\ counter = s => wait = 1 /\ waitNext = l /\ counter # end
       /\ counter # s => waitNext = wait - 1
       /\ \A k \in 0 .. w - 1 : rc = s + k \/ rc = s + k - l =>
            /\ counter # s
            /\ wait = l - k
            /\ counter = end => wait - l + w = 1
  BY <1>2, <1>3, <1>4, <1>8, <1>9, <1>11, <1>12, RoundArithmetic
<1>14. counter = s => ~ InTransfer(rc) /\ duringNext = before - 1 /\ counter # end
  <2>1. counter = s => ~ InTransfer(rc)
    BY <1>10, <1>13
  <2>2. counter = s => duringNext = before - 1
    BY <1>8, <1>9, <1>12, <1>13
  <2> QED BY <1>13, <2>1, <2>2
<1>15. counter # s => beforeNext = before - 1 /\ duringNext = during - 1
  BY <1>8, <1>9, <1>12, <1>13
<1>16. counter # s /\ counter = end /\ InTransfer(rc) => after = during - 1
  <2> SUFFICES ASSUME counter # s, counter = end, InTransfer(rc) PROVE after = during - 1
    OBVIOUS
  <2>1. wait - l + w = 1
    BY <1>10, <1>13
  <2>2. CASE n = 1
    BY <1>8, <1>9, <1>12, <2>1, <2>2
  <2>3. CASE n # 1
    BY <1>8, <1>9, <1>12, <1>13, <2>3
  <2> QED BY <2>2, <2>3
<1> QED
  BY <1>14, <1>15, <1>16, Zenon DEF s, before, during, beforeNext, duringNext, after, end

\* Each port has one request in the queue at most.
LEMMA QueueOfTwo ==
  ASSUME TypeOK, QueueInv, AllWanted
  PROVE  /\ requests \in Seq(Request) /\ Len(requests) \in 0 .. 2
         /\ \A i \in 1 .. Len(requests) :
              i \in {1, 2} /\ requests[i] \in Request /\ TicksUpTo(i) \in Nat
<1>1. requests \in Seq(Request) /\ Len(requests) \in Nat
  BY LenProperties DEF TypeOK, Request
<1>2. \A i, j \in 1 .. Len(requests), a \in {FetchAccess, access} :
        Matches(requests[i], a) /\ Matches(requests[j], a) => i = j
  BY DEF QueueInv, KeysDiffer, Matches
<1>3. Len(requests) < 3
  <2> SUFFICES ASSUME Len(requests) >= 3 PROVE FALSE
    BY <1>1
  <2>1. 1 \in 1 .. Len(requests) /\ 2 \in 1 .. Len(requests) /\ 3 \in 1 .. Len(requests)
    BY <1>1
  <2>2. \A i \in {1, 2, 3} : Matches(requests[i], FetchAccess) \/ Matches(requests[i], access)
    BY <2>1 DEF AllWanted, Wanted
  <2> QED BY <1>2, <2>1, <2>2
<1>4. \A i \in 1 .. Len(requests) : i \in {1, 2} /\ requests[i] \in Request
  BY <1>1, <1>3, ElementOfSeq
<1>5. ASSUME NEW i \in 1 .. Len(requests) PROVE TicksUpTo(i) \in Nat
  <2>1. 1 \in 1 .. Len(requests)
    BY <1>1
  <2>2. requests[1].ticks \in Nat /\ requests[i].ticks \in Nat
    BY <1>4, <2>1 DEF Request
  <2>3. i = 1 \/ i = 2
    BY <1>4
  <2> QED BY <2>2, <2>3 DEF TicksUpTo
<1>6. Len(requests) \in 0 .. 2
  <2>1. \A n \in Nat : n < 3 => n \in 0 .. 2
    OBVIOUS
  <2> QED BY <1>1, <1>3, <2>1
<1> QED BY <1>1, <1>4, <1>5, <1>6

\* The words of an instruction are not those an access begins with.
LEMMA ApartAddress ==
  ASSUME CodeApart, NEW counter \in Counters, NEW n \in 0 .. Slots - 1, NEW a \in DataAccesses
  PROVE  counter + n # a.addr
<1>1. counter \in Nat /\ Slots \in Nat /\ a.addr \in Nat /\ a.size \in Nat \ {0}
  BY MemoryProgram DEF Accesses, Addr
<1>2. a.addr \in Words(a)
  BY <1>1 DEF Words
<1>3. counter + n \in counter .. counter + Slots - 1
  BY <1>1
<1> QED BY <1>2, <1>3 DEF CodeApart

\* No request serves both ports of a program whose data is apart from its code.
LEMMA RequestOfOne ==
  ASSUME TypeOK, CodeApart, FetchWaits, AccessWaits, NEW r, Matches(r, FetchAccess)
  PROVE  ~ Matches(r, access)
<1>1. pc \in Counters /\ fetched \in 0 .. Slots - 1 /\ access \in DataAccesses
  BY DEF TypeOK, FetchWaits, AccessWaits
<1>2. pc + fetched # access.addr
  BY <1>1, ApartAddress
<1> QED BY <1>2 DEF Matches, FetchAccess

LEMMA OneOfPorts ==
  ASSUME TypeOK, CodeApart, NEW p \in Port, NEW q \in Port, p # q,
         Waiting(p), Waiting(q), NEW r, Matches(r, AccessOf(p))
  PROVE  ~ Matches(r, AccessOf(q))
<1>1. FetchWaits /\ AccessWaits
  BY DEF Waiting, Port
<1>2. CASE p = "IF"
  BY <1>1, <1>2, RequestOfOne DEF AccessOf, Port
<1>3. CASE p # "IF"
  BY <1>1, <1>3, RequestOfOne DEF AccessOf, Port
<1> QED BY <1>2, <1>3

LEMMA WaitingAccess ==
  ASSUME TypeOK, NEW p \in Port, Waiting(p)
  PROVE  /\ AccessOf(p) \in Accesses
         /\ AccessOf(p).addr + AccessOf(p).size - 1 <= MaxAddr
<1>1. CASE p = "IF"
  <2>1. FetchWaits /\ AccessOf(p) = FetchAccess
    BY <1>1 DEF Waiting, AccessOf
  <2>2. FetchAccess \in Accesses
    BY <2>1, AccessTypes DEF FetchWaits
  <2>3. pc \in Counters /\ fetched \in 0 .. Slots - 1
    BY <2>1 DEF TypeOK, FetchWaits
  <2>4. pc \in Nat /\ Slots \in Nat /\ pc + Slots - 1 <= MaxAddr /\ MaxAddr \in Nat
    BY <2>3, MemoryProgram
  <2>5. pc + fetched + 1 - 1 <= MaxAddr
    BY <2>3, <2>4
  <2> QED BY <2>1, <2>2, <2>5 DEF FetchAccess
<1>2. CASE p # "IF"
  <2>1. access # NoAccess /\ AccessOf(p) = access
    BY <1>2 DEF Waiting, AccessOf, AccessWaits
  <2>2. access \in Accesses
    BY <2>1, AccessTypes
  <2>3. access \in DataAccesses
    BY <2>1 DEF TypeOK
  <2> QED BY <2>1, <2>2, <2>3, MemoryProgram
<1> QED BY <1>1, <1>2

\* The port whose request is finished has a clock that shows zero; the others keep
\* theirs, for the requests after the first are moved up.
LEMMA AnswerIsDue ==
  ASSUME TypeOK, QueueInv, AllWanted, Unposted, DueInv, CodeApart, Posted = 0,
         NEW p \in Port, Waiting(p), Ready(p, AccessOf(p))
  PROVE  /\ due[p] # NotWaiting => due[p] = 0
         /\ due' = [due EXCEPT ![p] = NotWaiting]
         /\ \A q \in Port \ {p} : due[q] # NotWaiting =>
              \E i \in 1 .. Len(requests') :
                /\ Matches(requests'[i], AccessOf(q))
                /\ due[q] = LeftAt(TicksUpTo(i)', roundCounter, transferring)
         /\ \A q \in Port \ {p}, i \in 1 .. Len(requests') :
              Waiting(q) /\ Matches(requests'[i], AccessOf(q)) => due[q] # NotWaiting
<1> DEFINE a == AccessOf(p)
<1>1. a \in Accesses
  BY WaitingAccess
<1>2. requests \in Seq(Request) /\ Len(requests) \in 0 .. 2
  BY QueueOfTwo
<1>3. /\ Finished(a) /\ requests # <<>> /\ Matches(requests[1], a)
      /\ requests' = Tail(requests)
  BY <1>1, <1>2, ReadyQueue
<1>4. requests[1].ticks = 0
  BY <1>1, AnswerKeepsSlots
<1>5. due' = [due EXCEPT ![p] = NotWaiting]
  BY DEF Ready, ReadReady, WriteReady, WritePosted, Answered
<1>6. 1 \in 1 .. Len(requests)
  BY <1>2, <1>3, EmptySeq
<1> HIDE DEF a
<1>7. ASSUME due[p] # NotWaiting PROVE due[p] = 0
  <2>1. PICK i \in 1 .. Len(requests) :
          /\ Matches(requests[i], AccessOf(p))
          /\ due[p] = LeftAt(TicksUpTo(i), roundCounter, transferring)
    BY <1>7 DEF DueInv
  <2>2. i = 1
    BY <1>3, <1>6, <2>1 DEF a, QueueInv, KeysDiffer, Matches
  <2> QED BY <1>4, <2>1, <2>2 DEF TicksUpTo, LeftAt
<1>8. /\ Len(requests') = Len(requests) - 1
      /\ \A i \in 1 .. Len(requests') : requests'[i] = requests[i + 1]
  BY <1>2, <1>3, HeadTailProperties
<1>9. \A i \in 1 .. Len(requests') :
        i = 1 /\ i + 1 \in 1 .. Len(requests) /\ requests'[i] = requests[2]
  <2>1. \A i \in 1 .. Len(requests') : i = 1 /\ i + 1 = 2 /\ i + 1 \in 1 .. Len(requests)
    <3>1. ASSUME NEW n \in 0 .. 2, NEW i \in 1 .. n - 1
          PROVE  i = 1 /\ i + 1 = 2 /\ i + 1 \in 1 .. n
      OBVIOUS
    <3> QED BY <1>2, <1>8, <3>1, Zenon
  <2> QED BY <1>8, <2>1, Zenon
<1>10. ASSUME NEW q \in Port \ {p}, due[q] # NotWaiting
       PROVE  \E i \in 1 .. Len(requests') :
                /\ Matches(requests'[i], AccessOf(q))
                /\ due[q] = LeftAt(TicksUpTo(i)', roundCounter, transferring)
  <2>1. Waiting(q)
    BY <1>10 DEF DueInv
  <2>2. PICK i \in 1 .. Len(requests) :
          /\ Matches(requests[i], AccessOf(q))
          /\ due[q] = LeftAt(TicksUpTo(i), roundCounter, transferring)
    BY <1>10 DEF DueInv
  <2>3. i # 1
    BY <1>3, <2>1, <2>2, OneOfPorts DEF a
  <2>4. i = 2 /\ 1 \in 1 .. Len(requests')
    BY <1>2, <1>8, <2>3
  <2>5. requests'[1] = requests[2] /\ requests[2] \in Request
    BY <1>2, <1>9, <2>4, ElementOfSeq
  <2>6. TicksUpTo(1)' = TicksUpTo(2)
    BY <1>4, <2>5 DEF TicksUpTo, Request
  <2> QED BY <2>2, <2>4, <2>5, <2>6
<1>11. ASSUME NEW q \in Port \ {p}, NEW i \in 1 .. Len(requests'),
              Waiting(q), Matches(requests'[i], AccessOf(q))
       PROVE  due[q] # NotWaiting
  BY <1>9, <1>11 DEF DueInv
<1> QED BY <1>5, <1>7, <1>10, <1>11

\* Where the times of the README hold: pages hold whole bursts, addresses are unsigned
\* numbers, no write is posted, and the program's data is apart from its code.
ReadmeApplies ==
  /\ Posted = 0 /\ CodeApart
  /\ Kind = "variable" => PagesHoldBursts /\ AddressesUnsigned

\* What the README promises an access that is made now is what its request takes.
LEMMA DurationLeft ==
  ASSUME TypeOK, QueueInv, NEW a \in Accesses, a.addr + a.size - 1 <= MaxAddr, ReadmeApplies
  PROVE  Duration(a) = LeftAt(Earlier + NewRequest(a).ticks, roundCounter, transferring)
<1>1. /\ NewRequest(a).ticks \in Nat \ {0}
      /\ Kind # "tdm" => NewRequest(a).ticks = RequestTime(a)
      /\ Kind = "tdm" => NewRequest(a).ticks = Cardinality(BurstsOf(a))
  BY RequestTimeKept DEF ReadmeApplies
<1>2. Earlier \in Nat
  <2>1. CASE requests = <<>>
    BY <2>1 DEF Earlier
  <2>2. CASE requests # <<>>
    <3>1. requests \in Seq(Request) /\ 1 \in 1 .. Len(requests)
      BY <2>2, EmptySeq, LenProperties DEF TypeOK, Request
    <3>2. requests[1] \in Request
      BY <3>1, ElementOfSeq
    <3> QED BY <2>2, <3>2 DEF Earlier, Request
  <2> QED BY <2>1, <2>2
<1>3. CASE Kind # "tdm"
  BY <1>1, <1>3 DEF Duration, LeftAt
<1>4. CASE Kind = "tdm"
  <2> DEFINE ticks == NewRequest(a).ticks
             done == IF transferring THEN 1 ELSE 0
  <2>1. ticks \in Nat \ {0} /\ Cardinality(BurstsOf(a)) = ticks /\ done \in Nat
    BY <1>1, <1>4
  <2>2. Duration(a) = RoundsTime(Earlier - done + ticks, WaitAt(roundCounter))
    BY <1>4, <2>1, Zenon DEF Duration, WaitForSlot, WaitAt
  <2>3. Earlier + ticks # 0
    <3> HIDE DEF ticks
    <3> QED BY <1>2, <2>1
  <2>4. LeftAt(Earlier + ticks, roundCounter, transferring) =
          RoundsTime((Earlier + ticks) - done, WaitAt(roundCounter))
    BY <1>4, <2>3, Zenon DEF LeftAt
  <2>5. (Earlier + ticks) - done = Earlier - done + ticks
    <3> HIDE DEF ticks, done
    <3> QED BY <1>2, <2>1
  <2> QED BY <2>2, <2>4, <2>5, Zenon
<1> QED BY <1>3, <1>4

\* A port that is not answered is not due; from its first call its clock shows what
\* is left of its request.
LEMMA WaitIsNotDue ==
  ASSUME TypeOK, QueueInv, AllWanted, WithinSlot, DueInv, ReadmeApplies,
         NEW p \in Port, Waiting(p), NotReady(p, AccessOf(p))
  PROVE  /\ due[p] # NotWaiting => due[p] # 0 /\ due'[p] # NotWaiting
         /\ \A q \in Port \ {p} : due'[q] = due[q]
         /\ \A q \in Port : due'[q] # NotWaiting =>
              /\ Waiting(q)
              /\ \E i \in 1 .. Len(requests') :
                   /\ Matches(requests'[i], AccessOf(q))
                   /\ due'[q] = LeftAt(TicksUpTo(i)', roundCounter, transferring)
         /\ \A q \in Port, i \in 1 .. Len(requests') :
              Waiting(q) /\ Matches(requests'[i], AccessOf(q)) => due'[q] # NotWaiting
<1> DEFINE a == AccessOf(p)
<1>1. a \in Accesses /\ a.addr + a.size - 1 <= MaxAddr
  BY WaitingAccess
<1>2. /\ requests \in Seq(Request) /\ Len(requests) \in 0 .. 2
      /\ \A i \in 1 .. Len(requests) :
           i \in {1, 2} /\ requests[i] \in Request /\ TicksUpTo(i) \in Nat
  BY QueueOfTwo
<1>3. /\ requests' = Found(a) /\ ~ Finished(a)
      /\ due' = [due EXCEPT ![p] = IF @ # NotWaiting THEN @ ELSE Duration(a)]
  BY DEF NotReady, Unanswered
<1>4. due \in [Port -> Int]
  BY DEF TypeOK
<1>5. /\ \A q \in Port \ {p} : due'[q] = due[q]
      /\ due[p] # NotWaiting => due'[p] = due[p]
      /\ due[p] = NotWaiting => due'[p] = Duration(a)
  BY <1>3, <1>4
<1> HIDE DEF a
<1>6. CASE Matching(a) # {}
  <2>1. requests' = requests
    BY <1>3, <1>6 DEF Found
  <2>2. PICK k \in 1 .. Len(requests) : Matches(requests[k], a)
    BY <1>6 DEF Matching
  <2>3. due[p] # NotWaiting
    BY <2>2 DEF DueInv, a
  <2>4. Matching(a) = {k}
    <3>1. \A j \in Matching(a) : j = k
      BY <2>2 DEF Matching, Matches, QueueInv, KeysDiffer
    <3> QED BY <2>2, <3>1 DEF Matching
  <2>5. requests[k].ticks # 0
    <3>1. First(a) = k
      BY <2>4 DEF First
    <3> QED BY <1>3, <2>1, <3>1 DEF Finished
  <2>6. due[p] = LeftAt(TicksUpTo(k), roundCounter, transferring)
    <3>1. PICK i \in 1 .. Len(requests) :
            /\ Matches(requests[i], AccessOf(p))
            /\ due[p] = LeftAt(TicksUpTo(i), roundCounter, transferring)
      BY <2>3 DEF DueInv
    <3>2. i = k
      BY <2>2, <3>1 DEF a, QueueInv, KeysDiffer, Matches
    <3> QED BY <3>1, <3>2
  <2>7. TicksUpTo(k) \in Nat \ {0}
    <3>1. requests[k].ticks \in Nat \ {0} /\ 1 \in 1 .. Len(requests)
      BY <1>2, <2>2, <2>5 DEF Request
    <3>2. requests[1].ticks \in Nat
      BY <1>2, <3>1 DEF Request
    <3>3. k = 1 \/ k = 2
      BY <1>2, <2>2
    <3> QED BY <3>1, <3>2, <3>3 DEF TicksUpTo
  <2>8. due[p] # 0
    <3>1. /\ roundCounter \in Nat /\ transferring \in BOOLEAN
          /\ Kind = "tdm" => roundCounter < RoundLength
      BY DEF TypeOK
    <3>2. transferring /\ Kind = "tdm" => InTransfer(roundCounter)
      BY DEF WithinSlot, InTransfer
    <3> QED BY <2>6, <2>7, <3>1, <3>2, SomethingLeft
  <2>9. \A i : TicksUpTo(i)' = TicksUpTo(i)
    BY <2>1 DEF TicksUpTo
  <2>10. \A q \in Port : due'[q] = due[q]
    BY <1>5, <2>3
  <2> QED BY <1>5, <2>1, <2>3, <2>8, <2>9, <2>10 DEF DueInv
<1>7. CASE Matching(a) = {}
  <2> DEFINE new == NewRequest(a)
  <2>1. new \in Request /\ Matches(new, a)
    BY <1>1, NewRequestType
  <2>2. requests' = Append(requests, new)
    BY <1>3, <1>7 DEF Found
  <2>3. \A i \in 1 .. Len(requests) : ~ Matches(requests[i], a)
    BY <1>7 DEF Matching
  <2>4. due[p] = NotWaiting
    BY <2>3 DEF DueInv, a
  <2>5. due'[p] = LeftAt(Earlier + new.ticks, roundCounter, transferring)
    BY <1>1, <1>5, <2>4, DurationLeft
  <2> HIDE DEF new
  <2>6. /\ Len(requests') = Len(requests) + 1
        /\ \A i \in 1 .. Len(requests) : requests'[i] = requests[i]
        /\ requests'[Len(requests) + 1] = new
    BY <1>2, <2>1, <2>2, AppendProperties
  <2>7. Len(requests) = 0 \/ Len(requests) = 1
    <3> SUFFICES ASSUME Len(requests) = 2 PROVE FALSE
      BY <1>2
    <3>1. 1 \in 1 .. Len(requests) /\ 2 \in 1 .. Len(requests)
      OBVIOUS
    <3>2. PICK q \in Port : \A i \in {1, 2} : Matches(requests[i], AccessOf(q))
      <4>1. CASE p = "IF"
        <5>1. \A i \in {1, 2} : Matches(requests[i], access)
          BY <2>3, <3>1, <4>1 DEF AllWanted, Wanted, a, AccessOf
        <5>2. "MW" \in Port /\ AccessOf("MW") = access
          BY DEF Port, AccessOf
        <5> QED BY <5>1, <5>2
      <4>2. CASE p # "IF"
        <5>1. \A i \in {1, 2} : Matches(requests[i], FetchAccess)
          BY <2>3, <3>1, <4>2 DEF AllWanted, Wanted, a, AccessOf
        <5>2. "IF" \in Port /\ AccessOf("IF") = FetchAccess
          BY DEF Port, AccessOf
        <5> QED BY <5>1, <5>2
      <4> QED BY <4>1, <4>2
    <3>3. 1 = 2
      BY <3>1, <3>2 DEF QueueInv, KeysDiffer, Matches
    <3> QED BY <3>3
  <2>8. ASSUME NEW k \in Nat, k = Len(requests) + 1
        PROVE  TicksUpTo(k)' = Earlier + new.ticks
    <3>1. new.ticks \in Nat
      BY <2>1 DEF Request
    <3>2. CASE Len(requests) = 0
      <4>1. requests = <<>>
        BY <1>2, <3>2, EmptySeq
      <4>2. requests'[1] = new
        BY <2>6, <3>2
      <4>3. TicksUpTo(1)' = new.ticks
        BY <4>2 DEF TicksUpTo
      <4>4. k = 1
        BY <2>8, <3>2
      <4> QED BY <3>1, <4>1, <4>3, <4>4 DEF Earlier
    <3>3. CASE Len(requests) = 1
      <4>1. requests # <<>>
        BY <1>2, <3>3, EmptySeq
      <4>2. requests'[1] = requests[1] /\ requests'[2] = new
        BY <2>6, <3>3
      <4>3. TicksUpTo(2)' = requests[1].ticks + new.ticks
        BY <4>2 DEF TicksUpTo
      <4>4. k = 2
        BY <2>8, <3>3
      <4> QED BY <4>1, <4>3, <4>4 DEF Earlier
    <3> QED BY <2>7, <3>2, <3>3
  <2>9. \A i \in 1 .. Len(requests') : i \in 1 .. Len(requests) \/ i = Len(requests) + 1
    BY <2>6, <2>7
  <2>10. \A i \in 1 .. Len(requests) :
           /\ i \in 1 .. Len(requests') /\ requests'[i] = requests[i]
           /\ TicksUpTo(i)' = TicksUpTo(i)
    <3>1. \A i \in 1 .. Len(requests) : i = 1 /\ i \in 1 .. Len(requests')
      BY <2>6, <2>7
    <3> QED BY <2>6, <3>1 DEF TicksUpTo
  <2>11. ASSUME NEW q \in Port, due'[q] # NotWaiting
         PROVE  /\ Waiting(q)
                /\ \E i \in 1 .. Len(requests') :
                     /\ Matches(requests'[i], AccessOf(q))
                     /\ due'[q] = LeftAt(TicksUpTo(i)', roundCounter, transferring)
    <3>1. CASE q = p
      <4>1. PICK k \in 1 .. Len(requests') : k = Len(requests) + 1
        BY <2>6, <2>7
      <4>2. k \in Nat
        OBVIOUS
      <4>3. TicksUpTo(k)' = Earlier + new.ticks
        BY <2>8, <4>1, <4>2
      <4>4. requests'[k] = new
        BY <2>6, <4>1
      <4> QED BY <2>1, <2>5, <3>1, <4>3, <4>4 DEF a
    <3>2. CASE q # p
      <4>1. due'[q] = due[q] /\ due[q] # NotWaiting
        BY <1>5, <2>11, <3>2
      <4>2. PICK i \in 1 .. Len(requests) :
              /\ Matches(requests[i], AccessOf(q))
              /\ due[q] = LeftAt(TicksUpTo(i), roundCounter, transferring)
        BY <4>1 DEF DueInv
      <4>3. Waiting(q)
        BY <4>1 DEF DueInv
      <4> QED BY <2>10, <4>1, <4>2, <4>3
    <3> QED BY <3>1, <3>2
  <2>12. ASSUME NEW q \in Port, NEW i \in 1 .. Len(requests'),
                Waiting(q), Matches(requests'[i], AccessOf(q))
         PROVE  due'[q] # NotWaiting
    <3>1. CASE q = p
      <4>1. Earlier + new.ticks \in Nat \ {0}
        <5>1. new.ticks \in Nat \ {0}
          BY <1>1, <2>1, NewRequestType DEF new, Request
        <5>2. Earlier \in Nat
          <6>1. CASE Len(requests) = 0
            BY <1>2, <6>1, EmptySeq DEF Earlier
          <6>2. CASE Len(requests) = 1
            <7>1. requests # <<>> /\ 1 \in 1 .. Len(requests)
              BY <1>2, <6>2, EmptySeq
            <7> QED BY <1>2, <7>1 DEF Earlier, Request
          <6> QED BY <2>7, <6>1, <6>2
        <5> QED BY <5>1, <5>2
      <4>2. /\ roundCounter \in Nat /\ transferring \in BOOLEAN
            /\ Kind = "tdm" => roundCounter < RoundLength
        BY DEF TypeOK
      <4>3. transferring /\ Kind = "tdm" => InTransfer(roundCounter)
        BY DEF WithinSlot, InTransfer
      <4>4. due'[p] \in Nat \ {0}
        BY <2>5, <4>1, <4>2, <4>3, SomethingLeft
      <4> QED BY <3>1, <4>4 DEF NotWaiting
    <3>2. CASE q # p
      <4>1. i # Len(requests) + 1
        BY <2>1, <2>6, <2>12, <3>2, OneOfPorts DEF a, ReadmeApplies
      <4>2. i \in 1 .. Len(requests) /\ requests'[i] = requests[i]
        BY <2>9, <2>10, <4>1
      <4>3. due'[q] = due[q]
        BY <1>5, <3>2
      <4> QED BY <2>12, <4>2, <4>3 DEF DueInv
    <3> QED BY <3>1, <3>2
  <2> QED BY <1>5, <2>4, <2>11, <2>12
<1> QED BY <1>6, <1>7

\* The first request of the queue makes progress, the others wait for it.
LEMMA HeadProgresses ==
  ASSUME TypeOK, QueueInv, AllWanted, Unposted, requests # <<>>,
         \A i \in 1 .. Len(requests) : requests[i].ticks # 0,
         TickQueue(requests[1].ticks - 1)
  PROVE  /\ Len(requests') = Len(requests)
         /\ \A i \in 1 .. Len(requests) :
              /\ \A a : Matches(requests'[i], a) <=> Matches(requests[i], a)
              /\ TicksUpTo(i)' = TicksUpTo(i) - 1
<1> DEFINE first == [requests[1] EXCEPT !.ticks = requests[1].ticks - 1]
<1>1. /\ requests \in Seq(Request)
      /\ \A i \in 1 .. Len(requests) :
           i \in {1, 2} /\ requests[i] \in Request /\ TicksUpTo(i) \in Nat
  BY QueueOfTwo
<1>2. 1 \in 1 .. Len(requests)
  BY <1>1, EmptySeq, LenProperties
<1>3. requests[1] \in Request /\ requests[1].ticks # 0 /\ requests[1].posted = FALSE
  BY <1>1, <1>2 DEF Unposted
<1>4. requests' = [requests EXCEPT ![1].ticks = requests[1].ticks - 1]
  BY <1>3 DEF TickQueue
<1>5. requests' = [requests EXCEPT ![1] = first]
  BY <1>2, <1>4
<1>6. requests[1].ticks - 1 \in Nat
  BY <1>3 DEF Request
<1>7. /\ first \in Request /\ first.addr = requests[1].addr /\ first.size = requests[1].size
      /\ first.load = requests[1].load /\ first.ticks = requests[1].ticks - 1
  BY <1>3, <1>6 DEF Request
<1> HIDE DEF first
<1>8. /\ Len(requests') = Len(requests)
      /\ \A i \in 1 .. Len(requests) : requests'[i] = IF i = 1 THEN first ELSE requests[i]
  BY <1>1, <1>2, <1>5, <1>7, ExceptSeq
<1>9. ASSUME NEW i \in 1 .. Len(requests)
      PROVE  /\ \A a : Matches(requests'[i], a) <=> Matches(requests[i], a)
             /\ TicksUpTo(i)' = TicksUpTo(i) - 1
  <2>1. CASE i = 1
    <3>1. requests'[1] = first
      BY <1>2, <1>8
    <3> QED BY <1>7, <2>1, <3>1 DEF Matches, TicksUpTo
  <2>2. CASE i # 1
    <3>1. i = 2 /\ requests[2] \in Request
      BY <1>1, <2>2
    <3>2. requests'[1] = first /\ requests'[2] = requests[2]
      BY <1>2, <1>8, <3>1
    <3>3. /\ TicksUpTo(2)' = (requests[1].ticks - 1) + requests[2].ticks
          /\ TicksUpTo(2) = requests[1].ticks + requests[2].ticks
      BY <1>7, <3>2 DEF TicksUpTo
    <3>4. requests[1].ticks \in Nat /\ requests[2].ticks \in Nat
      BY <1>3, <3>1 DEF Request
    <3> QED BY <3>1, <3>2, <3>3, <3>4
  <2> QED BY <2>1, <2>2
<1> QED BY <1>8, <1>9

\* A tick brings every request one cycle nearer to its end.
LEMMA TimeGoesBy ==
  ASSUME TypeOK, QueueInv, AllWanted, TakenInTime, Unposted, WithinSlot, requests # <<>>, Tick
  PROVE  /\ Len(requests') = Len(requests)
         /\ \A i \in 1 .. Len(requests) :
              /\ \A a : Matches(requests'[i], a) <=> Matches(requests[i], a)
              /\ LeftAt(TicksUpTo(i), roundCounter, transferring) \in Nat \ {0}
              /\ LeftAt(TicksUpTo(i)', roundCounter', transferring') =
                   LeftAt(TicksUpTo(i), roundCounter, transferring) - 1
<1>1. /\ requests \in Seq(Request) /\ Len(requests) \in 0 .. 2
      /\ \A i \in 1 .. Len(requests) :
           i \in {1, 2} /\ requests[i] \in Request /\ TicksUpTo(i) \in Nat
  BY QueueOfTwo
<1>2. /\ \A i \in 1 .. Len(requests) : requests[i].ticks # 0
      /\ TickFixed \/ TickTDM
  BY DEF TakenInTime, Tick
<1>3. 1 \in 1 .. Len(requests)
  BY <1>1, EmptySeq, LenProperties
<1>4. \A i \in 1 .. Len(requests) : TicksUpTo(i) \in Nat \ {0}
  <2> SUFFICES ASSUME NEW i \in 1 .. Len(requests) PROVE TicksUpTo(i) # 0
    BY <1>1
  <2>1. requests[1].ticks \in Nat \ {0} /\ requests[i].ticks \in Nat /\ (i = 1 \/ i = 2)
    BY <1>1, <1>2, <1>3 DEF Request
  <2> QED BY <2>1 DEF TicksUpTo
<1>5. /\ roundCounter \in Nat /\ transferring \in BOOLEAN
      /\ Kind = "tdm" => roundCounter < RoundLength
  BY DEF TypeOK
<1>6. transferring => InTransfer(roundCounter)
  BY DEF WithinSlot, InTransfer
<1>7. \A i \in 1 .. Len(requests) :
        LeftAt(TicksUpTo(i), roundCounter, transferring) \in Nat \ {0}
  BY <1>4, <1>5, <1>6, SomethingLeft
<1>8. /\ requests[1].posted = FALSE /\ requests[1].ticks > 0
  BY <1>1, <1>2, <1>3 DEF Unposted, Request
<1>9. CASE TickFixed
  <2>1. Kind # "tdm" /\ TickQueue(requests[1].ticks - 1)
    BY <1>9 DEF TickFixed
  <2>2. /\ Len(requests') = Len(requests)
        /\ \A i \in 1 .. Len(requests) :
             /\ \A a : Matches(requests'[i], a) <=> Matches(requests[i], a)
             /\ TicksUpTo(i)' = TicksUpTo(i) - 1
    BY <1>2, <2>1, HeadProgresses
  <2> QED BY <1>7, <2>1, <2>2 DEF LeftAt
<1>10. CASE TickTDM
  <2> DEFINE counter == (roundCounter + 1) % RoundLength
             started == IF counter = RoundStart THEN TRUE ELSE transferring
  <2>1. /\ Kind = "tdm" /\ roundCounter' = counter
        /\ counter = RoundEnd(FALSE) /\ started =>
             TickQueue(requests[1].ticks - 1) /\ transferring' = FALSE
        /\ ~ (counter = RoundEnd(FALSE) /\ started) =>
             requests' = requests /\ transferring' = started
    BY <1>8, <1>10 DEF TickTDM
  <2>2. ASSUME NEW n \in Nat \ {0}
        PROVE  /\ counter = RoundStart =>
                    /\ counter # RoundEnd(FALSE) /\ ~ InTransfer(roundCounter)
                    /\ LeftAt(n, counter, TRUE) = LeftAt(n, roundCounter, FALSE) - 1
               /\ counter # RoundStart =>
                    /\ LeftAt(n, counter, FALSE) = LeftAt(n, roundCounter, FALSE) - 1
                    /\ LeftAt(n, counter, TRUE) = LeftAt(n, roundCounter, TRUE) - 1
                    /\ counter = RoundEnd(FALSE) /\ InTransfer(roundCounter) =>
                         LeftAt(n - 1, counter, FALSE) = LeftAt(n, roundCounter, TRUE) - 1
    BY <1>5, <2>1, TimePasses
  <2> HIDE DEF counter
  <2>3. CASE counter = RoundEnd(FALSE) /\ started
    <3>1. /\ Len(requests') = Len(requests)
          /\ \A i \in 1 .. Len(requests) :
               /\ \A a : Matches(requests'[i], a) <=> Matches(requests[i], a)
               /\ TicksUpTo(i)' = TicksUpTo(i) - 1
      BY <1>2, <2>1, <2>3, HeadProgresses
    <3>2. counter # RoundStart
      <4>1. 1 \in Nat \ {0}
        OBVIOUS
      <4> QED BY <2>2, <2>3, <4>1
    <3>3. transferring = TRUE /\ InTransfer(roundCounter)
      BY <1>5, <1>6, <2>3, <3>2, Zenon
    <3>4. ASSUME NEW i \in 1 .. Len(requests)
          PROVE  LeftAt(TicksUpTo(i)', roundCounter', transferring') =
                   LeftAt(TicksUpTo(i), roundCounter, transferring) - 1
      <4>1. TicksUpTo(i) \in Nat \ {0} /\ TicksUpTo(i)' = TicksUpTo(i) - 1
        BY <1>4, <3>1
      <4>2. LeftAt(TicksUpTo(i) - 1, counter, FALSE) =
              LeftAt(TicksUpTo(i), roundCounter, TRUE) - 1
        BY <2>2, <2>3, <3>2, <3>3, <4>1, Zenon
      <4> QED BY <2>1, <2>3, <3>3, <4>1, <4>2, Zenon
    <3> QED BY <1>7, <3>1, <3>4
  <2>4. CASE ~ (counter = RoundEnd(FALSE) /\ started)
    <3>1. requests' = requests /\ transferring' = started /\ roundCounter' = counter
      BY <2>1, <2>4, Zenon
    <3>2. \A i : TicksUpTo(i)' = TicksUpTo(i)
      BY <3>1 DEF TicksUpTo
    <3>3. ASSUME NEW n \in Nat \ {0}
          PROVE  LeftAt(n, counter, started) = LeftAt(n, roundCounter, transferring) - 1
      <4>1. CASE counter = RoundStart
        <5>1. started = TRUE /\ transferring = FALSE
          BY <1>5, <1>6, <2>2, <3>3, <4>1, Zenon
        <5> QED BY <2>2, <3>3, <4>1, <5>1, Zenon
      <4>2. CASE counter # RoundStart
        <5>1. started = transferring
          BY <4>2, Zenon
        <5>2. transferring = TRUE \/ transferring = FALSE
          BY <1>5, Zenon
        <5> QED BY <2>2, <3>3, <4>2, <5>1, <5>2, Zenon
      <4> QED BY <4>1, <4>2, Zenon
    <3>4. ASSUME NEW i \in 1 .. Len(requests)
          PROVE  LeftAt(TicksUpTo(i)', roundCounter', transferring') =
                   LeftAt(TicksUpTo(i), roundCounter, transferring) - 1
      BY <1>4, <3>1, <3>2, <3>3, Zenon
    <3> QED BY <1>7, <3>1, <3>4, Zenon
  <2> QED BY <2>3, <2>4
<1> QED BY <1>2, <1>9, <1>10

\* The clocks of the ports count with the memory's.
LEMMA TickKeepsDue ==
  ASSUME SlotIInv, DueInv, Tick
  PROVE  DueInv'
<1>1. /\ TypeOK /\ QueueInv /\ AllWanted /\ MovesOn /\ TakenInTime /\ Unposted /\ WithinSlot
      /\ turn = "tick" /\ MovePipeline /\ fetched' = fetched
      /\ due' = [p \in Port |-> IF due[p] > 0 THEN due[p] - 1 ELSE due[p]]
      /\ TickFixed \/ TickTDM
  BY DEF SlotIInv, OrphanIInv, QueueIInv, Tick
<1>2. requests \in Seq(Request) /\ due \in [Port -> Int]
  BY <1>1 DEF TypeOK, Request
<1>3. CASE requests = <<>>
  <2>1. requests' = <<>> /\ Len(requests) = 0 /\ Len(requests') = 0
    BY <1>1, <1>2, <1>3, TickKeepsQueue, EmptySeq
  <2>2. \A p \in Port : due[p] = NotWaiting
    BY <2>1 DEF DueInv
  <2>3. \A p \in Port : due'[p] = NotWaiting
    BY <1>1, <2>2 DEF NotWaiting
  <2> QED BY <2>1, <2>3 DEF DueInv
<1>4. CASE requests # <<>>
  <2>1. stall
    <3> SUFFICES ASSUME ~ stall PROVE FALSE
      OBVIOUS
    <3>1. 1 \in 1 .. Len(requests)
      BY <1>2, <1>4, EmptySeq, LenProperties
    <3>2. Wanted(requests[1])
      BY <1>1, <3>1 DEF AllWanted
    <3> QED BY <1>1, <3>2 DEF MovesOn, Wanted
  <2>2. UNCHANGED <<pc, fetched, disableIF, access>>
    BY <1>1, <2>1 DEF MovePipeline
  <2>3. \A p : (Waiting(p)' <=> Waiting(p)) /\ AccessOf(p)' = AccessOf(p)
    BY <2>2 DEF Waiting, AccessOf, FetchWaits, AccessWaits, FetchAccess
  <2>4. /\ Len(requests') = Len(requests)
        /\ \A i \in 1 .. Len(requests) :
             /\ \A a : Matches(requests'[i], a) <=> Matches(requests[i], a)
             /\ LeftAt(TicksUpTo(i), roundCounter, transferring) \in Nat \ {0}
             /\ LeftAt(TicksUpTo(i)', roundCounter', transferring') =
                  LeftAt(TicksUpTo(i), roundCounter, transferring) - 1
    BY <1>1, <1>4, TimeGoesBy
  <2>5. ASSUME NEW p \in Port, due[p] # NotWaiting
        PROVE  /\ Waiting(p)
               /\ due'[p] # NotWaiting
               /\ \E i \in 1 .. Len(requests) :
                    /\ Matches(requests'[i], AccessOf(p))
                    /\ due'[p] = LeftAt(TicksUpTo(i)', roundCounter', transferring')
    <3>1. PICK i \in 1 .. Len(requests) :
            /\ Matches(requests[i], AccessOf(p))
            /\ due[p] = LeftAt(TicksUpTo(i), roundCounter, transferring)
      BY <2>5 DEF DueInv
    <3>2. due[p] \in Nat \ {0}
      BY <2>4, <3>1
    <3>3. due'[p] = due[p] - 1
      BY <1>1, <3>2
    <3>4. due'[p] # NotWaiting
      BY <3>2, <3>3 DEF NotWaiting
    <3>5. due'[p] = LeftAt(TicksUpTo(i)', roundCounter', transferring')
      BY <2>4, <3>1, <3>3
    <3>6. Matches(requests'[i], AccessOf(p))
      BY <2>4, <3>1
    <3>7. Waiting(p)
      BY <2>5 DEF DueInv
    <3> QED BY <3>4, <3>5, <3>6, <3>7
  <2>6. ASSUME NEW p \in Port, due[p] = NotWaiting
        PROVE  due'[p] = NotWaiting
    BY <1>1, <2>6 DEF NotWaiting
  <2>7. ASSUME NEW p \in Port, due'[p] # NotWaiting
        PROVE  /\ Waiting(p)'
               /\ \E i \in 1 .. Len(requests') :
                    /\ Matches(requests'[i], AccessOf(p)')
                    /\ due'[p] = LeftAt(TicksUpTo(i)', roundCounter', transferring')
    BY <2>3, <2>4, <2>5, <2>6, <2>7
  <2>8. ASSUME NEW p \in Port, NEW i \in 1 .. Len(requests'),
               Waiting(p)', Matches(requests'[i], AccessOf(p)')
        PROVE  due'[p] # NotWaiting
    <3>1. Waiting(p) /\ Matches(requests[i], AccessOf(p)) /\ i \in 1 .. Len(requests)
      BY <2>3, <2>4, <2>8
    <3>2. due[p] # NotWaiting
      BY <3>1 DEF DueInv
    <3> QED BY <2>5, <3>2
  <2> QED BY <2>7, <2>8 DEF DueInv, Matches, LeftAt
<1> QED BY <1>3, <1>4

\* What the calls of the pipeline do to the clocks: each is answered when it is due.
LEMMA CallsOnTime ==
  ASSUME SlotIInv, DueInv, ReadmeApplies, FetchStage \/ MWStage
  PROVE  DueInv' /\ AnswersOnTime
<1>1. /\ TypeOK /\ QueueInv /\ AllWanted /\ Unposted /\ WithinSlot
      /\ Posted = 0 /\ CodeApart /\ "IF" \in Port /\ "MW" \in Port
      /\ \A p \in Port : p = "IF" \/ p = "MW"
  BY DEF SlotIInv, OrphanIInv, QueueIInv, ReadmeApplies, Port
<1>2. TypeOK'
  BY QueueStep DEF SlotIInv, OrphanIInv, QueueIInv, Next
<1>3. /\ requests \in Seq(Request) /\ due \in [Port -> Int]
      /\ AccessOf("IF") = FetchAccess /\ AccessOf("MW") = access
      /\ Waiting("IF") = FetchWaits /\ Waiting("MW") = AccessWaits
      /\ AccessOf("IF")' = FetchAccess' /\ AccessOf("MW")' = access'
      /\ Waiting("IF")' = FetchWaits' /\ Waiting("MW")' = AccessWaits'
  BY <1>1 DEF TypeOK, Request, AccessOf, Waiting
<1>4. roundCounter' = roundCounter /\ transferring' = transferring
  BY DEF FetchStage, MWStage, FetchWord, FetchStalls, NoFetch, AccessDone, AccessStalls,
         NoAccessInMW, tdmVars
\* An answer to one port: what is left to show for the other.
<1>5. ASSUME NEW p \in Port, NEW q \in Port, p # q, Waiting(p), Ready(p, AccessOf(p)),
             turn = p, (Waiting(q)' <=> Waiting(q)), AccessOf(q)' = AccessOf(q),
             \A i \in 1 .. Len(requests') :
               ~ (Waiting(p)' /\ Matches(requests'[i], AccessOf(p)'))
      PROVE  DueInv' /\ AnswersOnTime
  <2>1. /\ due[p] # NotWaiting => due[p] = 0
        /\ due' = [due EXCEPT ![p] = NotWaiting]
        /\ \A r \in Port \ {p} : due[r] # NotWaiting =>
             \E i \in 1 .. Len(requests') :
               /\ Matches(requests'[i], AccessOf(r))
               /\ due[r] = LeftAt(TicksUpTo(i)', roundCounter, transferring)
        /\ \A r \in Port \ {p}, i \in 1 .. Len(requests') :
             Waiting(r) /\ Matches(requests'[i], AccessOf(r)) => due[r] # NotWaiting
    BY <1>1, <1>5, AnswerIsDue
  <2>2. due'[p] = NotWaiting /\ due'[q] = due[q]
    BY <1>3, <1>5, <2>1
  <2>3. \A r \in Port : r = p \/ r = q
    BY <1>5 DEF Port
  <2>4. due[q] # NotWaiting => Waiting(q)
    BY DEF DueInv
  <2>5. ASSUME NEW r \in Port, due'[r] # NotWaiting
        PROVE  /\ Waiting(r)'
               /\ \E i \in 1 .. Len(requests') :
                    /\ Matches(requests'[i], AccessOf(r)')
                    /\ due'[r] = LeftAt(TicksUpTo(i)', roundCounter', transferring')
    <3>1. r = q /\ r \in Port \ {p}
      BY <1>5, <2>2, <2>3, <2>5
    <3> QED BY <1>4, <1>5, <2>1, <2>2, <2>4, <2>5, <3>1
  <2>6. ASSUME NEW r \in Port, NEW i \in 1 .. Len(requests'),
               Waiting(r)', Matches(requests'[i], AccessOf(r)')
        PROVE  due'[r] # NotWaiting
    <3>1. r = q /\ r \in Port \ {p}
      BY <1>5, <2>3, <2>6
    <3> QED BY <1>5, <2>1, <2>2, <2>6, <3>1
  <2>7. DueInv'
    BY <2>5, <2>6 DEF DueInv, Matches, LeftAt
  <2>8. AnswersOnTime
    BY <1>5, <2>1, <2>2, <2>3 DEF AnswersOnTime
  <2> QED BY <2>7, <2>8
\* No answer: the clock starts, or goes on.
<1>6. ASSUME NEW p \in Port, Waiting(p), NotReady(p, AccessOf(p)), turn = p,
             \A q \in Port : (Waiting(q)' <=> Waiting(q)) /\ AccessOf(q)' = AccessOf(q)
      PROVE  DueInv' /\ AnswersOnTime
  <2>1. /\ due[p] # NotWaiting => due[p] # 0 /\ due'[p] # NotWaiting
        /\ \A q \in Port \ {p} : due'[q] = due[q]
        /\ \A q \in Port : due'[q] # NotWaiting =>
             /\ Waiting(q)
             /\ \E i \in 1 .. Len(requests') :
                  /\ Matches(requests'[i], AccessOf(q))
                  /\ due'[q] = LeftAt(TicksUpTo(i)', roundCounter, transferring)
        /\ \A q \in Port, i \in 1 .. Len(requests') :
             Waiting(q) /\ Matches(requests'[i], AccessOf(q)) => due'[q] # NotWaiting
    BY <1>1, <1>6, WaitIsNotDue
  <2>2. ASSUME NEW q \in Port, due'[q] # NotWaiting
        PROVE  /\ Waiting(q)'
               /\ \E i \in 1 .. Len(requests') :
                    /\ Matches(requests'[i], AccessOf(q)')
                    /\ due'[q] = LeftAt(TicksUpTo(i)', roundCounter', transferring')
    BY <1>4, <1>6, <2>1, <2>2
  <2>3. ASSUME NEW q \in Port, NEW i \in 1 .. Len(requests'),
               Waiting(q)', Matches(requests'[i], AccessOf(q)')
        PROVE  due'[q] # NotWaiting
    BY <1>6, <2>1, <2>3
  <2>4. DueInv'
    BY <2>2, <2>3 DEF DueInv, Matches, LeftAt
  <2>5. AnswersOnTime
    BY <1>6, <2>1 DEF AnswersOnTime
  <2> QED BY <2>4, <2>5
\* No call.
<1>7. ASSUME UNCHANGED <<requests, due>>, turn # "tick",
             \A q \in Port :
               (Waiting(q)' <=> Waiting(q)) /\ (Waiting(q) => AccessOf(q)' = AccessOf(q)),
             \A q \in Port : turn = q => ~ Waiting(q)
      PROVE  DueInv' /\ AnswersOnTime
  <2>1. \A i : TicksUpTo(i)' = TicksUpTo(i)
    BY <1>7 DEF TicksUpTo
  <2>2. ASSUME NEW q \in Port, due'[q] # NotWaiting
        PROVE  /\ Waiting(q)'
               /\ \E i \in 1 .. Len(requests') :
                    /\ Matches(requests'[i], AccessOf(q)')
                    /\ due'[q] = LeftAt(TicksUpTo(i)', roundCounter', transferring')
    <3>1. /\ Waiting(q)
          /\ \E i \in 1 .. Len(requests) :
               /\ Matches(requests[i], AccessOf(q))
               /\ due[q] = LeftAt(TicksUpTo(i), roundCounter, transferring)
      BY <1>7, <2>2 DEF DueInv
    <3> QED BY <1>4, <1>7, <2>1, <3>1
  <2>3. ASSUME NEW q \in Port, NEW i \in 1 .. Len(requests'),
               Waiting(q)', Matches(requests'[i], AccessOf(q)')
        PROVE  due'[q] # NotWaiting
    BY <1>7, <2>3 DEF DueInv
  <2>4. DueInv'
    BY <2>2, <2>3 DEF DueInv, Matches, LeftAt
  <2>5. AnswersOnTime
    BY <1>7 DEF AnswersOnTime, DueInv
  <2> QED BY <2>4, <2>5
<1>8. CASE FetchWord
  <2>1. /\ turn = "IF" /\ FetchWaits /\ Ready("IF", FetchAccess)
        /\ UNCHANGED <<pc, access>>
    BY <1>8 DEF FetchWord, FetchWaits
  <2>2. FetchAccess \in Accesses
    BY <1>1, <2>1, AccessTypes DEF FetchWaits
  <2>3. \A i \in 1 .. Len(requests') :
          AccessWaits /\ Matches(requests'[i], access)
    <3>1. \A i \in 1 .. Len(requests') :
            Wanted(requests'[i]) /\ ~ Matches(requests'[i], FetchAccess)
      BY <1>1, <2>1, <2>2, AnswerLeavesWanted
    <3> QED BY <3>1 DEF Wanted
  <2>4. (AccessWaits' <=> AccessWaits) /\ access' = access
    BY <2>1 DEF AccessWaits
  <2>5. ASSUME NEW i \in 1 .. Len(requests'), FetchWaits', Matches(requests'[i], FetchAccess')
        PROVE  FALSE
    <3>1. pc' \in Counters /\ fetched' \in 0 .. Slots - 1 /\ access \in DataAccesses
      BY <1>1, <1>2, <2>3, <2>5 DEF TypeOK, FetchWaits, AccessWaits
    <3>2. pc' + fetched' # access.addr
      BY <1>1, <3>1, ApartAddress
    <3> QED BY <2>3, <2>5, <3>2 DEF Matches, FetchAccess
  <2> QED BY <1>1, <1>3, <1>5, <2>1, <2>4, <2>5
<1>9. CASE FetchStalls
  <2>1. /\ turn = "IF" /\ FetchWaits /\ NotReady("IF", FetchAccess)
        /\ UNCHANGED <<pc, fetched, disableIF, access>>
    BY <1>9 DEF FetchStalls, FetchWaits, pipeVars
  <2>2. \A q \in Port : (Waiting(q)' <=> Waiting(q)) /\ AccessOf(q)' = AccessOf(q)
    BY <2>1 DEF Waiting, AccessOf, FetchWaits, AccessWaits, FetchAccess
  <2> QED BY <1>1, <1>3, <1>6, <2>1, <2>2
<1>10. CASE NoFetch
  <2>1. /\ turn = "IF" /\ ~ FetchWaits /\ ~ FetchWaits' /\ UNCHANGED <<requests, due, access>>
    BY <1>10 DEF NoFetch, FetchWaits
  <2>2. \A q \in Port : (Waiting(q)' <=> Waiting(q)) /\ (Waiting(q) => AccessOf(q)' = AccessOf(q))
    BY <2>1 DEF Waiting, AccessOf, AccessWaits
  <2>3. \A q \in Port : turn = q => ~ Waiting(q)
    BY <2>1 DEF Waiting
  <2> QED BY <1>7, <2>1, <2>2, <2>3
<1>11. CASE AccessDone
  <2>1. /\ turn = "MW" /\ AccessWaits /\ Ready("MW", access) /\ ~ AccessWaits'
        /\ UNCHANGED <<pc, fetched, disableIF>>
    BY <1>11 DEF AccessDone, AccessWaits
  <2>2. (FetchWaits' <=> FetchWaits) /\ FetchAccess' = FetchAccess
    BY <2>1 DEF FetchWaits, FetchAccess
  <2> QED BY <1>1, <1>3, <1>5, <2>1, <2>2
<1>12. CASE AccessStalls
  <2>1. /\ turn = "MW" /\ AccessWaits /\ NotReady("MW", access)
        /\ UNCHANGED <<pc, fetched, disableIF, access>>
    BY <1>12 DEF AccessStalls, AccessWaits, pipeVars
  <2>2. \A q \in Port : (Waiting(q)' <=> Waiting(q)) /\ AccessOf(q)' = AccessOf(q)
    BY <2>1 DEF Waiting, AccessOf, FetchWaits, AccessWaits, FetchAccess
  <2> QED BY <1>1, <1>3, <1>6, <2>1, <2>2
<1>13. CASE NoAccessInMW
  <2>1. /\ turn = "MW" /\ ~ AccessWaits
        /\ UNCHANGED <<pc, fetched, disableIF, access, requests, due>>
    BY <1>13 DEF NoAccessInMW, AccessWaits, pipeVars
  <2>2. \A q \in Port : (Waiting(q)' <=> Waiting(q)) /\ (Waiting(q) => AccessOf(q)' = AccessOf(q))
    BY <2>1 DEF Waiting, AccessOf, FetchWaits, AccessWaits, FetchAccess
  <2>3. \A q \in Port : turn = q => ~ Waiting(q)
    BY <2>1 DEF Waiting
  <2> QED BY <1>7, <2>1, <2>2, <2>3
<1> QED BY <1>8, <1>9, <1>10, <1>11, <1>12, <1>13 DEF FetchStage, MWStage

\* Whatever the memory, the delays, the burst and page sizes and the schedule, an
\* access is answered in the cycle the README of the simulator gives, for a program
\* whose data is apart from its code, and for pages that hold whole bursts.
THEOREM MemoryAnsweredOnTime == ReadmeApplies /\ Spec => AnsweredOnTime
<1> SUFFICES ASSUME ReadmeApplies PROVE Spec => AnsweredOnTime
  OBVIOUS
<1>1. Init => DueInv
  <2> SUFFICES ASSUME Init PROVE DueInv
    OBVIOUS
  <2>1. \A p \in Port : due[p] = NotWaiting
    BY DEF Init
  <2>2. Len(requests) = 0
    BY EmptySeq DEF Init
  <2> QED BY <2>1, <2>2 DEF DueInv
<1>2. ASSUME SlotIInv, DueInv, [Next]_vars PROVE DueInv' /\ [AnswersOnTime]_vars
  <2>1. CASE FetchStage \/ MWStage
    BY <1>2, <2>1, CallsOnTime
  <2>2. CASE Tick
    <3>1. DueInv'
      BY <1>2, <2>2, TickKeepsDue
    <3>2. AnswersOnTime
      <4> SUFFICES ASSUME NEW p \in Port, due[p] # NotWaiting
                   PROVE  due'[p] # NotWaiting /\ turn # p
        BY DEF AnswersOnTime
      <4>1. /\ due' = [r \in Port |-> IF due[r] > 0 THEN due[r] - 1 ELSE due[r]]
            /\ turn = "tick"
        BY <2>2 DEF Tick
      <4>2. due[p] \in Int
        BY <1>2 DEF SlotIInv, OrphanIInv, QueueIInv, TypeOK
      <4>3. due'[p] # NotWaiting
        BY <4>1, <4>2 DEF NotWaiting
      <4> QED BY <4>1, <4>3 DEF Port
    <3> QED BY <3>1, <3>2
  <2>3. CASE UNCHANGED vars
    <3>1. UNCHANGED <<pc, fetched, disableIF, access, requests, roundCounter, transferring, due>>
      BY <2>3 DEF vars
    <3>2. \A q : (Waiting(q)' <=> Waiting(q)) /\ AccessOf(q)' = AccessOf(q)
      BY <3>1 DEF Waiting, AccessOf, FetchWaits, AccessWaits, FetchAccess
    <3>3. \A i : TicksUpTo(i)' = TicksUpTo(i)
      BY <3>1 DEF TicksUpTo
    <3>4. ASSUME NEW q \in Port, due'[q] # NotWaiting
          PROVE  /\ Waiting(q)'
                 /\ \E i \in 1 .. Len(requests') :
                      /\ Matches(requests'[i], AccessOf(q)')
                      /\ due'[q] = LeftAt(TicksUpTo(i)', roundCounter', transferring')
      <4>1. /\ Waiting(q)
            /\ \E i \in 1 .. Len(requests) :
                 /\ Matches(requests[i], AccessOf(q))
                 /\ due[q] = LeftAt(TicksUpTo(i), roundCounter, transferring)
        BY <1>2, <3>1, <3>4 DEF DueInv
      <4> QED BY <3>1, <3>2, <3>3, <4>1
    <3>5. ASSUME NEW q \in Port, NEW i \in 1 .. Len(requests'),
                 Waiting(q)', Matches(requests'[i], AccessOf(q)')
          PROVE  due'[q] # NotWaiting
      BY <1>2, <3>1, <3>2, <3>5 DEF DueInv
    <3>6. DueInv'
      BY <3>4, <3>5 DEF DueInv, Matches, LeftAt
    <3> QED BY <2>3, <3>6
  <2> QED BY <1>2, <2>1, <2>2, <2>3 DEF Next
<1>3. Posted = 0 /\ Spec => []SlotIInv
  BY SlotAlways
<1>4. Posted = 0
  BY DEF ReadmeApplies
<1> QED BY <1>1, <1>2, <1>3, <1>4, PTL DEF Spec, AnsweredOnTime

-----------------------------------------------------------------------------
(***************************************************************************)
(* Main memory implements what it promises, without posted writes.         *)
(***************************************************************************)
\* What the two ports wait for, and after a step.
LEMMA PendingPorts ==
  /\ Port = {"IF", "MW"} /\ "IF" # "MW"
  /\ FetchWaits => Pending["IF"] = FetchAccess
  /\ ~FetchWaits => Pending["IF"] = NoAccess
  /\ Pending["MW"] = access
  /\ UNCHANGED <<pc, fetched, disableIF>> => Pending'["IF"] = Pending["IF"]
  /\ UNCHANGED access => Pending'["MW"] = Pending["MW"]
<1>1. /\ FetchWaits => Pending["IF"] = FetchAccess
      /\ ~FetchWaits => Pending["IF"] = NoAccess
      /\ Pending["MW"] = access /\ Pending'["MW"] = access'
      /\ FetchWaits' => Pending'["IF"] = FetchAccess'
      /\ ~FetchWaits' => Pending'["IF"] = NoAccess
  BY Zenon DEF Pending, Port, FetchWaits
<1>2. UNCHANGED <<pc, fetched, disableIF>> =>
        FetchAccess' = FetchAccess /\ (FetchWaits' <=> FetchWaits)
  BY DEF FetchAccess, FetchWaits
<1> HIDE DEF Pending
<1> QED BY <1>1, <1>2 DEF Port

\* A port that is answered is answered with what memory holds, and changes it
\* as its access says.
LEMMA ReadyAnswers ==
  ASSUME TypeOK, QueueInv, Posted = 0, NEW p \in Port, NEW a \in Accesses,
         Ready(p, a), Pending[p] = a,
         \A q \in Port \ {p} : Pending'[q] = Pending[q]
  PROVE  Promise!Answer(p)
<1>1. requests \in Seq(Request)
  BY DEF TypeOK, Request
<1>2. Finished(a)
  BY <1>1, ReadyQueue
<1>3. a # NoAccess
  BY MemoryProgram
<1>4. Promise!Words(a) = Words(a)
  BY DEF Promise!Words, Words
<1>5. \/ a.load /\ result' = [x \in Words(a) |-> mem[x]] /\ mem' = mem
      \/ ~a.load /\ result' = NoResult /\ mem' = Written(a)
  BY <1>2 DEF Ready, ReadReady, WriteReady, WritePosted
<1> HIDE DEF Pending
<1>6. IF a.load
      THEN result' = [x \in Promise!Words(a) |-> mem[x]] /\ UNCHANGED mem
      ELSE /\ result' = NoResult
           /\ mem' = [x \in Addr |-> IF x \in Promise!Words(a) THEN a.val ELSE mem[x]]
  BY <1>4, <1>5 DEF Written
<1> QED BY <1>3, <1>6 DEF Promise!Answer

LEMMA NotReadyAsks ==
  ASSUME NEW p \in Port, NEW a \in Accesses, NotReady(p, a),
         \A q \in Port : Pending'[q] = Pending[q]
  PROVE  Promise!Ask
<1> HIDE DEF Pending
<1> QED BY DEF NotReady, Promise!Ask

LEMMA StepKeepsPromise ==
  Posted = 0 /\ OrphanIInv /\ [Next]_vars => [Promise!Next]_(Promise!vars)
<1> SUFFICES ASSUME Posted = 0, OrphanIInv, [Next]_vars
             PROVE  [Promise!Next]_(Promise!vars)
  OBVIOUS
<1>1. TypeOK /\ QueueInv /\ MovesOn
  BY DEF OrphanIInv, QueueIInv
<1>2. "IF" \in Port /\ "MW" \in Port
  BY DEF Port
<1>3. CASE FetchWord
  <2>1. FetchWaits /\ Ready("IF", FetchAccess) /\ UNCHANGED access
    BY <1>3, Zenon DEF FetchWord, FetchWaits
  <2>2. FetchAccess \in Accesses
    BY <1>1, <2>1, AccessTypes DEF FetchWaits
  <2>3. Pending["IF"] = FetchAccess /\ \A q \in Port \ {"IF"} : Pending'[q] = Pending[q]
    BY <2>1, PendingPorts
  <2>4. Promise!Answer("IF")
    BY <1>1, <1>2, <2>1, <2>2, <2>3, ReadyAnswers
  <2> QED BY <1>2, <2>4 DEF Promise!Next
<1>4. CASE FetchStalls
  <2>1. FetchWaits /\ NotReady("IF", FetchAccess)
        /\ UNCHANGED <<pc, fetched, disableIF, access>>
    BY <1>4 DEF FetchStalls, FetchWaits, pipeVars
  <2>2. FetchAccess \in Accesses
    BY <1>1, <2>1, AccessTypes DEF FetchWaits
  <2>3. \A q \in Port : Pending'[q] = Pending[q]
    BY <2>1, PendingPorts
  <2>4. Promise!Ask
    BY <1>2, <2>1, <2>2, <2>3, NotReadyAsks
  <2> QED BY <2>4 DEF Promise!Next
<1>5. CASE NoFetch
  <2>1. ~FetchWaits /\ UNCHANGED <<access, mem>> /\ result' = NoResult
    BY <1>5 DEF NoFetch, FetchWaits
  <2>2. \A q \in Port : Pending[q] # NoAccess => Pending'[q] = Pending[q]
    BY <2>1, PendingPorts
  <2> HIDE DEF Pending
  <2> QED BY <2>1, <2>2 DEF Promise!Next, Promise!Ask
<1>6. CASE AccessDone
  <2>1. /\ access # NoAccess /\ Ready("MW", access)
        /\ UNCHANGED <<pc, fetched, disableIF>>
    BY <1>6 DEF AccessDone
  <2>2. access \in Accesses
    BY <1>1, <2>1, AccessTypes
  <2>3. Pending["MW"] = access /\ \A q \in Port \ {"MW"} : Pending'[q] = Pending[q]
    BY <2>1, PendingPorts
  <2>4. Promise!Answer("MW")
    BY <1>1, <1>2, <2>1, <2>2, <2>3, ReadyAnswers
  <2> QED BY <1>2, <2>4 DEF Promise!Next
<1>7. CASE AccessStalls
  <2>1. access # NoAccess /\ NotReady("MW", access)
        /\ UNCHANGED <<pc, fetched, disableIF, access>>
    BY <1>7 DEF AccessStalls, pipeVars
  <2>2. access \in Accesses
    BY <1>1, <2>1, AccessTypes
  <2>3. \A q \in Port : Pending'[q] = Pending[q]
    BY <2>1, PendingPorts
  <2>4. Promise!Ask
    BY <1>2, <2>1, <2>2, <2>3, NotReadyAsks
  <2> QED BY <2>4 DEF Promise!Next
<1>8. CASE NoAccessInMW
  <2>1. UNCHANGED <<pc, fetched, disableIF, access, mem>> /\ result' = NoResult
    BY <1>8 DEF NoAccessInMW, pipeVars
  <2>2. \A q \in Port : Pending'[q] = Pending[q]
    BY <2>1, PendingPorts
  <2> HIDE DEF Pending
  <2> QED BY <2>1, <2>2 DEF Promise!Next, Promise!Ask
<1>9. CASE Tick
  <2>1. turn = "tick" /\ UNCHANGED <<fetched, mem>> /\ result' = NoResult /\ MovePipeline
    BY <1>9 DEF Tick
  <2>2. \A q \in Port : Pending[q] # NoAccess => Pending'[q] = Pending[q]
    <3>1. CASE stall
      <4>1. UNCHANGED <<pc, fetched, disableIF, access>>
        BY <2>1, <3>1 DEF MovePipeline
      <4> QED BY <4>1, PendingPorts
    <3>2. CASE ~stall
      <4>1. ~FetchWaits /\ access = NoAccess
        BY <1>1, <2>1, <3>2 DEF MovesOn, AccessWaits
      <4> QED BY <4>1, PendingPorts
    <3> QED BY <3>1, <3>2
  <2> HIDE DEF Pending
  <2> QED BY <2>1, <2>2 DEF Promise!Next, Promise!Ask
<1>10. CASE UNCHANGED vars
  <2>1. UNCHANGED <<mem, Pending, result>>
    BY <1>10 DEF vars, Pending, FetchAccess
  <2> HIDE DEF Pending
  <2> QED BY <2>1 DEF Promise!vars
<1> QED BY <1>3, <1>4, <1>5, <1>6, <1>7, <1>8, <1>9, <1>10 DEF Next, FetchStage, MWStage

\* Main memory implements ProgramMemory: whatever the two ports of the pipeline
\* ask for, in whatever order it is answered, each answer is the right one.
THEOREM MemoryRefinesProgramMemory == Posted = 0 /\ Spec => RefinesProgramMemory
<1> SUFFICES ASSUME Posted = 0 PROVE Spec => RefinesProgramMemory
  OBVIOUS
<1>1. Init => Promise!Init
  BY DEF Init, Promise!Init
<1>2. OrphanIInv /\ [Next]_vars => OrphanIInv'
  BY OrphanStep
<1>3. OrphanIInv /\ [Next]_vars => [Promise!Next]_(Promise!vars)
  BY StepKeepsPromise
<1> QED BY <1>1, <1>2, <1>3, OrphanInit, PTL DEF Spec, RefinesProgramMemory, Promise!Spec
=============================================================================
