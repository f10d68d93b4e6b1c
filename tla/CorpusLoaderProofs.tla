------------------------- MODULE CorpusLoaderProofs -------------------------
(***************************************************************************)
(* Proofs about CorpusLoader for every archive, number of workers, limit   *)
(* and set of buffer classes: the types; the accounting of the in-flight   *)
(* budget with the hard bound its documentation states; the buffer arena   *)
(* and the shutdown.  A buffer has one owner, what is prepared under a     *)
(* name are that member's bytes, the arena makes no more buffers than the  *)
(* budget admits, the reader is never left asleep, and a load that returns *)
(* leaves nothing behind; and from all of it, that the loader implements   *)
(* CorpusLoad.                                                             *)
(***************************************************************************)
EXTENDS CorpusLoader, FiniteSetTheorems, SequenceTheorems, WellFoundedInduction, TLAPS

----------------------------------------------------------------------------
\* The size class of an admissible member.

\* memberBufferClass of a member the reader accepts is a real class that the
\* member fits in and that is no larger than the largest member.
LEMMA ClassOfMember ==
  ASSUME NEW size \in Nat, size <= MaxMember
  PROVE  /\ MemberBufferClass(size) \in BufferClass
         /\ MemberBufferClass(size) \in Nat \ {0}
         /\ size <= MemberBufferClass(size)
         /\ MemberBufferClass(size) <= MaxMember
<1> DEFINE T == {c \in BufferClass : size <= c}
<1>1. T \subseteq Nat /\ MaxMember \in T
  BY BufferClassAssumption
<1>2. PICK c \in T : \A d \in T : ~(<<d, c>> \in OpToRel(<, Nat))
  <2>1. IsWellFoundedOn(OpToRel(<, Nat), Nat)
    BY NatLessThanWellFounded
  <2> HIDE DEF T
  <2>2. QED
    BY <1>1, <2>1, WFMin
<1>3. \A d \in T : c <= d
  <2> TAKE d \in T
  <2>1. c \in Nat /\ d \in Nat
    BY <1>1, <1>2
  <2>2. ~(<<d, c>> \in {ss \in Nat \X Nat : ss[1] < ss[2]})
    BY <1>2 DEF OpToRel
  <2>3. ~(d < c)
    BY <2>1, <2>2
  <2>4. QED
    BY <2>1, <2>3
<1>4. \E k \in BufferClass : size <= k /\ \A d \in BufferClass : size <= d => k <= d
  BY <1>3
<1>5. /\ MemberBufferClass(size) \in BufferClass
      /\ size <= MemberBufferClass(size)
      /\ \A d \in BufferClass : size <= d => MemberBufferClass(size) <= d
  BY <1>4 DEF MemberBufferClass
<1>6. QED
  BY <1>5, BufferClassAssumption

----------------------------------------------------------------------------
\* Counting bytes.

\* An initial segment of the positive integers has the length it should.
LEMMA SegmentSize ==
  ASSUME NEW m \in Nat
  PROVE  IsFiniteSet(1..m) /\ Cardinality(1..m) = m
<1>1. 1 \in Int /\ m \in Int
  OBVIOUS
<1>2. IsFiniteSet(1..m) /\ Cardinality(1..m) = IF 1 > m THEN 0 ELSE m - 1 + 1
  BY <1>1, FS_Interval, Zenon
<1>3. QED
  BY <1>2

\* The tokens of a finite set of members are finitely many, and one more
\* member adds exactly its charge.
LEMMA AddTokens ==
  ASSUME NEW n \in Nat, NEW charge \in [1..n -> Nat],
         NEW S \in SUBSET (1..n), NEW p \in (1..n) \ S
  PROVE  /\ IsFiniteSet(ByteTokens(S, charge))
         /\ Cardinality(ByteTokens(S, charge)) \in Nat
         /\ Cardinality(ByteTokens(S \cup {p}, charge))
              = Cardinality(ByteTokens(S, charge)) + charge[p]
<1> DEFINE Of(q) == {q} \X (1..charge[q])
<1>1. \A q \in 1..n : IsFiniteSet(Of(q)) /\ Cardinality(Of(q)) = charge[q]
  <2> TAKE q \in 1..n
  <2>1. IsFiniteSet({q}) /\ Cardinality({q}) = 1
    BY FS_Singleton
  <2>2. IsFiniteSet(1..charge[q]) /\ Cardinality(1..charge[q]) = charge[q]
    BY SegmentSize
  <2>3. IsFiniteSet({q} \X (1..charge[q]))
        /\ Cardinality({q} \X (1..charge[q])) = Cardinality({q}) * Cardinality(1..charge[q])
    BY <2>1, <2>2, FS_Product
  <2>4. charge[q] \in Nat /\ Cardinality(1..charge[q]) = charge[q]
    BY <2>2
  <2>5. Cardinality({q}) * Cardinality(1..charge[q]) = charge[q]
    BY <2>1, <2>4
  <2>6. QED
    BY <2>3, <2>5
<1>2. IsFiniteSet(ByteTokens(S, charge))
  <2>1. IsFiniteSet(1..n)
    BY SegmentSize
  <2>2. IsFiniteSet(S)
    BY <2>1, FS_Subset
  <2> DEFINE f == [q \in S |-> Of(q)]
             R == {Of(q) : q \in S}
  <2>3. f \in Surjection(S, R)
    BY DEF Surjection
  <2>4. IsFiniteSet(R)
    BY <2>2, <2>3, FS_Surjection
  <2>5. \A T \in R : IsFiniteSet(T)
    BY <1>1
  <2>6. IsFiniteSet(UNION R)
    <3> HIDE DEF R
    <3>1. QED BY <2>4, <2>5, FS_UNION
  <2>7. QED
    BY <2>6 DEF ByteTokens
<1>3. ByteTokens(S \cup {p}, charge) = ByteTokens(S, charge) \cup Of(p)
  BY DEF ByteTokens
<1>4. ByteTokens(S, charge) \cap Of(p) = {}
  BY DEF ByteTokens
<1>5. IsFiniteSet(Of(p)) /\ Cardinality(Of(p)) = charge[p] /\ charge[p] \in Nat
  BY <1>1
<1> HIDE DEF Of
<1>6. Cardinality(ByteTokens(S, charge) \cup Of(p))
        = Cardinality(ByteTokens(S, charge)) + Cardinality(Of(p))
          - Cardinality(ByteTokens(S, charge) \cap Of(p))
  BY <1>2, <1>5, FS_Union
<1>7. Cardinality(ByteTokens(S, charge) \cap Of(p)) = 0
  BY <1>4, FS_EmptySet
<1>8. Cardinality(ByteTokens(S, charge)) \in Nat
  BY <1>2, FS_CardinalityType
<1>9. Cardinality(ByteTokens(S \cup {p}, charge))
        = Cardinality(ByteTokens(S, charge)) + charge[p] - 0
  BY <1>3, <1>5, <1>6, <1>7, Zenon
<1>10. QED
  BY <1>2, <1>5, <1>8, <1>9

----------------------------------------------------------------------------
\* Types.

\* The headers of an archive, and that an error is not the absence of one.
LEMMA HeaderTypes ==
  ASSUME archive \in Archives
  PROVE  /\ Len(Headers) \in Nat /\ DOMAIN Headers = 1..Len(Headers)
         /\ \A p \in DOMAIN Headers : Headers[p] \in Header
         /\ \A p \in DOMAIN Headers : /\ Headers[p].size \in Nat
                                     /\ Headers[p].name \in Seq(Component)
                                     /\ Headers[p].name # << >>
         /\ \A k, at : Failure(k, at) # Pending
<1>1. archive.headers \in Seq(Header)
  BY ArchivesAssumption DEF Archive
<1>2. \A k, at : Failure(k, at) # Pending
  <2> TAKE k, at
  <2>1. Failure(k, at).status = "error" /\ Pending.status = "pending"
    BY DEF Failure, Pending
  <2>2. QED
    BY <2>1
<1>3. \A p \in DOMAIN Headers : Headers[p] \in Header
  BY <1>1 DEF Headers
<1>4. \A p \in DOMAIN Headers : /\ Headers[p].size \in Nat
                                /\ Headers[p].name \in Seq(Component)
  BY <1>3 DEF Header
<1>5. \A p \in DOMAIN Headers : Headers[p].name # << >>
  BY ArchivesAssumption DEF Headers
<1>6. Len(Headers) \in Nat /\ DOMAIN Headers = 1..Len(Headers)
  BY <1>1 DEF Headers
<1>7. QED
  BY <1>2, <1>3, <1>4, <1>5, <1>6

\* The directory of a path is a path.
LEMMA FrontType ==
  ASSUME NEW s \in Seq(Component), s # << >>
  PROVE  Front(s) \in Seq(Component)
  BY DEF Front

LEMMA InitTypes == Init => TypeOK
<1> SUFFICES ASSUME Init PROVE TypeOK
  OBVIOUS
<1>1. ReaderTypes
  BY DEF Init, ReaderTypes, RPC
<1>2. WorkerTypes
  BY DEF Init, WorkerTypes, WPC
<1>3. CounterTypes
  BY DEF Init, CounterTypes
<1>4. FlagTypes
  BY Zenon DEF Init, FlagTypes
<1>5. QED
  BY <1>1, <1>2, <1>3, <1>4 DEF Init, TypeOK

\* What the proofs carry from step to step.
Shape == TypeOK /\ Admitted /\ Apart
BudgetInv == BudgetExact /\ used <= HardBound /\ peak <= HardBound
LoaderInv == Shape /\ BudgetInv /\ StoppedByError

\* The three things a step can do to the charges.
Keeps == Charged' = Charged /\ used' = used /\ peak' = peak
Grants(p) ==
  /\ p \in DOMAIN Headers \ Charged
  /\ Charged' = Charged \cup {p}
  /\ ~OverBudget(Charge(p))
  /\ used' = used + Charge(p) /\ peak' = IF used' > peak THEN used' ELSE peak
Returns(p) ==
  /\ p \in Charged
  /\ Charged' = Charged \ {p}
  /\ used' = used - Charge(p) /\ peak' = peak
Accounts == Keeps \/ (\E p \in DOMAIN Headers : Grants(p) \/ Returns(p))

\* The reader's steps that touch neither the channel, nor a worker, nor the
\* budget, and leave the reader without a charge, or with the one it had.
LEMMA ReaderLocal ==
  ASSUME Shape, SkipHeader \/ RejectHeader \/ ScanMember \/ AcquireParks
                \/ AcquireRefused \/ ArenaGet \/ ReadMember \/ PutBack
                \/ RecordShort \/ EndOfArchive \/ CloseJobs \/ Finish
  PROVE  ReaderTypes' /\ WorkerTypes' /\ Admitted' /\ Apart' /\ Keeps /\ Headers' = Headers
<1> USE HeaderTypes, FrontType DEF Shape, TypeOK, Headers, ReaderTypes, WorkerTypes, Admitted, Apart, Keeps,
        Charged, readerVars, channelVars, workerVars, budgetVars, RPC
<1>1. CASE SkipHeader
  <2>1. json' \subseteq {"features", "instructions"}
    BY <1>1 DEF SkipHeader, AtHeader
  <2>2. /\ rpc' = "next" /\ rpc = "next" /\ pos' = pos + 1 /\ archive' = archive
        /\ UNCHANGED <<seen, roots, total, jobs, wpc, wjob, used, peak>>
    BY <1>1 DEF SkipHeader, AtHeader
  <2>3. QED
    BY <2>1, <2>2
<1>2. CASE RejectHeader BY <1>2 DEF RejectHeader, AtHeader, RecordError
<1>3. CASE ScanMember
  <2>0. Headers[pos].size <= MaxMember
    <3>1. Headers[pos].kind = "xml" /\ ScanError(Headers[pos]) = "none"
      BY <1>3 DEF ScanMember
    <3>2. ~(Headers[pos].size > MaxMember)
      BY <3>1 DEF ScanError
    <3>3. Headers[pos].size \in Nat /\ MaxMember \in Nat
      BY <1>3, BufferClassAssumption DEF ScanMember, AtHeader
    <3>4. QED
      BY <3>2, <3>3
  <2>1. /\ rpc = "next" /\ pos \in DOMAIN Headers /\ archive' = archive
        /\ \/ rpc' = "acquire" /\ pos' = pos
           \/ rpc' = "next" /\ pos' = pos + 1
        /\ UNCHANGED <<json, jobs, wpc, wjob, used, peak>>
    BY <1>3 DEF ScanMember, AtHeader
  <2>2. total' \in Nat /\ seen' \subseteq Seq(Component) /\ roots' \subseteq Seq(Component)
    BY <1>3, <2>1 DEF ScanMember
  <2>3. QED
    BY <2>0, <2>1, <2>2
<1>4. CASE AcquireParks BY <1>4 DEF AcquireParks
<1>5. CASE AcquireRefused BY <1>5 DEF AcquireRefused
<1>6. CASE ArenaGet BY <1>6 DEF ArenaGet
<1>7. CASE ReadMember BY <1>7 DEF ReadMember
<1>8. CASE PutBack BY <1>8 DEF PutBack
<1>9. CASE RecordShort BY <1>9 DEF RecordShort, RecordError
<1>10. CASE EndOfArchive BY <1>10 DEF EndOfArchive
<1>11. CASE CloseJobs BY <1>11 DEF CloseJobs
<1>12. CASE Finish BY <1>12 DEF Finish
<1>13. QED
  BY <1>1, <1>2, <1>3, <1>4, <1>5, <1>6, <1>7, <1>8, <1>9, <1>10, <1>11, <1>12

\* The charge of an admitted member is a class of the arena.
LEMMA ChargeType ==
  ASSUME Shape, NEW p \in DOMAIN Headers, Headers[p].size <= MaxMember
  PROVE  Charge(p) \in Nat \ {0} /\ Charge(p) <= MaxMember
  BY ClassOfMember, HeaderTypes DEF Shape, TypeOK, Charge

\* The reader's steps that move a charge: from the budget to itself, from
\* itself to the channel, and back to the budget after a short read.
LEMMA ReaderCharges ==
  ASSUME Shape, AcquireGranted \/ SendJob \/ GiveBack
  PROVE  ReaderTypes' /\ WorkerTypes' /\ Admitted' /\ Apart' /\ Accounts /\ Headers' = Headers
<1> USE HeaderTypes DEF Shape, TypeOK, Headers, ReaderTypes, WorkerTypes, Admitted, Apart,
        Charged, readerVars, channelVars, workerVars, budgetVars, RPC
<1>1. CASE AcquireGranted
  <2>1. ReaderTypes' /\ WorkerTypes' /\ Apart' /\ Admitted' /\ Headers' = Headers
    BY <1>1 DEF AcquireGranted
  <2>2. pos \in DOMAIN Headers \ Charged
    BY <1>1 DEF AcquireGranted, Range
  <2>3. Charged' = Charged \cup {pos}
    BY <1>1 DEF AcquireGranted
  <2>4. Grants(pos)
    BY <1>1, <2>2, <2>3 DEF AcquireGranted, Grants
  <2>5. QED
    BY <2>1, <2>2, <2>4 DEF Accounts
<1>2. CASE SendJob
  <2>1. Charged' = Charged
    BY <1>2 DEF SendJob
  <2>2. ReaderTypes' /\ WorkerTypes' /\ Headers' = Headers
    BY <1>2 DEF SendJob
  <2>3. Apart' /\ Admitted'
    BY <1>2, <2>1 DEF SendJob, Range
  <2>4. QED
    BY <1>2, <2>1, <2>2, <2>3 DEF SendJob, Accounts, Keeps
<1>3. CASE GiveBack
  <2>1. ReaderTypes' /\ WorkerTypes' /\ Apart' /\ Admitted' /\ Headers' = Headers
    BY <1>3 DEF GiveBack
  <2>2. pos \in DOMAIN Headers /\ pos \in Charged /\ Charged' = Charged \ {pos}
    BY <1>3 DEF GiveBack, Range
  <2>3. Returns(pos)
    BY <1>3, <2>2 DEF GiveBack, ReleaseBudget, Returns
  <2>4. QED
    BY <2>1, <2>2, <2>3 DEF Accounts
<1>4. QED
  BY <1>1, <1>2, <1>3

\* A worker takes over the charge of the job it receives, keeps it while it
\* prepares and recycles, and gives it back to the budget.
LEMMA WorkerCharges ==
  ASSUME Shape, NEW w \in Worker, WorkerStep(w)
  PROVE  ReaderTypes' /\ WorkerTypes' /\ Admitted' /\ Apart' /\ Accounts /\ Headers' = Headers
<1> USE HeaderTypes DEF Shape, TypeOK, Headers, ReaderTypes, WorkerTypes, Admitted, Apart,
        readerVars, channelVars, workerVars, budgetVars, WPC
<1>1. CASE ReceiveJob(w)
  <2>1. PICK p \in jobs : /\ jobs' = jobs \ {p} /\ wjob' = [wjob EXCEPT ![w] = p]
                          /\ wjob[w] = 0 /\ wpc' = [wpc EXCEPT ![w] = "check"]
                          /\ UNCHANGED <<archive, readerVars, used, peak>>
    BY <1>1 DEF ReceiveJob
  <2>2. WorkerTypes' /\ ReaderTypes' /\ Headers' = Headers
    BY <2>1
  <2>3. Apart'
    BY <2>1
  <2>4. Charged' = Charged
    BY <2>1 DEF Charged, Range
  <2>5. QED
    BY <2>1, <2>2, <2>3, <2>4 DEF Accounts, Keeps
<1>2. CASE CheckCanceled(w) \/ PrepareIndex(w) \/ PreparePage(w) \/ PrepareFails(w)
           \/ PutBuffer(w) \/ ExitWorker(w)
  <2> DEFINE Moves(s) == wpc' = [wpc EXCEPT ![w] = s] /\ (s = "exit" <=> wpc[w] = "recv")
  <2>1. /\ UNCHANGED <<archive, readerVars, jobs, wjob, used, peak>>
        /\ \E s \in {"put", "prepare", "release", "exit"} : Moves(s)
        /\ wpc[w] # "exit"
    <3>1. CASE CheckCanceled(w) BY <3>1 DEF CheckCanceled
    <3>2. CASE PrepareIndex(w) BY <3>2 DEF PrepareIndex
    <3>3. CASE PreparePage(w) BY <3>3 DEF PreparePage
    <3>4. CASE PrepareFails(w) BY <3>4 DEF PrepareFails
    <3>5. CASE PutBuffer(w) BY <3>5 DEF PutBuffer
    <3>6. CASE ExitWorker(w) BY <3>6 DEF ExitWorker
    <3>7. QED BY <1>2, <3>1, <3>2, <3>3, <3>4, <3>5, <3>6
  <2>2. Charged' = Charged
    BY <2>1 DEF Charged
  <2>3. WorkerTypes' /\ ReaderTypes' /\ Headers' = Headers /\ Apart'
    BY <2>1
  <2>4. QED
    BY <2>1, <2>2, <2>3 DEF Accounts, Keeps
<1>3. CASE ReleaseCharge(w)
  <2> DEFINE p == wjob[w]
  <2>1. /\ p \in DOMAIN Headers /\ wjob' = [wjob EXCEPT ![w] = 0]
        /\ wpc' = [wpc EXCEPT ![w] = "recv"] /\ UNCHANGED <<archive, readerVars, jobs, peak>>
        /\ used' = used - Charge(p)
    BY <1>3 DEF ReleaseCharge, ReleaseBudget
  <2>2. WorkerTypes' /\ ReaderTypes' /\ Headers' = Headers
    BY <2>1
  <2>3. Apart'
    BY <2>1
  <2>4. p \in Charged /\ Charged' = Charged \ {p}
    <3>1. Range(wjob)' = (Range(wjob) \ {p}) \cup {0}
      BY <2>1 DEF Range
    <3>2. p \in Range(wjob) /\ p # 0 /\ p \notin jobs /\ p # pos
      BY <2>1 DEF Range
    <3>3. QED
      BY <2>1, <3>1, <3>2 DEF Charged
  <2>5. Returns(p)
    BY <2>1, <2>4 DEF Returns
  <2>6. QED
    BY <2>1, <2>2, <2>3, <2>4, <2>5 DEF Accounts
<1>4. QED
  BY <1>1, <1>2, <1>3 DEF WorkerStep

----------------------------------------------------------------------------
\* Accounting.

\* Whatever a step does to the charges, the counter follows and stays within
\* the hard bound.
LEMMA BudgetStep ==
  ASSUME Shape, Shape', Headers' = Headers, Accounts, BudgetInv
  PROVE  BudgetInv'
<1> DEFINE n == Len(Headers)
           both == Charged \cup Charged'
           charge == [p \in 1..n |-> IF p \in both THEN Charge(p) ELSE 0]
           bytes(S) == Cardinality(ByteTokens(S, charge))
<1>1. n \in Nat /\ DOMAIN Headers = 1..n
  BY HeaderTypes DEF Shape, TypeOK
<1>2. Charged \subseteq 1..n /\ Charged' \subseteq 1..n
  <2>1. Charged \subseteq DOMAIN Headers
    BY DEF Shape, TypeOK, ReaderTypes, WorkerTypes, Charged, Range
  <2>2. Charged' \subseteq DOMAIN Headers'
    BY DEF Shape, TypeOK, ReaderTypes, WorkerTypes, Charged, Range
  <2>3. QED
    BY <1>1, <2>1, <2>2
<1>3. \A p \in both : Charge(p) \in Nat \ {0} /\ Charge(p) <= MaxMember
  <2>1. \A p \in both : Headers[p].size <= MaxMember
    BY DEF Shape, Admitted
  <2>2. QED
    BY <1>1, <1>2, <2>1, ChargeType
<1>4. charge \in [1..n -> Nat]
  BY <1>3
<1>5. Cardinality(ChargedBytes) = bytes(Charged)
  <2>1. ByteTokens(Charged, charge) = ChargedBytes
    BY <1>1, <1>2 DEF ByteTokens, ChargedBytes
  <2>2. QED
    BY <2>1
<1>6. Cardinality(ChargedBytes)' = bytes(Charged')
  <2>1. \A p : Charge(p)' = Charge(p)
    BY DEF Charge
  <2>2. ByteTokens(Charged', charge) = ChargedBytes'
    BY <1>1, <1>2, <2>1 DEF ByteTokens, ChargedBytes
  <2>3. QED
    BY <2>2
<1>7. used = bytes(Charged)
  BY <1>5 DEF BudgetInv, BudgetExact
<1> HIDE DEF n, charge, bytes
<1>8. ASSUME NEW S \in SUBSET (1..n), NEW p \in (1..n) \ S
      PROVE  bytes(S) \in Nat /\ bytes(S \cup {p}) = bytes(S) + charge[p]
  BY <1>1, <1>4, <1>8, AddTokens DEF bytes
<1>9. HardBound \in Nat /\ MaxInflightBytes <= HardBound /\ MaxMember <= HardBound
  BY BudgetAssumption, BufferClassAssumption DEF HardBound
<1>10. used \in Int /\ peak \in Nat /\ used <= HardBound /\ peak <= HardBound
  BY DEF Shape, TypeOK, CounterTypes, BudgetInv
<1>11. CASE Keeps
  BY <1>6, <1>7, <1>10, <1>11 DEF Keeps, BudgetInv, BudgetExact, HardBound
<1>12. ASSUME NEW p \in DOMAIN Headers, Grants(p)
       PROVE  BudgetInv'
  <2>1. charge[p] = Charge(p) /\ Charge(p) \in Nat /\ Charge(p) <= MaxMember
    BY <1>1, <1>3, <1>12 DEF Grants, charge
  <2>2. used' = bytes(Charged')
    BY <1>1, <1>2, <1>7, <1>8, <1>12, <2>1 DEF Grants
  <2>3. used' <= HardBound
    BY <1>9, <1>10, <1>12, <2>1, BudgetAssumption, BufferClassAssumption DEF Grants, OverBudget
  <2>4. peak' <= HardBound
    BY <1>10, <1>12, <2>3 DEF Grants
  <2>5. QED
    BY <1>6, <2>2, <2>3, <2>4 DEF BudgetInv, BudgetExact, HardBound
<1>13. ASSUME NEW p \in DOMAIN Headers, Returns(p)
       PROVE  BudgetInv'
  <2>1. charge[p] = Charge(p) /\ Charge(p) \in Nat
    BY <1>1, <1>3, <1>13 DEF Returns, charge
  <2>2. Charged = Charged' \cup {p} /\ p \in (1..n) \ Charged'
    BY <1>1, <1>13 DEF Returns
  <2>3. bytes(Charged') \in Nat /\ bytes(Charged) = bytes(Charged') + charge[p]
    BY <1>2, <1>8, <2>2
  <2>4. used' = bytes(Charged') /\ used' <= HardBound /\ peak' <= HardBound
    BY <1>7, <1>9, <1>10, <1>13, <2>1, <2>3 DEF Returns
  <2>5. QED
    BY <1>6, <2>4 DEF BudgetInv, BudgetExact, HardBound
<1>14. QED
  BY <1>11, <1>12, <1>13 DEF Accounts

\* The counters stay integers, since every charge that moves is one.
LEMMA CounterStep ==
  ASSUME Shape, Admitted', Headers' = Headers, Accounts
  PROVE  CounterTypes'
<1>1. CASE Keeps
  BY <1>1 DEF Keeps, CounterTypes, Shape, TypeOK
<1>2. ASSUME NEW p \in DOMAIN Headers, Grants(p) \/ Returns(p)
      PROVE  CounterTypes'
  <2>1. Headers[p].size <= MaxMember
    BY <1>2 DEF Grants, Returns, Shape, Admitted
  <2>2. Charge(p) \in Nat
    BY <1>2, <2>1, ChargeType
  <2>3. used \in Int /\ peak \in Nat
    BY DEF Shape, TypeOK, CounterTypes
  <2>4. CASE Grants(p)
    <3>1. used' \in Int /\ (peak' = peak \/ (peak' = used' /\ used' > peak))
      BY <2>2, <2>3, <2>4 DEF Grants
    <3>2. QED
      BY <2>3, <3>1 DEF CounterTypes
  <2>5. CASE Returns(p)
    BY <2>2, <2>3, <2>5 DEF Returns, CounterTypes
  <2>6. QED
    BY <1>2, <2>4, <2>5
<1>3. QED
  BY <1>1, <1>2 DEF Accounts

\* Flags only ever become TRUE or FALSE.
LEMMA FlagStep ==
  ASSUME FlagTypes, Next
  PROVE  FlagTypes'
<1> USE DEF FlagTypes, RecordError, ReleaseBudget, channelVars, budgetVars
<1>1. CASE ReaderStep
  BY <1>1, Zenon DEF ReaderStep, SkipHeader, RejectHeader, ScanMember, AcquireParks,
     AcquireRefused, AcquireGranted, ArenaGet, ReadMember, SendJob, PutBack, GiveBack,
     RecordShort, EndOfArchive, CloseJobs, Finish
<1>2. ASSUME NEW w \in Worker, WorkerStep(w) PROVE FlagTypes'
  BY <1>2, Zenon DEF WorkerStep, ReceiveJob, CheckCanceled, PrepareIndex, PreparePage,
     PrepareFails, PutBuffer, ReleaseCharge, ExitWorker
<1>3. CASE Done
  BY <1>3, Zenon DEF Done, vars
<1>4. QED
  BY <1>1, <1>2, <1>3 DEF Next

\* The budget is stopped where the first error is recorded and nowhere else.
LEMMA StopStep ==
  ASSUME TypeOK, StoppedByError, Next
  PROVE  StoppedByError'
<1>1. \A k, at : Failure(k, at) # Pending
  BY HeaderTypes DEF TypeOK
<1> USE <1>1 DEF StoppedByError, RecordError, ReleaseBudget, budgetVars
<1>2. CASE ReaderStep
  BY <1>2, Zenon DEF ReaderStep, SkipHeader, RejectHeader, ScanMember, AcquireParks,
     AcquireRefused, AcquireGranted, ArenaGet, ReadMember, SendJob, PutBack, GiveBack,
     RecordShort, EndOfArchive, CloseJobs, Finish
<1>3. ASSUME NEW w \in Worker, WorkerStep(w) PROVE StoppedByError'
  BY <1>3, Zenon DEF WorkerStep, ReceiveJob, CheckCanceled, PrepareIndex, PreparePage,
     PrepareFails, PutBuffer, ReleaseCharge, ExitWorker
<1>4. CASE Done
  BY <1>4, Zenon DEF Done, vars
<1>5. QED
  BY <1>2, <1>3, <1>4 DEF Next

----------------------------------------------------------------------------
\* The invariant.

LEMMA LoaderInit == Init => LoaderInv
<1> SUFFICES ASSUME Init PROVE LoaderInv
  OBVIOUS
<1>1. TypeOK
  BY InitTypes
<1>2. Charged = {}
  BY DEF Init, Charged, Range
<1>3. Admitted /\ Apart
  BY <1>2 DEF Init, Admitted, Apart
<1>4. ChargedBytes = {}
  BY <1>2 DEF ChargedBytes, ByteTokens
<1>5. Cardinality(ChargedBytes) = 0
  BY <1>4, FS_EmptySet
<1>6. BudgetInv
  BY <1>5, BudgetAssumption, BufferClassAssumption DEF Init, BudgetInv, BudgetExact, HardBound
<1>7. StoppedByError
  BY Zenon DEF Init, StoppedByError
<1>8. QED
  BY <1>1, <1>3, <1>6, <1>7 DEF LoaderInv, Shape

\* What every step does to the types and the charges.
LEMMA LoaderEffect ==
  ASSUME LoaderInv, Next
  PROVE  ReaderTypes' /\ WorkerTypes' /\ Admitted' /\ Apart' /\ Accounts /\ Headers' = Headers
<1>1. CASE ReaderStep
  BY <1>1, ReaderLocal, ReaderCharges DEF ReaderStep, LoaderInv, Accounts
<1>2. ASSUME NEW w \in Worker, WorkerStep(w)
      PROVE  ReaderTypes' /\ WorkerTypes' /\ Admitted' /\ Apart' /\ Accounts
             /\ Headers' = Headers
  BY <1>2, WorkerCharges DEF LoaderInv
<1>3. CASE Done
  BY <1>3 DEF Done, vars, LoaderInv, Shape, TypeOK, ReaderTypes, WorkerTypes, Admitted,
     Apart, Accounts, Keeps, Charged, Headers, readerVars, channelVars, workerVars, budgetVars
<1>4. QED
  BY <1>1, <1>2, <1>3 DEF Next

LEMMA LoaderStep == LoaderInv /\ [Next]_vars => LoaderInv'
<1>1. ASSUME LoaderInv, Next PROVE LoaderInv'
  <2>1. ReaderTypes' /\ WorkerTypes' /\ Admitted' /\ Apart' /\ Accounts /\ Headers' = Headers
    BY <1>1, LoaderEffect
  <2>2. CounterTypes'
    BY <1>1, <2>1, CounterStep DEF LoaderInv
  <2>3. FlagTypes' /\ StoppedByError'
    BY <1>1, FlagStep, StopStep DEF LoaderInv, Shape, TypeOK
  <2>4. archive' \in Archives
    <3>1. archive' = archive
      BY <1>1, Zenon DEF Next, ReaderStep, WorkerStep, SkipHeader, RejectHeader, ScanMember, AcquireParks,
         AcquireRefused, AcquireGranted, ArenaGet, ReadMember, SendJob, PutBack, GiveBack,
         RecordShort, EndOfArchive, CloseJobs, Finish, ReceiveJob, CheckCanceled, PrepareIndex,
         PreparePage, PrepareFails, PutBuffer, ReleaseCharge, ExitWorker, Done, vars
    <3>2. QED
      BY <1>1, <3>1 DEF LoaderInv, Shape, TypeOK
  <2>5. Shape'
    BY <2>1, <2>2, <2>3, <2>4 DEF Shape, TypeOK
  <2>6. BudgetInv'
    BY <1>1, <2>1, <2>5, BudgetStep DEF LoaderInv
  <2>7. QED
    BY <2>3, <2>5, <2>6 DEF LoaderInv
<1>2. ASSUME LoaderInv, UNCHANGED vars PROVE LoaderInv'
  BY <1>2 DEF vars, LoaderInv, Shape, BudgetInv, BudgetExact, StoppedByError, TypeOK, ReaderTypes,
     WorkerTypes, CounterTypes, FlagTypes, Admitted, Apart, Charged, ChargedBytes, Charge, Headers,
     readerVars, channelVars, workerVars, budgetVars
<1>3. QED
  BY <1>1, <1>2

LEMMA LoaderInvariant == Spec => []LoaderInv
  BY LoaderInit, LoaderStep, PTL DEF Spec

\* The loader's state keeps its types for every archive and any number of
\* workers.
THEOREM TypesHold == Spec => []TypeOK
<1>1. LoaderInv => TypeOK
  BY DEF LoaderInv, Shape
<1>2. QED
  BY <1>1, LoaderInvariant, PTL

\* The in-flight counter always equals the bytes charged for the members the
\* reader, the channel and the workers hold.
THEOREM BudgetIsExact == Spec => []BudgetExact
<1>1. LoaderInv => BudgetExact
  BY DEF LoaderInv, BudgetInv
<1>2. QED
  BY <1>1, LoaderInvariant, PTL

\* The documented hard bound on expanded bytes in flight, and on the peak the
\* statistics report.
THEOREM BudgetIsBounded == Spec => []BudgetBound
<1>1. LoaderInv => BudgetBound
  BY DEF LoaderInv, BudgetInv, BudgetExact, BudgetBound
<1>2. QED
  BY <1>1, LoaderInvariant, PTL

\* A refused acquire never hides an incomplete load: an error is recorded.
THEOREM StopHasError == Spec => []StoppedByError
<1>1. LoaderInv => StoppedByError
  BY DEF LoaderInv
<1>2. QED
  BY <1>1, LoaderInvariant, PTL

----------------------------------------------------------------------------
\* Free lists.

Distinct(s) == \A i, j \in DOMAIN s : s[i] = s[j] => i = j

\* What pushing a buffer on a free list does.
LEMMA Push ==
  ASSUME NEW T, NEW s \in Seq(T), NEW b \in T
  PROVE  /\ Append(s, b) \in Seq(T)
         /\ ToSet(Append(s, b)) = ToSet(s) \cup {b}
         /\ Distinct(s) /\ b \notin ToSet(s) => Distinct(Append(s, b))
<1> DEFINE t == Append(s, b)
<1>1. t \in Seq(T) /\ Len(t) = Len(s) + 1 /\ t[Len(s) + 1] = b
      /\ \A i \in 1..Len(s) : t[i] = s[i]
  OBVIOUS
<1>2. DOMAIN s = 1..Len(s) /\ DOMAIN t = 1..(Len(s) + 1) /\ Len(s) \in Nat
  BY <1>1
<1> HIDE DEF t
<1>3. ToSet(t) = ToSet(s) \cup {b}
  BY <1>1, <1>2 DEF ToSet
<1>4. ASSUME Distinct(s), b \notin ToSet(s) PROVE Distinct(t)
  <2> SUFFICES ASSUME NEW i \in DOMAIN t, NEW j \in DOMAIN t, t[i] = t[j] PROVE i = j
    BY DEF Distinct
  <2>1. \A k \in DOMAIN s : s[k] # b
    BY <1>4 DEF ToSet
  <2>2. QED
    BY <1>1, <1>2, <1>4, <2>1 DEF Distinct
<1>5. QED
  BY <1>1, <1>3, <1>4 DEF t

\* What popping the buffer put back last does.
LEMMA Pop ==
  ASSUME NEW T, NEW s \in Seq(T), s # << >>
  PROVE  /\ Front(s) \in Seq(T) /\ Last(s) \in ToSet(s)
         /\ ToSet(Front(s)) \subseteq ToSet(s)
         /\ ToSet(s) = ToSet(Front(s)) \cup {Last(s)}
         /\ Distinct(s) => Distinct(Front(s)) /\ Last(s) \notin ToSet(Front(s))
<1> DEFINE n == Len(s)
           t == Front(s)
<1>1. n \in Nat \ {0} /\ DOMAIN s = 1..n
  OBVIOUS
<1>2. t \in Seq(T) /\ DOMAIN t = 1..(n - 1) /\ \A i \in 1..(n - 1) : t[i] = s[i]
  BY <1>1 DEF Front
<1>3. Last(s) = s[n]
  BY DEF Last
<1> HIDE DEF t, n
<1>4. Last(s) \in ToSet(s) /\ ToSet(s) = ToSet(t) \cup {Last(s)}
  BY <1>1, <1>2, <1>3 DEF ToSet
<1>5. ASSUME Distinct(s) PROVE Distinct(t) /\ Last(s) \notin ToSet(t)
  BY <1>1, <1>2, <1>3, <1>5 DEF Distinct, ToSet
<1>6. QED
  BY <1>2, <1>4, <1>5 DEF t

----------------------------------------------------------------------------
\* The invariant of the arena.

\* The members whose bytes are in their buffer: sent, or about to be, and not
\* yet prepared.
Readable == jobs \cup {wjob[w] : w \in {w \in Worker : wpc[w] \in {"check", "prepare"}}}
                 \cup (IF rpc = "send" THEN {pos} ELSE {})

Buffer == [class : BufferClass, data : Nat]
ArenaTypes ==
  /\ heap \in Seq(Buffer)
  /\ buf \in [DOMAIN Headers -> Nat]
  /\ free \in [BufferClass -> Seq(Nat)]

\* A buffer is used and recycled as what it was made for.
ClassKept ==
  /\ \A p \in Holders : buf[p] \in DOMAIN heap /\ heap[buf[p]].class = Charge(p)
  /\ \A c \in BufferClass : \A b \in ToSet(free[c]) : b \in DOMAIN heap /\ heap[b].class = c

\* One owner, for members and free lists.
OneOwner ==
  /\ \A p, q \in Holders : buf[p] = buf[q] => p = q
  /\ \A c \in BufferClass : \A p \in Holders : buf[p] \notin ToSet(free[c])
  /\ \A c \in BufferClass : Distinct(free[c])

\* No buffer is lost before the load returns: a member holds it or it is free.
Conserved ==
  rpc # "returned" =>
    \A b \in DOMAIN heap : \/ \E p \in Holders : buf[p] = b
                           \/ b \in ToSet(free[heap[b].class])

Contents == \A p \in Readable : heap[buf[p]].data = p

ArenaInv == ArenaTypes /\ ClassKept /\ OneOwner /\ Conserved /\ Contents

----------------------------------------------------------------------------
\* What a step can do to the arena.

Rests ==
  /\ UNCHANGED arenaVars
  /\ Holders' = Holders /\ Readable' \subseteq Readable
  /\ rpc = "returned" => rpc' = "returned"

\* The member p is given a buffer.
Takes(p) ==
  /\ p \in DOMAIN Headers \ Holders /\ p \notin Readable
  /\ p \in Charged /\ Charge(p) \in BufferClass
  /\ \/ /\ free[Charge(p)] # << >>
        /\ buf' = [buf EXCEPT ![p] = Last(free[Charge(p)])]
        /\ free' = [free EXCEPT ![Charge(p)] = Front(free[Charge(p)])]
        /\ heap' = heap
     \/ /\ free[Charge(p)] = << >>
        /\ heap' = Append(heap, [class |-> Charge(p), data |-> 0])
        /\ buf' = [buf EXCEPT ![p] = Len(heap')]
        /\ free' = free
  /\ Holders' = Holders \cup {p} /\ Readable' = Readable
  /\ rpc # "returned"

\* The contents of p are read into its buffer.
Fills(p) ==
  /\ p \in DOMAIN Headers \cap Holders
  /\ heap' = [heap EXCEPT ![buf[p]].data = p]
  /\ UNCHANGED <<buf, free>>
  /\ Holders' = Holders /\ Readable' \subseteq Readable \cup {p}
  /\ rpc # "returned"

\* The buffer of p goes back.
Recycles(p) ==
  /\ p \in DOMAIN Headers \cap Holders /\ p \notin Readable
  /\ ArenaPut(buf[p])
  /\ Holders' = Holders \ {p} /\ Readable' = Readable
  /\ rpc # "returned"

\* The arena is dropped.
Drops ==
  /\ free' = [c \in BufferClass |-> << >>]
  /\ UNCHANGED <<heap, buf>>
  /\ Holders' = Holders /\ Readable' = Readable
  /\ rpc' = "returned"

ArenaMoves ==
  \/ Rests \/ Drops
  \/ \E p \in DOMAIN Headers : Takes(p) \/ Fills(p) \/ Recycles(p)

\* Which members hold a buffer, and whose bytes are in it, by the step of the
\* process that has them.
LEMMA HoldersCharged ==
  ASSUME Shape
  PROVE  /\ Readable \subseteq Holders /\ Holders \subseteq DOMAIN Headers
         /\ \A p \in Holders : p \in Charged /\ Headers[p].size <= MaxMember
<1>1. Readable \subseteq Holders
  BY DEF Readable, Holders
<1>2. Holders \subseteq Charged
  BY DEF Shape, TypeOK, WorkerTypes, WPC, Holders, Charged, Range
<1>3. Charged \subseteq DOMAIN Headers
  BY DEF Shape, TypeOK, ReaderTypes, WorkerTypes, Charged, Range
<1>4. QED
  BY <1>1, <1>2, <1>3 DEF Shape, Admitted

\* The reader takes a buffer, fills it, sends it or puts it back.
LEMMA ReaderArena ==
  ASSUME Shape, ReaderStep
  PROVE  ArenaMoves
<1> USE DEF Shape, TypeOK, Headers, ReaderTypes, WorkerTypes, Apart, Holders, Readable,
        readerVars, channelVars, workerVars, budgetVars, arenaVars, RPC
<1>1. CASE SkipHeader \/ RejectHeader \/ ScanMember \/ AcquireParks \/ AcquireRefused
           \/ AcquireGranted \/ RecordShort \/ EndOfArchive \/ CloseJobs \/ GiveBack
  <2>1. CASE SkipHeader BY <2>1 DEF SkipHeader, AtHeader, ArenaMoves, Rests
  <2>2. CASE RejectHeader BY <2>2 DEF RejectHeader, AtHeader, ArenaMoves, Rests
  <2>3. CASE ScanMember BY <2>3 DEF ScanMember, AtHeader, ArenaMoves, Rests
  <2>4. CASE AcquireParks BY <2>4 DEF AcquireParks, ArenaMoves, Rests
  <2>5. CASE AcquireRefused BY <2>5 DEF AcquireRefused, ArenaMoves, Rests
  <2>6. CASE AcquireGranted BY <2>6 DEF AcquireGranted, ArenaMoves, Rests
  <2>7. CASE RecordShort BY <2>7 DEF RecordShort, ArenaMoves, Rests
  <2>8. CASE EndOfArchive BY <2>8 DEF EndOfArchive, ArenaMoves, Rests
  <2>9. CASE CloseJobs BY <2>9 DEF CloseJobs, ArenaMoves, Rests
  <2>10. CASE GiveBack BY <2>10 DEF GiveBack, ArenaMoves, Rests
  <2>11. QED
    BY <1>1, <2>1, <2>2, <2>3, <2>4, <2>5, <2>6, <2>7, <2>8, <2>9, <2>10
<1>2. CASE ArenaGet
  <2>1. Headers[pos].size <= MaxMember /\ pos \in DOMAIN Headers
    BY <1>2 DEF ArenaGet, Admitted, Charged
  <2>2. Charge(pos) \in BufferClass
    BY <2>1, HeaderTypes, ClassOfMember DEF Charge
  <2>3. pos \notin Holders /\ pos \notin Readable /\ pos \in Charged
    BY <1>2 DEF ArenaGet, Charged
  <2>4. Takes(pos)
    BY <1>2, <2>1, <2>2, <2>3 DEF ArenaGet, Takes
  <2>5. QED
    BY <2>1, <2>4 DEF ArenaMoves, Takes
<1>3. CASE ReadMember
  <2>1. pos \in DOMAIN Headers
    BY <1>3 DEF ReadMember
  <2>2. Fills(pos)
    BY <1>3 DEF ReadMember, Fills
  <2>3. QED
    BY <2>1, <2>2 DEF ArenaMoves, Fills
<1>4. CASE SendJob
  BY <1>4 DEF SendJob, ArenaMoves, Rests
<1>5. CASE PutBack
  <2>1. pos \in DOMAIN Headers
    BY <1>5 DEF PutBack
  <2>2. Recycles(pos)
    BY <1>5 DEF PutBack, Recycles
  <2>3. QED
    BY <2>1, <2>2 DEF ArenaMoves, Recycles
<1>6. CASE Finish
  BY <1>6 DEF Finish, ArenaMoves, Drops
<1>7. QED
  BY <1>1, <1>2, <1>3, <1>4, <1>5, <1>6 DEF ReaderStep

\* A worker takes a member over with its buffer, prepares it from the buffer
\* and puts the buffer back.
LEMMA WorkerArena ==
  ASSUME Shape, rpc # "returned", NEW w \in Worker, WorkerStep(w)
  PROVE  ArenaMoves
<1> USE DEF Shape, TypeOK, Headers, ReaderTypes, WorkerTypes, Apart,
        readerVars, channelVars, workerVars, budgetVars, arenaVars, WPC
<1>1. CASE ReceiveJob(w)
  <2>1. PICK p \in jobs : /\ jobs' = jobs \ {p} /\ wjob' = [wjob EXCEPT ![w] = p]
                          /\ wpc[w] = "recv" /\ wpc' = [wpc EXCEPT ![w] = "check"]
                          /\ UNCHANGED <<readerVars, arenaVars>>
    BY <1>1 DEF ReceiveJob
  <2>2. Holders' = Holders
    BY <2>1 DEF Holders
  <2>3. Readable' = Readable
    BY <2>1 DEF Readable
  <2>4. QED
    BY <2>1, <2>2, <2>3 DEF ArenaMoves, Rests
<1>2. CASE PutBuffer(w)
  <2> DEFINE p == wjob[w]
  <2>1. /\ wpc[w] = "put" /\ wpc' = [wpc EXCEPT ![w] = "release"]
        /\ UNCHANGED <<readerVars, jobs, wjob>> /\ p \in DOMAIN Headers
        /\ ArenaPut(buf[p])
    BY <1>2 DEF PutBuffer
  <2>2. p \in Holders /\ p \notin Readable
    BY <2>1 DEF Holders, Readable
  <2>3. Holders' = Holders \ {p}
    BY <2>1 DEF Holders
  <2>4. Readable' = Readable
    BY <2>1 DEF Readable
  <2>5. Recycles(p)
    BY <2>1, <2>2, <2>3, <2>4 DEF Recycles
  <2>6. QED
    BY <2>1, <2>5 DEF ArenaMoves
<1>3. CASE CheckCanceled(w) \/ PrepareIndex(w) \/ PreparePage(w) \/ PrepareFails(w)
           \/ ExitWorker(w)
  <2>1. /\ UNCHANGED <<readerVars, jobs, wjob, arenaVars>>
        /\ \/ wpc[w] = "check" /\ wpc' = [wpc EXCEPT ![w] = "prepare"]
           \/ wpc[w] \in {"check", "prepare"} /\ wpc' = [wpc EXCEPT ![w] = "put"]
           \/ wpc[w] = "recv" /\ wpc' = [wpc EXCEPT ![w] = "exit"]
    <3>1. CASE CheckCanceled(w) BY <3>1 DEF CheckCanceled
    <3>2. CASE PrepareIndex(w) BY <3>2 DEF PrepareIndex
    <3>3. CASE PreparePage(w) BY <3>3 DEF PreparePage
    <3>4. CASE PrepareFails(w) BY <3>4 DEF PrepareFails
    <3>5. CASE ExitWorker(w) BY <3>5 DEF ExitWorker
    <3>6. QED BY <1>3, <3>1, <3>2, <3>3, <3>4, <3>5
  <2>2. Holders' = Holders
    BY <2>1 DEF Holders
  <2>3. Readable' \subseteq Readable
    BY <2>1 DEF Readable
  <2>4. QED
    BY <2>1, <2>2, <2>3 DEF ArenaMoves, Rests
<1>4. CASE ReleaseCharge(w)
  <2>1. /\ UNCHANGED <<readerVars, jobs, arenaVars>> /\ wpc[w] = "release"
        /\ wjob' = [wjob EXCEPT ![w] = 0] /\ wpc' = [wpc EXCEPT ![w] = "recv"]
    BY <1>4 DEF ReleaseCharge
  <2>2. Holders' = Holders
    BY <2>1 DEF Holders
  <2>3. Readable' = Readable
    BY <2>1 DEF Readable
  <2>4. QED
    BY <2>1, <2>2, <2>3 DEF ArenaMoves, Rests
<1>5. QED
  BY <1>1, <1>2, <1>3, <1>4 DEF WorkerStep

----------------------------------------------------------------------------
\* The invariant holds at the start and through every move.

LEMMA ArenaInit == Init => ArenaInv
<1> SUFFICES ASSUME Init PROVE ArenaInv
  OBVIOUS
<1>1. Holders = {} /\ Readable = {}
  BY DEF Init, Holders, Readable
<1>2. heap = << >> /\ \A c \in BufferClass : free[c] = << >>
  BY DEF Init
<1>3. ArenaTypes
  BY DEF Init, ArenaTypes, Headers
<1>4. ClassKept /\ OneOwner /\ Conserved /\ Contents
  BY <1>1, <1>2 DEF ClassKept, OneOwner, Conserved, Contents, Distinct, ToSet
<1>5. QED
  BY <1>3, <1>4 DEF ArenaInv

LEMMA TakeStep ==
  ASSUME Shape, Headers' = Headers, ArenaInv, NEW p \in DOMAIN Headers, Takes(p)
  PROVE  ArenaInv'
<1> DEFINE c == Charge(p)
           b == buf'[p]
<1>1. c \in BufferClass /\ Charge(p)' = c /\ \A q : Charge(q)' = Charge(q)
  BY DEF Takes, Charge, Headers
<1>2. /\ heap \in Seq(Buffer) /\ buf \in [DOMAIN Headers -> Nat]
      /\ free \in [BufferClass -> Seq(Nat)]
  BY DEF ArenaInv, ArenaTypes
<1>3. /\ heap' \in Seq(Buffer) /\ DOMAIN heap \subseteq DOMAIN heap'
      /\ DOMAIN heap' = DOMAIN heap \cup {b}
      /\ \A i \in DOMAIN heap : heap'[i] = heap[i]
      /\ b \in DOMAIN heap' /\ heap'[b].class = c
      /\ b \in Nat /\ buf' = [buf EXCEPT ![p] = b]
      /\ \A q \in Holders : buf[q] # b
      /\ free' \in [BufferClass -> Seq(Nat)]
      /\ \A d \in BufferClass : /\ ToSet(free'[d]) \subseteq ToSet(free[d])
                                /\ ToSet(free[d]) \subseteq ToSet(free'[d]) \cup {b}
                                /\ Distinct(free'[d]) /\ b \notin ToSet(free'[d])
  <2>1. CASE free[c] # << >>
    <3>1. /\ heap' = heap /\ buf' = [buf EXCEPT ![p] = Last(free[c])]
          /\ free' = [free EXCEPT ![c] = Front(free[c])]
      BY <2>1 DEF Takes
    <3>2. b = Last(free[c])
      BY <1>2, <3>1
    <3>3. /\ Front(free[c]) \in Seq(Nat) /\ b \in ToSet(free[c])
          /\ ToSet(free[c]) = ToSet(Front(free[c])) \cup {b}
          /\ Distinct(Front(free[c])) /\ b \notin ToSet(Front(free[c]))
      BY <1>1, <1>2, <2>1, <3>2, Pop DEF ArenaInv, OneOwner
    <3>4. b \in DOMAIN heap /\ heap[b].class = c
      BY <1>1, <3>3 DEF ArenaInv, ClassKept
    <3>5. \A q \in Holders : buf[q] # b
      BY <1>1, <3>3 DEF ArenaInv, OneOwner
    <3>6. \A d \in BufferClass : d # c => b \notin ToSet(free[d])
      BY <3>4 DEF ArenaInv, ClassKept
    <3>7. b \in Nat
      BY <1>2, <3>4
    <3>8. free' \in [BufferClass -> Seq(Nat)]
      BY <1>1, <1>2, <3>1, <3>3
    <3>9. ASSUME NEW d \in BufferClass
          PROVE /\ ToSet(free'[d]) \subseteq ToSet(free[d])
                /\ ToSet(free[d]) \subseteq ToSet(free'[d]) \cup {b}
                /\ Distinct(free'[d]) /\ b \notin ToSet(free'[d])
      <4>1. CASE d = c
        BY <1>1, <1>2, <3>1, <3>3, <4>1
      <4>2. CASE d # c
        <5>1. free'[d] = free[d] /\ Distinct(free[d])
          BY <1>1, <1>2, <3>1, <4>2 DEF ArenaInv, OneOwner
        <5>2. QED
          BY <3>6, <4>2, <5>1
      <4>3. QED BY <4>1, <4>2
    <3>10. QED
      BY <1>2, <3>1, <3>2, <3>4, <3>5, <3>7, <3>8, <3>9
  <2>2. CASE free[c] = << >>
    <3>1. /\ heap' = Append(heap, [class |-> c, data |-> 0])
          /\ buf' = [buf EXCEPT ![p] = Len(heap')] /\ free' = free
      BY <2>2 DEF Takes
    <3>2. [class |-> c, data |-> 0] \in Buffer
      BY <1>1 DEF Buffer
    <3>3. /\ heap' \in Seq(Buffer) /\ DOMAIN heap' = DOMAIN heap \cup {Len(heap')}
          /\ \A i \in DOMAIN heap : heap'[i] = heap[i]
          /\ heap'[Len(heap')].class = c /\ Len(heap') \in Nat /\ Len(heap') \notin DOMAIN heap
      BY <1>2, <3>1, <3>2
    <3>4. b = Len(heap')
      BY <1>2, <3>1
    <3>5. \A q \in Holders : buf[q] # b
      BY <3>3, <3>4 DEF ArenaInv, ClassKept
    <3>6. ASSUME NEW d \in BufferClass
          PROVE  b \notin ToSet(free[d]) /\ Distinct(free[d])
      <4>1. \A i \in ToSet(free[d]) : i \in DOMAIN heap
        BY Zenon DEF ArenaInv, ClassKept
      <4>2. Distinct(free[d])
        BY Zenon DEF ArenaInv, OneOwner
      <4>3. b \notin DOMAIN heap
        BY <3>3, <3>4, Zenon
      <4>4. QED
        BY <4>1, <4>2, <4>3
    <3>7. QED
      BY <1>2, <3>1, <3>3, <3>4, <3>5, <3>6
  <2>3. QED
    BY <2>1, <2>2
<1>4. Holders' = Holders \cup {p} /\ Readable' = Readable /\ p \notin Readable /\ p \notin Holders
  BY DEF Takes
<1>5. \A q \in Holders : buf'[q] = buf[q]
  BY <1>2, <1>3, <1>4, HoldersCharged
<1> HIDE DEF b, c
<1>6. ArenaTypes'
  BY <1>2, <1>3 DEF ArenaTypes
<1>7. ClassKept'
  <2>1. \A q \in Holders' : buf'[q] \in DOMAIN heap' /\ heap'[buf'[q]].class = Charge(q)'
    BY <1>1, <1>3, <1>4, <1>5 DEF ArenaInv, ClassKept, b, c
  <2>2. \A d \in BufferClass : \A i \in ToSet(free'[d]) : i \in DOMAIN heap' /\ heap'[i].class = d
    BY <1>3 DEF ArenaInv, ClassKept
  <2>3. QED
    BY <2>1, <2>2 DEF ClassKept
<1>8. OneOwner'
  BY <1>3, <1>4, <1>5 DEF ArenaInv, OneOwner, b
<1>9. Conserved'
  <2> SUFFICES ASSUME NEW i \in DOMAIN heap'
               PROVE  \/ \E q \in Holders' : buf'[q] = i
                      \/ i \in ToSet(free'[heap'[i].class])
    BY DEF Conserved
  <2>1. CASE i = b
    BY <1>4, <2>1 DEF b
  <2>2. CASE i # b
    <3>1. i \in DOMAIN heap /\ heap'[i] = heap[i] /\ heap[i].class \in BufferClass
      <4>1. i \in DOMAIN heap /\ heap'[i] = heap[i]
        BY <1>3, <2>2
      <4>2. heap[i] \in Buffer
        BY <1>2, <4>1
      <4>3. QED
        BY <4>1, <4>2 DEF Buffer
    <3>2. (\E q \in Holders : buf[q] = i) \/ i \in ToSet(free[heap[i].class])
      BY <3>1 DEF ArenaInv, Conserved, Takes
    <3>3. QED
      BY <1>3, <1>4, <1>5, <2>2, <3>1, <3>2
  <2>3. QED BY <2>1, <2>2
<1>10. Contents'
  <2> SUFFICES ASSUME NEW q \in Readable PROVE heap'[buf'[q]].data = q
    BY <1>4 DEF Contents
  <2>1. q \in Holders /\ buf[q] \in DOMAIN heap /\ heap[buf[q]].data = q
    BY HoldersCharged DEF ArenaInv, ClassKept, Contents
  <2>2. QED
    BY <1>3, <1>5, <2>1
<1>11. QED
  BY <1>6, <1>7, <1>8, <1>9, <1>10 DEF ArenaInv

LEMMA FillStep ==
  ASSUME Shape, Headers' = Headers, ArenaInv, NEW p \in DOMAIN Headers, Fills(p)
  PROVE  ArenaInv'
<1>1. /\ heap \in Seq(Buffer) /\ buf \in [DOMAIN Headers -> Nat]
      /\ free \in [BufferClass -> Seq(Nat)] /\ buf' = buf /\ free' = free
      /\ p \in Holders /\ Holders' = Holders /\ Readable' \subseteq Readable \cup {p}
  BY DEF ArenaInv, ArenaTypes, Fills
<1>2. \A q : Charge(q)' = Charge(q)
  BY DEF Charge, Headers
<1>3. buf[p] \in DOMAIN heap /\ p \in Nat
  BY <1>1, HeaderTypes DEF ArenaInv, ClassKept, Shape, TypeOK
<1>4. /\ heap' \in Seq(Buffer) /\ DOMAIN heap' = DOMAIN heap
      /\ \A i \in DOMAIN heap : /\ heap'[i].class = heap[i].class
                                /\ heap'[i].data = IF i = buf[p] THEN p ELSE heap[i].data
  <2>1. heap' = [heap EXCEPT ![buf[p]] = [heap[buf[p]] EXCEPT !.data = p]]
    BY DEF Fills
  <2>2. heap[buf[p]] \in Buffer
    BY <1>1, <1>3
  <2>3. /\ [heap[buf[p]] EXCEPT !.data = p] \in Buffer
        /\ [heap[buf[p]] EXCEPT !.data = p].class = heap[buf[p]].class
        /\ [heap[buf[p]] EXCEPT !.data = p].data = p
    BY <1>3, <2>2 DEF Buffer
  <2>4. QED
    BY <1>1, <1>3, <2>1, <2>3
<1>5. ArenaTypes'
  BY <1>1, <1>4 DEF ArenaTypes
<1>6. ClassKept'
  BY <1>1, <1>2, <1>4 DEF ArenaInv, ClassKept
<1>7. OneOwner'
  BY <1>1 DEF ArenaInv, OneOwner
<1>8. Conserved'
  BY <1>1, <1>4 DEF ArenaInv, Conserved, Fills
<1>9. Contents'
  <2> SUFFICES ASSUME NEW q \in Readable' PROVE heap'[buf[q]].data = q
    BY <1>1 DEF Contents
  <2>1. q \in Holders /\ buf[q] \in DOMAIN heap
    BY <1>1, HoldersCharged DEF ArenaInv, ClassKept
  <2>2. CASE q = p
    BY <1>3, <1>4, <2>2
  <2>3. CASE q # p
    <3>1. buf[q] # buf[p] /\ heap[buf[q]].data = q
      BY <1>1, <2>1, <2>3 DEF ArenaInv, OneOwner, Contents
    <3>2. QED
      BY <1>4, <2>1, <3>1
  <2>4. QED BY <2>2, <2>3
<1>10. QED
  BY <1>5, <1>6, <1>7, <1>8, <1>9 DEF ArenaInv

LEMMA RecycleStep ==
  ASSUME Shape, Headers' = Headers, ArenaInv, NEW p \in DOMAIN Headers, Recycles(p)
  PROVE  ArenaInv'
<1> DEFINE c == heap[buf[p]].class
<1>1. /\ heap \in Seq(Buffer) /\ buf \in [DOMAIN Headers -> Nat]
      /\ free \in [BufferClass -> Seq(Nat)] /\ buf' = buf /\ heap' = heap
      /\ free' = [free EXCEPT ![c] = Append(free[c], buf[p])]
      /\ p \in Holders /\ Holders' = Holders \ {p} /\ Readable' = Readable /\ p \notin Readable
  BY DEF ArenaInv, ArenaTypes, Recycles, ArenaPut
<1>2. \A q : Charge(q)' = Charge(q)
  BY DEF Charge, Headers
<1>3. buf[p] \in DOMAIN heap /\ buf[p] \in Nat /\ c \in BufferClass
  <2>1. buf[p] \in DOMAIN heap /\ buf[p] \in Nat
    BY <1>1 DEF ArenaInv, ClassKept
  <2>2. heap[buf[p]] \in Buffer
    BY <1>1, <2>1
  <2>3. QED
    BY <2>1, <2>2 DEF Buffer
<1>4. /\ free[c] \in Seq(Nat) /\ buf[p] \notin ToSet(free[c]) /\ Distinct(free[c])
  BY <1>1, <1>3 DEF ArenaInv, OneOwner
<1>5. /\ Append(free[c], buf[p]) \in Seq(Nat)
      /\ ToSet(Append(free[c], buf[p])) = ToSet(free[c]) \cup {buf[p]}
      /\ Distinct(Append(free[c], buf[p]))
  BY <1>3, <1>4, Push
<1> HIDE DEF c
<1>6. /\ free'[c] = Append(free[c], buf[p])
      /\ \A d \in BufferClass : d # c => free'[d] = free[d]
      /\ free' \in [BufferClass -> Seq(Nat)]
  BY <1>1, <1>3, <1>5
<1>7. ArenaTypes'
  BY <1>1, <1>6 DEF ArenaTypes
<1>8. ClassKept'
  <2>1. \A q \in Holders' : buf'[q] \in DOMAIN heap' /\ heap'[buf'[q]].class = Charge(q)'
    BY <1>1, <1>2 DEF ArenaInv, ClassKept
  <2>2. \A d \in BufferClass : \A i \in ToSet(free'[d]) : i \in DOMAIN heap' /\ heap'[i].class = d
    BY <1>1, <1>3, <1>5, <1>6 DEF ArenaInv, ClassKept, c
  <2>3. QED
    BY <2>1, <2>2 DEF ClassKept
<1>9. OneOwner'
  <2>1. \A q, r \in Holders' : buf'[q] = buf'[r] => q = r
    BY <1>1 DEF ArenaInv, OneOwner
  <2>2. ASSUME NEW d \in BufferClass, NEW q \in Holders' PROVE buf'[q] \notin ToSet(free'[d])
    <3>1. buf[q] # buf[p] /\ buf[q] \notin ToSet(free[d])
      BY <1>1 DEF ArenaInv, OneOwner
    <3>2. QED
      BY <1>1, <1>5, <1>6, <3>1
  <2>3. \A d \in BufferClass : Distinct(free'[d])
    BY <1>5, <1>6 DEF ArenaInv, OneOwner
  <2>4. QED
    BY <2>1, <2>2, <2>3 DEF OneOwner
<1>10. Conserved'
  <2> SUFFICES ASSUME NEW i \in DOMAIN heap
               PROVE  \/ \E q \in Holders' : buf'[q] = i
                      \/ i \in ToSet(free'[heap'[i].class])
    BY <1>1 DEF Conserved
  <2>1. CASE i = buf[p]
    BY <1>1, <1>5, <1>6, <2>1 DEF c
  <2>2. CASE i # buf[p]
    <3>1. (\E q \in Holders : buf[q] = i) \/ i \in ToSet(free[heap[i].class])
      BY DEF ArenaInv, Conserved, Recycles
    <3>2. heap[i].class \in BufferClass
      <4>1. heap[i] \in Buffer
        BY <1>1
      <4>2. QED
        BY <4>1 DEF Buffer
    <3>3. ToSet(free[heap[i].class]) \subseteq ToSet(free'[heap[i].class])
      BY <1>5, <1>6, <3>2
    <3>4. QED
      BY <1>1, <2>2, <3>1, <3>3
  <2>3. QED BY <2>1, <2>2
<1>11. Contents'
  BY <1>1 DEF ArenaInv, Contents
<1>12. QED
  BY <1>7, <1>8, <1>9, <1>10, <1>11 DEF ArenaInv

LEMMA ArenaStep ==
  ASSUME Shape, Headers' = Headers, ArenaInv, ArenaMoves
  PROVE  ArenaInv'
<1>1. CASE Rests
  <2>1. \A q : Charge(q)' = Charge(q)
    BY DEF Charge, Headers
  <2>2. QED
    BY <1>1, <2>1 DEF Rests, arenaVars, ArenaInv, ArenaTypes, ClassKept, OneOwner, Conserved, Contents
<1>2. CASE Drops
  <2>1. \A q : Charge(q)' = Charge(q)
    BY DEF Charge, Headers
  <2>2. /\ heap' = heap /\ buf' = buf /\ rpc' = "returned"
        /\ \A c \in BufferClass : free'[c] = << >> /\ ToSet(free'[c]) = {}
        /\ free' \in [BufferClass -> Seq(Nat)]
    BY <1>2 DEF Drops, ToSet
  <2>3. Holders' = Holders /\ Readable' = Readable
    BY <1>2 DEF Drops
  <2>4. ArenaTypes' /\ ClassKept' /\ Conserved' /\ Contents'
    BY <2>1, <2>2, <2>3 DEF ArenaInv, ArenaTypes, ClassKept, Conserved, Contents
  <2>5. OneOwner'
    BY <2>2, <2>3 DEF ArenaInv, OneOwner, Distinct
  <2>6. QED
    BY <2>4, <2>5 DEF ArenaInv
<1>3. ASSUME NEW p \in DOMAIN Headers, Takes(p) \/ Fills(p) \/ Recycles(p)
      PROVE  ArenaInv'
  BY <1>3, TakeStep, FillStep, RecycleStep
<1>4. QED
  BY <1>1, <1>2, <1>3 DEF ArenaMoves

----------------------------------------------------------------------------
\* Shutdown: the channel is closed once, a worker leaves only a closed and
\* empty channel, and the outcome appears when every worker has left.
ShutInv ==
  /\ closed <=> rpc \in {"wait", "returned"}
  /\ \A w \in Worker : wpc[w] = "exit" => closed /\ jobs = {}
  /\ rpc = "returned" => \A w \in Worker : wpc[w] = "exit"
  /\ outcome # Pending <=> rpc = "returned"

\* What the loader returns is an outcome.
LEMMA ReturnedIsOutcome ==
  ASSUME archive \in Archives, NEW o \in Returned
  PROVE  o # Pending
<1>1. \A k, at : Failure(k, at) # Pending
  BY HeaderTypes
<1>2. \A root : Published(root) # Pending
  <2> TAKE root
  <2>1. Published(root).status = "corpus" /\ Pending.status = "pending"
    BY DEF Published, Corpus, Pending
  <2>2. QED
    BY <2>1
<1>3. QED
  BY <1>1, <1>2, Zenon DEF Returned

LEMMA ShutStep ==
  ASSUME Shape, ShutInv, Next
  PROVE  ShutInv'
<1> USE DEF Shape, TypeOK, WorkerTypes, ShutInv, readerVars, channelVars, workerVars
<1>1. CASE ReaderStep
  <2>1. CASE SkipHeader BY <2>1 DEF SkipHeader, AtHeader
  <2>2. CASE RejectHeader BY <2>2 DEF RejectHeader, AtHeader
  <2>3. CASE ScanMember BY <2>3 DEF ScanMember, AtHeader
  <2>4. CASE AcquireParks BY <2>4 DEF AcquireParks
  <2>5. CASE AcquireRefused BY <2>5 DEF AcquireRefused
  <2>6. CASE AcquireGranted BY <2>6 DEF AcquireGranted
  <2>7. CASE ArenaGet BY <2>7 DEF ArenaGet
  <2>8. CASE ReadMember BY <2>8 DEF ReadMember
  <2>9. CASE SendJob BY <2>9 DEF SendJob
  <2>10. CASE PutBack BY <2>10 DEF PutBack
  <2>11. CASE GiveBack BY <2>11 DEF GiveBack
  <2>12. CASE RecordShort BY <2>12 DEF RecordShort
  <2>13. CASE EndOfArchive BY <2>13 DEF EndOfArchive
  <2>14. CASE CloseJobs BY <2>14 DEF CloseJobs
  <2>15. CASE Finish
    <3>1. outcome' \in Returned /\ rpc' = "returned" /\ rpc = "wait"
          /\ (\A w \in Worker : wpc[w] = "exit") /\ UNCHANGED <<closed, jobs, wpc>>
      BY <2>15 DEF Finish
    <3>2. outcome' # Pending
      BY <3>1, ReturnedIsOutcome
    <3>3. QED
      BY <3>1, <3>2
  <2>16. QED
    BY <1>1, <2>1, <2>2, <2>3, <2>4, <2>5, <2>6, <2>7, <2>8, <2>9, <2>10, <2>11, <2>12,
       <2>13, <2>14, <2>15 DEF ReaderStep
<1>2. ASSUME NEW w \in Worker, WorkerStep(w) PROVE ShutInv'
  <2>1. UNCHANGED <<rpc, closed, outcome>> /\ wpc[w] # "exit" /\ jobs' \subseteq jobs
    BY <1>2 DEF WorkerStep, ReceiveJob, CheckCanceled, PrepareIndex, PreparePage, PrepareFails,
       PutBuffer, ReleaseCharge, ExitWorker
  <2>2. \E s \in WPC : wpc' = [wpc EXCEPT ![w] = s] /\ (s = "exit" => closed /\ jobs = {})
    BY <1>2 DEF WorkerStep, ReceiveJob, CheckCanceled, PrepareIndex, PreparePage, PrepareFails,
       PutBuffer, ReleaseCharge, ExitWorker, WPC
  <2>3. QED
    BY <2>1, <2>2
<1>3. CASE Done
  BY <1>3 DEF Done, vars
<1>4. QED
  BY <1>1, <1>2, <1>3 DEF Next

----------------------------------------------------------------------------
\* Sleep: a parked reader waits in acquire, for a charge that is held.

LEMMA ChargedFinite ==
  ASSUME Shape
  PROVE  IsFiniteSet(Charged) /\ IsFiniteSet(ChargedBytes)
         /\ (Cardinality(ChargedBytes) # 0 => Charged # {})
<1>1. Charged \subseteq 1..Len(Headers) /\ Len(Headers) \in Nat
  BY HeaderTypes DEF Shape, TypeOK, ReaderTypes, WorkerTypes, Charged, Range
<1>2. IsFiniteSet(Charged)
  BY <1>1, SegmentSize, FS_Subset
<1>3. IsFiniteSet(1..MaxMember)
  BY SegmentSize, BufferClassAssumption
<1>4. IsFiniteSet(Charged \X (1..MaxMember))
  BY <1>2, <1>3, FS_Product
<1>5. ChargedBytes \subseteq Charged \X (1..MaxMember)
  <2>1. Charged \subseteq DOMAIN Headers
    BY <1>1, HeaderTypes DEF Shape, TypeOK
  <2>2. \A p \in Charged : Charge(p) \in Nat /\ Charge(p) <= MaxMember
    BY <2>1, ChargeType DEF Shape, Admitted
  <2>3. \A p \in Charged : (1..Charge(p)) \subseteq 1..MaxMember
    BY <2>2, BufferClassAssumption
  <2>4. ChargedBytes = UNION {{p} \X (1..Charge(p)) : p \in Charged}
    BY <2>1 DEF ChargedBytes, ByteTokens
  <2>5. QED
    BY <2>3, <2>4
<1>6. IsFiniteSet(ChargedBytes)
  BY <1>4, <1>5, FS_Subset
<1>7. Charged = {} => ChargedBytes = {}
  BY DEF ChargedBytes, ByteTokens
<1>8. QED
  BY <1>2, <1>6, <1>7, FS_EmptySet

\* A step that leaves the counter alone leaves the charges alone.
LEMMA SameCharges ==
  ASSUME Shape, Shape', Headers' = Headers, Accounts, used' = used
  PROVE  Charged' = Charged
<1>1. ASSUME NEW p \in DOMAIN Headers, Grants(p) \/ Returns(p) PROVE FALSE
  <2>1. Headers[p].size <= MaxMember
    BY <1>1 DEF Grants, Returns, Shape, Admitted
  <2>2. Charge(p) \in Nat \ {0}
    BY <2>1, ChargeType
  <2>3. used \in Int
    BY DEF Shape, TypeOK, CounterTypes
  <2>4. QED
    BY <1>1, <2>2, <2>3 DEF Grants, Returns
<1>2. QED
  BY <1>1 DEF Accounts, Keeps

LEMMA SleepStep ==
  ASSUME LoaderInv, LoaderInv', Headers' = Headers, Accounts, NoLostWakeup, Next
  PROVE  NoLostWakeup'
<1> USE DEF LoaderInv
<1>1. CASE AcquireParks
  <2>1. used # 0 /\ Charged # {}
    BY <1>1, ChargedFinite DEF AcquireParks, OverBudget, BudgetInv, BudgetExact
  <2>2. used' = used /\ rpc' = "acquire" /\ stopping' = FALSE
    BY <1>1 DEF AcquireParks, readerVars, LoaderInv, Shape, TypeOK, FlagTypes
  <2>3. Charged' = Charged
    BY <2>2, SameCharges
  <2>4. QED
    BY <2>1, <2>2, <2>3 DEF NoLostWakeup
<1>2. ASSUME parked', parked, UNCHANGED <<rpc, stopping, used>> PROVE NoLostWakeup'
  <2>1. Charged' = Charged
    BY <1>2, SameCharges
  <2>2. QED
    BY <1>2, <2>1 DEF NoLostWakeup
<1>3. ASSUME parked', ~AcquireParks PROVE parked /\ UNCHANGED <<rpc, stopping, used>>
  <2> USE DEF NoLostWakeup, RecordError, ReleaseBudget, readerVars, budgetVars
  <2>1. CASE ReaderStep
    BY <1>3, <2>1 DEF ReaderStep, SkipHeader, RejectHeader, ScanMember, AtHeader,
       AcquireRefused, AcquireGranted, ArenaGet, ReadMember, SendJob, PutBack, GiveBack,
       RecordShort, EndOfArchive, CloseJobs, Finish
  <2>2. ASSUME NEW w \in Worker, WorkerStep(w) PROVE parked /\ UNCHANGED <<rpc, stopping, used>>
    BY <1>3, <2>2 DEF WorkerStep, ReceiveJob, CheckCanceled, PrepareIndex, PreparePage,
       PrepareFails, PutBuffer, ReleaseCharge, ExitWorker
  <2>3. CASE Done
    BY <1>3, <2>3 DEF Done, vars
  <2>4. QED
    BY <2>1, <2>2, <2>3 DEF Next
<1>4. QED
  BY <1>1, <1>2, <1>3 DEF NoLostWakeup

----------------------------------------------------------------------------
\* The size of the arena.

\* Two members are never in flight together above the limit; one alone may be.
ShareBound == \A p, q \in Charged : p # q => used <= MaxInflightBytes

LEMMA ShareStep ==
  ASSUME Shape, Shape', BudgetInv, Headers' = Headers, Accounts, ShareBound
  PROVE  ShareBound'
<1>1. CASE Keeps
  BY <1>1 DEF Keeps, ShareBound
<1>2. ASSUME NEW p \in DOMAIN Headers, Grants(p) \/ Returns(p) PROVE ShareBound'
  <2>1. Headers[p].size <= MaxMember
    BY <1>2 DEF Grants, Returns, Shape, Admitted
  <2>2. Charge(p) \in Nat \ {0} /\ used \in Int
    BY <2>1, ChargeType DEF Shape, TypeOK, CounterTypes
  <2>3. CASE Grants(p)
    <3>1. CASE used = 0
      <4>1. Cardinality(ChargedBytes) = 0 /\ IsFiniteSet(ChargedBytes)
        BY <3>1, ChargedFinite DEF BudgetInv, BudgetExact
      <4>2. ChargedBytes = {}
        BY <4>1, FS_EmptySet
      <4>3. \A q \in Charged : <<q, 1>> \in ChargedBytes
        <5>1. TAKE q \in Charged
        <5>2. q \in DOMAIN Headers
          BY <5>1 DEF Shape, TypeOK, ReaderTypes, WorkerTypes, Charged, Range
        <5>3. Charge(q) \in Nat \ {0}
          BY <5>1, <5>2, ChargeType DEF Shape, Admitted
        <5>4. QED
          BY <5>2, <5>3 DEF ChargedBytes, ByteTokens
      <4>4. Charged' = {p}
        BY <2>3, <4>2, <4>3 DEF Grants
      <4>5. QED
        BY <4>4 DEF ShareBound
    <3>2. CASE used # 0
      <4>1. used + Charge(p) <= MaxInflightBytes
        BY <2>2, <2>3, <3>2, BudgetAssumption DEF Grants, OverBudget
      <4>2. QED
        BY <2>3, <4>1 DEF Grants, ShareBound
    <3>3. QED
      BY <3>1, <3>2
  <2>4. CASE Returns(p)
    BY <2>2, <2>4, BudgetAssumption DEF Returns, ShareBound
  <2>5. QED
    BY <1>2, <2>3, <2>4
<1>3. QED
  BY <1>1, <1>2 DEF Accounts

\* Equal charges: members of one class that are charged fit in the counter.
LEMMA ClassFits ==
  ASSUME Shape, BudgetExact, NEW c \in Nat, NEW S \in SUBSET Charged,
         \A p \in S : Charge(p) = c
  PROVE  /\ IsFiniteSet(S) /\ Cardinality(S) \in Nat
         /\ Cardinality(S) * c <= used
<1>1. IsFiniteSet(S) /\ IsFiniteSet(ChargedBytes)
  BY ChargedFinite, FS_Subset
<1>2. IsFiniteSet(1..c) /\ Cardinality(1..c) = c
  BY SegmentSize
<1>3. IsFiniteSet(S \X (1..c)) /\ Cardinality(S \X (1..c)) = Cardinality(S) * c
  BY <1>1, <1>2, FS_Product
<1>4. S \X (1..c) \subseteq ChargedBytes
  <2>1. S \subseteq DOMAIN Headers
    BY DEF Shape, TypeOK, ReaderTypes, WorkerTypes, Charged, Range
  <2>2. QED
    BY <2>1 DEF ChargedBytes, ByteTokens
<1>5. Cardinality(S \X (1..c)) <= Cardinality(ChargedBytes)
  BY <1>1, <1>4, FS_Subset
<1>6. QED
  BY <1>1, <1>3, <1>5, FS_CardinalityType DEF BudgetExact

Made(c) == {b \in DOMAIN heap : heap[b].class = c}

\* When the list of a class is empty every buffer of the class is with a
\* member that is charged for it; one more such member has just been granted.
LEMMA NewBuffer ==
  ASSUME LoaderInv, ArenaInv, ShareBound, NEW p \in Charged \ Holders, rpc # "returned",
         Charge(p) \in BufferClass, free[Charge(p)] = << >>
  PROVE  /\ IsFiniteSet(Made(Charge(p)))
         /\ Cardinality(Made(Charge(p))) \in Nat
         /\ Cardinality(Made(Charge(p))) > 0
              => Charge(p) * (Cardinality(Made(Charge(p))) + 1) <= MaxInflightBytes
<1> DEFINE c == Charge(p)
           H == {q \in Holders : Charge(q) = c}
           m == Cardinality(Made(c))
           h == Cardinality(H)
<1>1. Shape /\ BudgetExact /\ c \in Nat \ {0}
  BY BufferClassAssumption DEF LoaderInv, BudgetInv
<1>2. H \subseteq Charged /\ p \notin H /\ p \in Charged
  BY <1>1, HoldersCharged
<1>3. /\ IsFiniteSet(H) /\ IsFiniteSet(H \cup {p})
      /\ Cardinality(H \cup {p}) = h + 1 /\ h \in Nat
  <2>1. IsFiniteSet(H)
    BY <1>1, <1>2, ChargedFinite, FS_Subset
  <2>2. QED
    BY <1>2, <2>1, FS_AddElement, FS_CardinalityType
<1>4. (h + 1) * c <= used
  <2>1. (H \cup {p}) \in SUBSET Charged /\ \A q \in H \cup {p} : Charge(q) = c
    BY <1>2
  <2>2. Cardinality(H \cup {p}) * c <= used
    <3> HIDE DEF H, c
    <3>1. QED
      BY <1>1, <2>1, ClassFits
  <2>3. QED
    BY <1>3, <2>2
<1>5. Made(c) \subseteq {buf[q] : q \in H}
  <2> SUFFICES ASSUME NEW b \in DOMAIN heap, heap[b].class = c
               PROVE  \E q \in H : buf[q] = b
    BY DEF Made
  <2>1. b \notin ToSet(free[heap[b].class])
    BY DEF ToSet
  <2>2. PICK q \in Holders : buf[q] = b
    BY <2>1 DEF ArenaInv, Conserved
  <2>3. Charge(q) = c
    BY <2>2 DEF ArenaInv, ClassKept
  <2>4. QED
    BY <2>2, <2>3
<1>6. IsFiniteSet(Made(c)) /\ m \in Nat /\ m <= h
  <2> DEFINE f == [q \in H |-> buf[q]]
             R == {buf[q] : q \in H}
  <2>1. f \in Surjection(H, R)
    BY DEF Surjection
  <2>2. IsFiniteSet(R) /\ Cardinality(R) <= h
    BY <1>3, <2>1, FS_Surjection
  <2>3. IsFiniteSet(Made(c)) /\ m <= Cardinality(R)
    <3>1. Made(c) \subseteq R
      BY <1>5
    <3> HIDE DEF R, c
    <3>2. QED
      BY <2>2, <3>1, FS_Subset
  <2>4. m \in Nat /\ Cardinality(R) \in Nat
    BY <2>2, <2>3, FS_CardinalityType
  <2>5. QED
    BY <1>3, <2>2, <2>3, <2>4
<1>7. ASSUME m > 0 PROVE c * (m + 1) <= MaxInflightBytes
  <2>1. H # {}
    BY <1>3, <1>6, <1>7, FS_EmptySet
  <2>2. used <= MaxInflightBytes
    BY <1>2, <2>1 DEF ShareBound
  <2>3. c * (m + 1) <= c * (h + 1)
    <3>1. h - m \in Nat /\ c \in Nat
      BY <1>1, <1>3, <1>6
    <3>2. c * (h - m) >= 0
      BY <3>1
    <3>3. c * (h + 1) = c * (m + 1) + c * (h - m)
      BY <1>1, <1>3, <1>6
    <3>4. c * (h + 1) \in Int /\ c * (m + 1) \in Int /\ c * (h - m) \in Int
      BY <1>1, <1>3, <1>6
    <3>5. QED
      BY <3>2, <3>3, <3>4
  <2>4. (h + 1) * c = c * (h + 1) /\ c * (h + 1) \in Int /\ c * (m + 1) \in Int
    BY <1>1, <1>3, <1>6
  <2>5. used \in Int /\ MaxInflightBytes \in Int
    BY <1>1, BudgetAssumption DEF Shape, TypeOK, CounterTypes
  <2>6. QED
    BY <1>4, <2>2, <2>3, <2>4, <2>5
<1>8. QED
  BY <1>6, <1>7

LEMMA BoundStep ==
  ASSUME LoaderInv, ArenaInv, ShareBound, ArenaBounded, Headers' = Headers, ArenaMoves
  PROVE  ArenaBounded'
<1> USE DEF ArenaBounded
<1>1. ASSUME \A c \in BufferClass : Made(c)' = Made(c) PROVE ArenaBounded'
  BY <1>1 DEF Made
<1>2. CASE Rests \/ Drops
  BY <1>1, <1>2 DEF Rests, Drops, arenaVars, Made
<1>3. ASSUME NEW p \in DOMAIN Headers, Recycles(p) PROVE ArenaBounded'
  BY <1>1, <1>3 DEF Recycles, ArenaPut, Made
<1>4. ASSUME NEW p \in DOMAIN Headers, Fills(p) PROVE ArenaBounded'
  <2>1. heap \in Seq(Buffer) /\ buf[p] \in DOMAIN heap
    BY <1>4 DEF ArenaInv, ArenaTypes, ClassKept, Fills
  <2>2. heap' = [heap EXCEPT ![buf[p]] = [heap[buf[p]] EXCEPT !.data = p]]
    BY <1>4 DEF Fills
  <2>3. [heap[buf[p]] EXCEPT !.data = p].class = heap[buf[p]].class
    <3>1. heap[buf[p]] \in Buffer
      BY <2>1
    <3>2. QED
      BY <3>1 DEF Buffer
  <2>4. DOMAIN heap' = DOMAIN heap /\ \A b \in DOMAIN heap : heap'[b].class = heap[b].class
    BY <2>1, <2>2, <2>3
  <2>5. \A c \in BufferClass : Made(c)' = Made(c)
    BY <2>4 DEF Made
  <2>6. QED
    BY <1>1, <2>5
<1>5. ASSUME NEW p \in DOMAIN Headers, Takes(p) PROVE ArenaBounded'
  <2>1. CASE heap' = heap
    BY <1>1, <2>1 DEF Made
  <2>2. CASE heap' # heap
    <3> DEFINE c == Charge(p)
    <3>1. /\ heap' = Append(heap, [class |-> c, data |-> 0]) /\ free[c] = << >>
          /\ c \in BufferClass /\ p \in Charged \ Holders /\ rpc # "returned"
      BY <1>5, <2>2 DEF Takes
    <3>2. heap \in Seq(Buffer) /\ [class |-> c, data |-> 0] \in Buffer
      BY <3>1 DEF ArenaInv, ArenaTypes, Buffer
    <3>3. /\ DOMAIN heap' = DOMAIN heap \cup {Len(heap) + 1} /\ Len(heap) + 1 \notin DOMAIN heap
          /\ heap'[Len(heap) + 1].class = c
          /\ \A b \in DOMAIN heap : heap'[b] = heap[b]
      BY <3>1, <3>2
    <3>4. /\ IsFiniteSet(Made(c)) /\ Cardinality(Made(c)) \in Nat
          /\ Cardinality(Made(c)) > 0 => c * (Cardinality(Made(c)) + 1) <= MaxInflightBytes
      BY <3>1, NewBuffer
    <3>5. ASSUME NEW d \in BufferClass
          PROVE  Cardinality(Made(d)') > 1 => d * Cardinality(Made(d)') <= MaxInflightBytes
      <4>1. CASE d = c
        <5>1. Made(d)' = Made(d) \cup {Len(heap) + 1} /\ Len(heap) + 1 \notin Made(d)
          BY <3>3, <4>1 DEF Made
        <5>2. Cardinality(Made(d)') = Cardinality(Made(d)) + 1
          BY <3>4, <4>1, <5>1, FS_AddElement
        <5>3. QED
          BY <3>4, <4>1, <5>2
      <4>2. CASE d # c
        <5>1. Made(d)' = Made(d)
          BY <3>3, <4>2 DEF Made
        <5>2. Cardinality(Made(d)) > 1 => d * Cardinality(Made(d)) <= MaxInflightBytes
          BY DEF Made
        <5>3. QED
          BY <5>1, <5>2
      <4>3. QED BY <4>1, <4>2
    <3>6. QED
      BY <3>5 DEF Made
  <2>3. QED BY <2>1, <2>2
<1>6. QED
  BY <1>2, <1>3, <1>4, <1>5 DEF ArenaMoves

----------------------------------------------------------------------------
\* What the builder holds.

PreparedTypes == \A e \in files \cup forms \cup aliases : e.data \in DOMAIN Headers
BuilderInv == PreparedTypes /\ PreparedFaithfully

\* A worker prepares a member from that member's bytes.
LEMMA JobIsData ==
  ASSUME Shape, ArenaInv, NEW w \in Worker, wpc[w] \in {"check", "prepare"}
  PROVE  JobData(w) = wjob[w] /\ wjob[w] \in DOMAIN Headers
  BY DEF Shape, TypeOK, WorkerTypes, ArenaInv, Contents, Readable, JobData

LEMMA BuilderStep ==
  ASSUME Shape, ArenaInv, Headers' = Headers, BuilderInv, Next
  PROVE  BuilderInv'
<1> DEFINE Entry(w) == [name |-> JobName(w), data |-> JobData(w)]
<1>1. CASE UNCHANGED builderVars
  BY <1>1 DEF BuilderInv, PreparedTypes, PreparedFaithfully, builderVars
<1>2. ASSUME NEW w \in Worker, PrepareIndex(w) \/ PreparePage(w) PROVE BuilderInv'
  <2>1. /\ Entry(w).data \in DOMAIN Headers /\ Headers[Entry(w).data].name = Entry(w).name
    BY <1>2, JobIsData DEF PrepareIndex, PreparePage, JobName
  <2>2. (files \cup forms \cup aliases)' \subseteq (files \cup forms \cup aliases) \cup {Entry(w)}
    BY <1>2 DEF PrepareIndex, PreparePage, Assign
  <2>3. QED
    BY <2>1, <2>2 DEF BuilderInv, PreparedTypes, PreparedFaithfully
<1>3. ASSUME ~UNCHANGED builderVars
      PROVE  \E w \in Worker : PrepareIndex(w) \/ PreparePage(w)
  <2>1. ~ReaderStep /\ ~Done
    BY <1>3, Zenon DEF ReaderStep, Done, vars, SkipHeader, RejectHeader, ScanMember, AcquireParks,
       AcquireRefused, AcquireGranted, ArenaGet, ReadMember, SendJob, PutBack, GiveBack,
       RecordShort, EndOfArchive, CloseJobs, Finish
  <2>2. PICK w \in Worker : WorkerStep(w)
    BY <2>1 DEF Next
  <2>3. QED
    BY <1>3, <2>2, Zenon DEF WorkerStep, ReceiveJob, CheckCanceled, PrepareFails, PutBuffer,
       ReleaseCharge, ExitWorker
<1>4. QED
  BY <1>1, <1>2, <1>3

----------------------------------------------------------------------------
\* The invariant of the whole loader.

ResourceInv ==
  /\ LoaderInv /\ ArenaInv /\ ShutInv /\ ShareBound /\ BuilderInv
  /\ NoLostWakeup /\ ArenaBounded

LEMMA ResourceInit == Init => ResourceInv
<1> SUFFICES ASSUME Init PROVE ResourceInv
  OBVIOUS
<1>1. LoaderInv /\ ArenaInv
  BY LoaderInit, ArenaInit
<1>2. ShutInv
  BY WorkerAssumption DEF Init, ShutInv
<1>3. Charged = {}
  BY DEF Init, Charged, Range
<1>4. ShareBound /\ BuilderInv /\ NoLostWakeup
  BY <1>3 DEF Init, ShareBound, BuilderInv, PreparedTypes, PreparedFaithfully, NoLostWakeup
<1>5. ArenaBounded
  <2>1. \A c \in BufferClass : {b \in DOMAIN heap : heap[b].class = c} = {}
    BY DEF Init
  <2>2. QED
    BY <2>1, FS_EmptySet DEF ArenaBounded
<1>6. QED
  BY <1>1, <1>2, <1>4, <1>5 DEF ResourceInv

LEMMA ResourceStep == ResourceInv /\ [Next]_vars => ResourceInv'
<1>1. ASSUME ResourceInv, Next PROVE ResourceInv'
  <2>1. LoaderInv /\ LoaderInv' /\ Shape /\ Shape'
    BY <1>1, LoaderStep DEF ResourceInv, LoaderInv
  <2>2. Accounts /\ Headers' = Headers
    BY <1>1, LoaderEffect DEF ResourceInv
  <2>3. CASE Done
    BY <1>1, <2>1, <2>3 DEF Done, vars, ResourceInv, ArenaInv, ArenaTypes, ClassKept, OneOwner,
       Conserved, Contents, ShutInv, ShareBound, BuilderInv, PreparedTypes, PreparedFaithfully,
       NoLostWakeup, ArenaBounded, Holders, Readable, Charged, Charge, Headers, readerVars,
       channelVars, workerVars, budgetVars, arenaVars, builderVars
  <2>4. CASE ~Done
    <3>1. ArenaMoves
      <4>1. CASE ReaderStep
        BY <2>1, <4>1, ReaderArena
      <4>2. ASSUME NEW w \in Worker, WorkerStep(w) PROVE ArenaMoves
        <5>1. wpc[w] # "exit"
          BY <4>2 DEF WorkerStep, ReceiveJob, CheckCanceled, PrepareIndex, PreparePage, PrepareFails,
             PutBuffer, ReleaseCharge, ExitWorker
        <5>2. rpc # "returned"
          BY <1>1, <5>1 DEF ResourceInv, ShutInv
        <5>3. QED
          BY <2>1, <4>2, <5>2, WorkerArena
      <4>3. QED
        BY <1>1, <2>4, <4>1, <4>2 DEF Next
    <3>2. ArenaInv'
      BY <1>1, <2>1, <2>2, <3>1, ArenaStep DEF ResourceInv
    <3>3. ShutInv' /\ BuilderInv'
      BY <1>1, <2>1, <2>2, ShutStep, BuilderStep DEF ResourceInv
    <3>4. ShareBound'
      BY <1>1, <2>1, <2>2, ShareStep DEF ResourceInv, LoaderInv
    <3>5. NoLostWakeup'
      BY <1>1, <2>1, <2>2, SleepStep DEF ResourceInv
    <3>6. ArenaBounded'
      BY <1>1, <2>2, <3>1, BoundStep DEF ResourceInv
    <3>7. QED
      BY <2>1, <3>2, <3>3, <3>4, <3>5, <3>6 DEF ResourceInv
  <2>5. QED
    BY <2>3, <2>4
<1>2. ASSUME ResourceInv, UNCHANGED vars PROVE ResourceInv'
  <2>1. LoaderInv'
    BY <1>2, LoaderStep DEF ResourceInv
  <2>2. QED
    BY <1>2, <2>1 DEF vars, ResourceInv, ArenaInv, ArenaTypes, ClassKept, OneOwner,
       Conserved, Contents, ShutInv, ShareBound, BuilderInv, PreparedTypes, PreparedFaithfully,
       NoLostWakeup, ArenaBounded, Holders, Readable, Charged, Charge, Headers, readerVars,
       channelVars, workerVars, budgetVars, arenaVars, builderVars
<1>3. QED
  BY <1>1, <1>2

LEMMA ResourceInvariant == Spec => []ResourceInv
  BY ResourceInit, ResourceStep, PTL DEF Spec

\* A buffer has one owner, whatever the interleaving of reader and workers:
\* two live members never share one, and a free one is nobody's and free once.
THEOREM BuffersAreUnshared == Spec => []BuffersUnshared
<1>1. ResourceInv => BuffersUnshared
  BY DEF ResourceInv, ArenaInv, OneOwner, Distinct, BuffersUnshared
<1>2. QED
  BY <1>1, ResourceInvariant, PTL

\* The arena grows no further than the budget, though a buffer is recycled
\* before the charge for it is released.
THEOREM ArenaIsBounded == Spec => []ArenaBounded
<1>1. ResourceInv => ArenaBounded
  BY DEF ResourceInv
<1>2. QED
  BY <1>1, ResourceInvariant, PTL

\* Nothing is prepared from another member's bytes.
THEOREM PreparedIsFaithful == Spec => []PreparedFaithfully
<1>1. ResourceInv => PreparedFaithfully
  BY DEF ResourceInv, BuilderInv
<1>2. QED
  BY <1>1, ResourceInvariant, PTL

\* The reader never sleeps with nothing left to wake it.
THEOREM NoWakeupIsLost == Spec => []NoLostWakeup
<1>1. ResourceInv => NoLostWakeup
  BY DEF ResourceInv
<1>2. QED
  BY <1>1, ResourceInvariant, PTL

\* A load that returns, with a corpus or an error, has drained the channel,
\* let every worker go and given back every charge.
THEOREM ReturnsClean == Spec => []CleanReturn
<1>1. ASSUME ResourceInv PROVE CleanReturn
  <2> SUFFICES ASSUME outcome # Pending
               PROVE  jobs = {} /\ used = 0 /\ \A w \in Worker : wpc[w] = "exit"
    BY DEF CleanReturn
  <2>1. rpc = "returned" /\ jobs = {} /\ \A w \in Worker : wpc[w] = "exit"
    BY <1>1, WorkerAssumption DEF ResourceInv, ShutInv
  <2>2. \A w \in Worker : wjob[w] = 0
    BY <1>1, <2>1 DEF ResourceInv, LoaderInv, Shape, TypeOK, WorkerTypes
  <2>3. Charged = {}
    BY <1>1, <2>1, <2>2 DEF Charged, Range, ResourceInv, LoaderInv, Shape, TypeOK, WorkerTypes
  <2>4. ChargedBytes = {}
    BY <2>3 DEF ChargedBytes, ByteTokens
  <2>5. QED
    BY <1>1, <2>1, <2>4, FS_EmptySet DEF ResourceInv, LoaderInv, BudgetInv, BudgetExact
<1>2. QED
  BY <1>1, ResourceInvariant, PTL

----------------------------------------------------------------------------
(* The refinement.  Whatever the interleaving, the corpus the loader       *)
(* returns is the one the archive determines, and an error it returns      *)
(* names a defect the archive has.                                         *)
\* The invariant.

InMember == {"acquire", "get", "fill", "send", "putback", "giveback", "short"}

\* The headers behind the reader, with the one it is working on.
Passed == {p \in DOMAIN Headers : p < pos \/ (p = pos /\ rpc \in InMember)}
XMLPassed == {p \in Passed : Headers[p].kind = "xml"}
Sizes == [p \in DOMAIN Headers |-> Headers[p].size]

\* The reader has met no defect, but perhaps in the member it is reading.
NoDefectYet ==
  /\ \A p \in DOMAIN Headers : p < pos => HeaderDefects(archive, p) = {}
  /\ rpc \in InMember => /\ Headers[pos].kind = "xml"
                         /\ Hinted(archive.hint, Headers[pos].name)
                         /\ HeaderDefects(archive, pos) \subseteq {"short"}
  /\ rpc = "send" => ~Headers[pos].short
  /\ rpc \in {"putback", "giveback", "short"} => Headers[pos].short
  /\ rpc \in {"close", "wait", "returned"} => pos \notin DOMAIN Headers

\* The reader's sums are those of the headers it has passed.
SumsOfPassed ==
  /\ total = Cardinality(ByteTokens(XMLPassed, Sizes))
  /\ seen = {Headers[p].name : p \in XMLPassed}
  /\ roots = {Front(Headers[p].name) : p \in {q \in XMLPassed : IsIndex(archive, q)}}
  /\ json = {Headers[p].kind : p \in Passed} \cap {"features", "instructions"}

\* The members sent, and those a worker has prepared by now.
Sent == {p \in DOMAIN Headers : /\ p < pos /\ Headers[p].kind = "xml"
                                /\ Hinted(archive.hint, Headers[p].name)}
Waiting == jobs \cup {wjob[w] : w \in {w \in Worker : wpc[w] \in {"check", "prepare"}}}
Handled == Sent \ Waiting
Handed == jobs \cup {wjob[w] : w \in {w \in Worker : wjob[w] # 0}}

IsForm(p) == ~IsIndex(archive, p) /\ Headers[p].page \in {"iform", "alias"}
IsAlias(p) == ~IsIndex(archive, p) /\ Headers[p].page = "alias"

\* The builder holds what those members are, and none of them is malformed.
BuiltFromHandled ==
  /\ Handed \subseteq Sent
  /\ \A p \in Handled : IsIndex(archive, p) \/ Headers[p].page # "malformed"
  /\ files = Entries(archive, {p \in Handled : IsIndex(archive, p)})
  /\ forms = Entries(archive, {p \in Handled : IsForm(p)})
  /\ aliases = Entries(archive, {p \in Handled : IsAlias(p)})

Progress == NoDefectYet /\ SumsOfPassed /\ BuiltFromHandled

\* Until the first error the loader has read and built exactly a part of the
\* archive; the first error is one the archive has.
LoadInv ==
  /\ firstErr = Pending => Progress
  /\ firstErr # Pending => firstErr \in ReadErrors(archive)

----------------------------------------------------------------------------
\* Headers and their defects.

\* The headers of a well-formed archive have the kinds and pages listed.
LEMMA HeaderFields ==
  ASSUME archive \in Archives, NEW p \in DOMAIN Headers
  PROVE  /\ Headers[p].kind \in Kind /\ Headers[p].page \in Page
         /\ Headers[p].short \in BOOLEAN /\ Headers[p].size \in Nat
  BY HeaderTypes DEF Header

\* A passed header's bytes are counted once.
LEMMA BytesPlus ==
  ASSUME archive \in Archives, NEW S \in SUBSET DOMAIN Headers, NEW p \in DOMAIN Headers \ S
  PROVE  Cardinality(ByteTokens(S \cup {p}, Sizes))
           = Cardinality(ByteTokens(S, Sizes)) + Headers[p].size
<1>1. Len(Headers) \in Nat /\ DOMAIN Headers = 1..Len(Headers)
      /\ \A q \in DOMAIN Headers : Headers[q].size \in Nat
  BY HeaderTypes
<1>2. Sizes \in [1..Len(Headers) -> Nat] /\ Sizes[p] = Headers[p].size
  BY <1>1 DEF Sizes
<1>3. QED
  BY <1>1, <1>2, AddTokens

\* When no earlier header has a defect, one found at the reader is the first.
LEMMA FirstDefect ==
  ASSUME pos \in DOMAIN Headers, DOMAIN Headers \subseteq Nat,
         \A p \in DOMAIN Headers : p < pos => HeaderDefects(archive, p) = {},
         NEW k \in HeaderDefects(archive, pos)
  PROVE  Failure(k, pos) \in ReadErrors(archive)
<1>1. pos \in Defective(archive) /\ \A q \in Defective(archive) : pos <= q
  BY DEF Defective, Headers
<1>2. Failure(k, pos) \in {Failure(j, pos) : j \in HeaderDefects(archive, pos)}
  OBVIOUS
<1>3. pos \in {p \in Defective(archive) : \A q \in Defective(archive) : p <= q}
  BY <1>1
<1>4. QED
  BY <1>2, <1>3, Zenon DEF ReadErrors

\* The bytes the reader has counted at a header are those before it.
LEMMA ReaderSums ==
  ASSUME Shape, SumsOfPassed, rpc = "next", pos \in DOMAIN Headers
  PROVE  /\ XMLPassed = XMLBefore(archive, pos) /\ total = BytesRead(archive, pos)
         /\ total \in Nat
         /\ \A x : x \in seen <=> \E q \in XMLBefore(archive, pos) : Headers[q].name = x
<1>1. XMLPassed = XMLBefore(archive, pos)
  BY DEF XMLPassed, Passed, XMLBefore, Headers, InMember
<1>2. Sizes = [q \in DOMAIN archive.headers |-> archive.headers[q].size]
  BY DEF Sizes, Headers
<1>3. total = BytesRead(archive, pos)
  BY <1>1, <1>2 DEF SumsOfPassed, BytesRead
<1>4. QED
  BY <1>1, <1>3 DEF SumsOfPassed, Shape, TypeOK, ReaderTypes

\* A header the scan rejects has the defect it is rejected for, and one it
\* accepts has none, but perhaps a truncated content.
LEMMA ScanFindsDefect ==
  ASSUME Shape, SumsOfPassed, AtHeader
  PROVE  /\ ScanError(Headers[pos]) # "none"
              => ScanError(Headers[pos]) \in HeaderDefects(archive, pos)
         /\ ScanError(Headers[pos]) = "none" =>
              /\ HeaderDefects(archive, pos) \subseteq {"short"}
              /\ "short" \in HeaderDefects(archive, pos)
                   => /\ Headers[pos].kind = "xml" /\ Headers[pos].short
                      /\ Hinted(archive.hint, Headers[pos].name)
<1> DEFINE h == Headers[pos]
<1>1. /\ h = archive.headers[pos] /\ h.size \in Nat /\ total \in Nat
      /\ MaxMember \in Nat /\ MaxTotal \in Nat
      /\ total = BytesRead(archive, pos)
      /\ h.name \in seen <=> \E q \in XMLBefore(archive, pos) : archive.headers[q].name = h.name
  BY HeaderTypes, ReaderSums, BufferClassAssumption, LimitAssumption
     DEF AtHeader, Headers, Shape, TypeOK
<1> HIDE DEF h
<1>2. CASE h.kind # "xml"
  BY <1>1, <1>2 DEF ScanError, HeaderDefects, h
<1>3. CASE h.kind = "xml"
  <2>1. /\ "size" \in HeaderDefects(archive, pos) <=> h.size > MaxMember
        /\ "total" \in HeaderDefects(archive, pos) <=>
             h.size <= MaxMember /\ total + h.size > MaxTotal
        /\ "duplicate" \in HeaderDefects(archive, pos) <=> h.name \in seen
        /\ "short" \in HeaderDefects(archive, pos) <=> h.short /\ Hinted(archive.hint, h.name)
        /\ HeaderDefects(archive, pos) \subseteq {"size", "total", "duplicate", "short"}
    BY <1>1, <1>3 DEF HeaderDefects
  <2>2. ScanError(h) = IF h.size > MaxMember THEN "size"
                       ELSE IF total + h.size > MaxTotal THEN "total"
                       ELSE IF h.name \in seen THEN "duplicate" ELSE "none"
    BY <1>3 DEF ScanError
  <2>3. QED
    BY <1>1, <1>3, <2>1, <2>2 DEF h
<1>4. QED
  BY <1>2, <1>3

----------------------------------------------------------------------------
\* The reader's steps before the first error.

Calm == firstErr = Pending /\ firstErr' = Pending

LEMMA InitHolds == Init => LoadInv
<1> SUFFICES ASSUME Init PROVE LoadInv
  OBVIOUS
<1>1. Passed = {} /\ XMLPassed = {} /\ Handled = {} /\ Handed = {}
  <2>1. DOMAIN Headers \subseteq Nat \ {0}
    BY HeaderTypes DEF Init
  <2>2. QED
    BY <2>1 DEF Init, Passed, XMLPassed, Sent, Handled, Handed, InMember
<1>2. NoDefectYet
  BY HeaderTypes DEF Init, NoDefectYet, InMember
<1>3. SumsOfPassed
  <2>1. ByteTokens({}, Sizes) = {}
    BY DEF ByteTokens
  <2>2. QED
    BY <1>1, <2>1, FS_EmptySet DEF Init, SumsOfPassed
<1>4. BuiltFromHandled
  BY <1>1 DEF Init, BuiltFromHandled, Entries
<1>5. QED
  BY <1>2, <1>3, <1>4 DEF Init, LoadInv, Progress

\* The reader passes a header that is no XML member.
LEMMA SkipReads ==
  ASSUME Shape, NoDefectYet, SumsOfPassed, SkipHeader
  PROVE  NoDefectYet' /\ SumsOfPassed' /\ Sent' = Sent
<1>1. /\ archive' = archive /\ Headers' = Headers /\ rpc = "next" /\ rpc' = "next"
      /\ pos \in DOMAIN Headers /\ pos' = pos + 1
      /\ Headers[pos].kind \in {"other", "features", "instructions"}
      /\ json' = json \cup ({Headers[pos].kind} \ {"other"})
      /\ UNCHANGED <<total, seen, roots>>
  BY DEF SkipHeader, AtHeader, Headers
<1>2. DOMAIN Headers \subseteq Nat
  BY HeaderTypes DEF Shape, TypeOK
<1>3. \A p \in DOMAIN Headers : p < pos + 1 <=> (p < pos \/ p = pos)
  BY <1>1, <1>2
<1>4. HeaderDefects(archive, pos) = {}
  BY <1>1 DEF HeaderDefects, Headers
<1>5. NoDefectYet'
  BY <1>1, <1>3, <1>4 DEF NoDefectYet, InMember
<1>6. Passed' = Passed \cup {pos} /\ XMLPassed' = XMLPassed /\ Sent' = Sent
  BY <1>1, <1>3 DEF Passed, XMLPassed, Sent, InMember
<1>7. Sizes' = Sizes
  BY <1>1 DEF Sizes
<1>8. SumsOfPassed'
  BY <1>1, <1>6, <1>7 DEF SumsOfPassed, IsIndex, Headers
<1>9. QED
  BY <1>5, <1>6, <1>8

\* The reader counts a sound XML member, which it then reads if it is below
\* the hinted root.
LEMMA ScanReads ==
  ASSUME Shape, NoDefectYet, SumsOfPassed, ScanMember
  PROVE  NoDefectYet' /\ SumsOfPassed' /\ Sent' = Sent
<1> DEFINE h == Headers[pos]
           in == Hinted(archive.hint, h.name)
<1>1. /\ archive' = archive /\ Headers' = Headers /\ rpc = "next" /\ AtHeader
      /\ pos \in DOMAIN Headers /\ h.kind = "xml" /\ ScanError(h) = "none"
      /\ total' = total + h.size /\ seen' = seen \cup {h.name}
      /\ roots' = IF IsEncodingIndex(h.name) THEN roots \cup {Front(h.name)} ELSE roots
      /\ json' = json
      /\ in => rpc' = "acquire" /\ pos' = pos
      /\ ~in => rpc' = "next" /\ pos' = pos + 1
  BY DEF ScanMember, AtHeader, Headers
<1>2. DOMAIN Headers \subseteq Nat /\ archive \in Archives
  BY HeaderTypes DEF Shape, TypeOK
<1>3. \A p \in DOMAIN Headers : p < pos + 1 <=> (p < pos \/ p = pos)
  BY <1>1, <1>2
<1>4. /\ HeaderDefects(archive, pos) \subseteq {"short"}
      /\ "short" \in HeaderDefects(archive, pos) => in
  BY <1>1, ScanFindsDefect
<1>5. NoDefectYet'
  <2>1. CASE in
    BY <1>1, <1>4, <2>1 DEF NoDefectYet, InMember
  <2>2. CASE ~in
    <3>1. HeaderDefects(archive, pos) = {}
      BY <1>4, <2>2
    <3>2. QED
      BY <1>1, <1>3, <2>2, <3>1 DEF NoDefectYet, InMember
  <2>3. QED BY <2>1, <2>2
<1>6. Passed' = Passed \cup {pos} /\ pos \notin Passed
  BY <1>1, <1>2, <1>3 DEF Passed, InMember
<1>7. XMLPassed' = XMLPassed \cup {pos} /\ pos \notin XMLPassed /\ XMLPassed \subseteq DOMAIN Headers
  BY <1>1, <1>6 DEF XMLPassed, Passed
<1>8. Sizes' = Sizes
  BY <1>1 DEF Sizes
<1>9. SumsOfPassed'
  <2>1. total' = Cardinality(ByteTokens(XMLPassed', Sizes'))
    BY <1>1, <1>2, <1>7, <1>8, BytesPlus DEF SumsOfPassed
  <2>2. seen' = {Headers'[p].name : p \in XMLPassed'}
    BY <1>1, <1>7 DEF SumsOfPassed
  <2>3. roots' = {Front(Headers'[p].name) : p \in {q \in XMLPassed' : IsIndex(archive', q)}}
    <3>1. \A q : IsIndex(archive', q) <=> IsEncodingIndex(Headers[q].name)
      BY <1>1 DEF IsIndex, Headers
    <3>2. roots = {Front(Headers[p].name) : p \in {q \in XMLPassed : IsEncodingIndex(Headers[q].name)}}
      BY <3>1, <1>1 DEF SumsOfPassed, IsIndex, Headers
    <3>3. QED
      BY <1>1, <1>7, <3>1, <3>2
  <2>4. json' = {Headers'[p].kind : p \in Passed'} \cap {"features", "instructions"}
    BY <1>1, <1>6 DEF SumsOfPassed
  <2>5. QED
    BY <2>1, <2>2, <2>3, <2>4 DEF SumsOfPassed
<1>10. Sent' = Sent
  BY <1>1, <1>3 DEF Sent
<1>11. QED
  BY <1>5, <1>9, <1>10

\* The reader works on a member, or ends at the end of the archive.
LEMMA StayReads ==
  ASSUME Shape, StoppedByError, Calm, NoDefectYet, SumsOfPassed,
         \/ AcquireParks \/ AcquireRefused \/ AcquireGranted \/ ArenaGet \/ ReadMember
         \/ PutBack \/ GiveBack \/ EndOfArchive \/ CloseJobs \/ Finish
  PROVE  NoDefectYet' /\ SumsOfPassed' /\ Sent' = Sent
<1>1. /\ UNCHANGED <<archive, pos, seen, roots, total, json>>
      /\ \/ rpc \in InMember /\ rpc' \in InMember
            /\ (rpc' = "send" => ~Headers[pos].short)
            /\ (rpc' \in {"putback", "giveback", "short"} => Headers[pos].short)
         \/ rpc \notin InMember /\ rpc' \in {"close", "wait", "returned"} /\ pos \notin DOMAIN Headers
  <2> USE DEF readerVars, InMember, NoDefectYet
  <2>1. CASE AcquireParks BY <2>1 DEF AcquireParks
  <2>2. CASE AcquireRefused
    BY <2>2 DEF AcquireRefused, StoppedByError, Calm
  <2>3. CASE AcquireGranted BY <2>3 DEF AcquireGranted
  <2>4. CASE ArenaGet BY <2>4 DEF ArenaGet
  <2>5. CASE ReadMember
    <3>1. pos \in DOMAIN Headers
      BY <2>5 DEF ReadMember, Shape, TypeOK, ReaderTypes
    <3>2. Headers[pos].short \in BOOLEAN
      BY <3>1, HeaderFields DEF Shape, TypeOK
    <3>3. QED
      BY <2>5, <3>2 DEF ReadMember
  <2>6. CASE PutBack BY <2>6 DEF PutBack
  <2>7. CASE GiveBack BY <2>7 DEF GiveBack
  <2>8. CASE EndOfArchive BY <2>8 DEF EndOfArchive
  <2>9. CASE CloseJobs BY <2>9 DEF CloseJobs
  <2>10. CASE Finish BY <2>10 DEF Finish
  <2>11. QED
    BY <2>1, <2>2, <2>3, <2>4, <2>5, <2>6, <2>7, <2>8, <2>9, <2>10
<1>2. Headers' = Headers /\ Sizes' = Sizes /\ Sent' = Sent
  BY <1>1 DEF Headers, Sizes, Sent
<1>3. Passed' = Passed /\ XMLPassed' = XMLPassed
  BY <1>1, <1>2 DEF Passed, XMLPassed, InMember
<1>4. SumsOfPassed'
  BY <1>1, <1>2, <1>3 DEF SumsOfPassed
<1>5. NoDefectYet'
  BY <1>1, <1>2 DEF NoDefectYet, InMember
<1>6. QED
  BY <1>2, <1>4, <1>5

\* The reader sends a member it has read in full: it has no defect.
LEMMA SendReads ==
  ASSUME Shape, NoDefectYet, SumsOfPassed, SendJob
  PROVE  NoDefectYet' /\ SumsOfPassed' /\ Sent' = Sent \cup {pos} /\ pos \notin Sent
<1>1. /\ UNCHANGED <<archive, seen, roots, total, json>> /\ Headers' = Headers /\ rpc = "send"
      /\ rpc' = "next" /\ pos \in DOMAIN Headers /\ pos' = pos + 1
  BY DEF SendJob, Shape, TypeOK, ReaderTypes, Headers
<1>2. DOMAIN Headers \subseteq Nat
  BY HeaderTypes DEF Shape, TypeOK
<1>3. \A p \in DOMAIN Headers : p < pos + 1 <=> (p < pos \/ p = pos)
  BY <1>1, <1>2
<1>4. HeaderDefects(archive, pos) = {}
  <2>1. HeaderDefects(archive, pos) \subseteq {"short"} /\ ~archive.headers[pos].short
    BY <1>1 DEF NoDefectYet, InMember, Headers
  <2>2. "short" \notin HeaderDefects(archive, pos)
    BY <2>1 DEF HeaderDefects
  <2>3. QED
    BY <2>1, <2>2
<1>5. NoDefectYet'
  BY <1>1, <1>3, <1>4 DEF NoDefectYet, InMember
<1>6. Passed' = Passed /\ XMLPassed' = XMLPassed /\ Sizes' = Sizes
  BY <1>1, <1>3 DEF Passed, XMLPassed, InMember, Sizes
<1>7. SumsOfPassed'
  BY <1>1, <1>6 DEF SumsOfPassed, IsIndex, Headers
<1>8. Sent' = Sent \cup {pos} /\ pos \notin Sent
  BY <1>1, <1>2, <1>3 DEF Sent, NoDefectYet, InMember
<1>9. QED
  BY <1>5, <1>7, <1>8

----------------------------------------------------------------------------
\* The builder before the first error.

\* The builder's content depends on the handled members only.
LEMMA SameBuild ==
  ASSUME BuiltFromHandled, archive' = archive, Handled' = Handled, UNCHANGED builderVars,
         Handed' \subseteq Sent'
  PROVE  BuiltFromHandled'
<1>1. /\ Headers' = Headers /\ \A p : IsIndex(archive, p)' <=> IsIndex(archive, p)
      /\ \A S : Entries(archive, S)' = Entries(archive, S)
      /\ \A p : (IsForm(p)' <=> IsForm(p)) /\ (IsAlias(p)' <=> IsAlias(p))
  BY DEF Headers, IsIndex, Entries, IsForm, IsAlias
<1>2. QED
  BY <1>1 DEF BuiltFromHandled, builderVars

\* Members behind a reader that met no duplicate have different names.
LEMMA NamesDiffer ==
  ASSUME DOMAIN Headers \subseteq Nat, NoDefectYet, NEW p \in XMLBefore(archive, pos),
         NEW q \in XMLBefore(archive, pos), Headers[p].name = Headers[q].name
  PROVE  p = q
<1>1. ASSUME NEW x \in XMLBefore(archive, pos), NEW y \in XMLBefore(archive, pos), x < y
      PROVE  Headers[x].name # Headers[y].name
  <2>1. HeaderDefects(archive, y) = {} /\ archive.headers[y].kind = "xml"
    BY <1>1 DEF NoDefectYet, XMLBefore, Headers
  <2>2. "duplicate" \notin HeaderDefects(archive, y)
    BY <2>1
  <2>3. x \in XMLBefore(archive, y)
    BY <1>1 DEF XMLBefore
  <2>4. QED
    BY <2>1, <2>2, <2>3 DEF HeaderDefects, Headers
<1>2. p \in Nat /\ q \in Nat
  BY DEF XMLBefore, Headers
<1>3. QED
  BY <1>1, <1>2

\* So an assignment to the builder's maps never replaces an entry.
LEMMA AssignAdds ==
  ASSUME DOMAIN Headers \subseteq Nat, NoDefectYet, NEW S \in SUBSET Sent, NEW p \in Sent \ S
  PROVE  Assign(Entries(archive, S), Headers[p].name, p) = Entries(archive, S \cup {p})
<1>1. Sent \subseteq XMLBefore(archive, pos)
  BY DEF Sent, XMLBefore, Headers
<1>2. \A e \in Entries(archive, S) : e.name # Headers[p].name
  BY <1>1, NamesDiffer DEF Entries, Headers
<1>3. QED
  BY <1>2 DEF Assign, Entries, Headers

LEMMA ReaderBuilds ==
  ASSUME Shape, StoppedByError, Calm, Progress, ReaderStep
  PROVE  Progress'
<1> USE DEF Progress
<1>1. CASE SendJob
  <2>1. NoDefectYet' /\ SumsOfPassed' /\ Sent' = Sent \cup {pos} /\ pos \notin Sent
    BY <1>1, SendReads
  <2>2. /\ archive' = archive /\ jobs' = jobs \cup {pos} /\ wjob' = wjob /\ wpc' = wpc
        /\ UNCHANGED builderVars
    BY <1>1 DEF SendJob, workerVars
  <2>3. Handled' = Handled /\ Handed' \subseteq Sent'
    BY <2>1, <2>2 DEF Handled, Waiting, Handed, BuiltFromHandled
  <2>4. QED
    BY <2>1, <2>2, <2>3, SameBuild
<1>2. CASE ~SendJob
  <2>1. NoDefectYet' /\ SumsOfPassed' /\ Sent' = Sent
    <3>1. ~RejectHeader /\ ~RecordShort
      BY HeaderTypes DEF Calm, RejectHeader, RecordShort, RecordError, Shape, TypeOK
    <3>2. QED
      BY <1>2, <3>1, SkipReads, ScanReads, StayReads DEF ReaderStep
  <2>2. UNCHANGED <<archive, jobs, wjob, wpc, builderVars>>
    BY <1>2, Zenon DEF ReaderStep, SkipHeader, RejectHeader, ScanMember, AcquireParks,
       AcquireRefused, AcquireGranted, ArenaGet, ReadMember, PutBack, GiveBack, RecordShort,
       EndOfArchive, CloseJobs, Finish, channelVars, workerVars, builderVars
  <2>3. Handled' = Handled /\ Handed' \subseteq Sent'
    BY <2>1, <2>2 DEF Handled, Waiting, Handed, BuiltFromHandled
  <2>4. QED
    BY <2>1, <2>2, <2>3, SameBuild
<1>3. QED
  BY <1>1, <1>2

\* What no worker touches.
LEMMA WorkerReads ==
  ASSUME NoDefectYet, SumsOfPassed, NEW w \in Worker, WorkerStep(w)
  PROVE  NoDefectYet' /\ SumsOfPassed' /\ Sent' = Sent /\ archive' = archive
<1>1. UNCHANGED <<archive, readerVars>>
  BY Zenon DEF WorkerStep, ReceiveJob, CheckCanceled, PrepareIndex, PreparePage, PrepareFails,
     PutBuffer, ReleaseCharge, ExitWorker
<1>2. UNCHANGED <<archive, rpc, pos, seen, roots, total, json>>
  BY <1>1 DEF readerVars
<1>3. Headers' = Headers /\ Sizes' = Sizes /\ Passed' = Passed /\ XMLPassed' = XMLPassed /\ Sent' = Sent
  BY <1>2 DEF Headers, Sizes, Passed, XMLPassed, Sent
<1>4. QED
  BY <1>2, <1>3 DEF NoDefectYet, SumsOfPassed

\* A worker adds the member it prepares to the handled ones.
LEMMA PrepareBuilds ==
  ASSUME Shape, ArenaInv, Progress, NEW w \in Worker, PrepareIndex(w) \/ PreparePage(w)
  PROVE  BuiltFromHandled'
<1> DEFINE p == wjob[w]
<1>1. /\ JobData(w) = p /\ JobName(w) = Headers[p].name /\ p \in DOMAIN Headers
      /\ JobPage(w) = Headers[p].page
  BY JobIsData DEF PrepareIndex, PreparePage, JobName, JobPage
<1>2. /\ wpc[w] = "prepare" /\ wpc' = [wpc EXCEPT ![w] = "put"] /\ archive' = archive
      /\ UNCHANGED <<readerVars, jobs, wjob>> /\ Headers' = Headers
  BY DEF PrepareIndex, PreparePage, channelVars, Headers
<1>3. DOMAIN Headers \subseteq Nat /\ Headers[p].page \in Page
  BY <1>1, HeaderTypes, HeaderFields DEF Shape, TypeOK
<1>4. p \in Sent /\ p \notin Handled /\ p # 0 /\ Handled \subseteq Sent
  BY <1>1, <1>2 DEF Progress, BuiltFromHandled, Handed, Handled, Waiting, Shape, TypeOK, WorkerTypes
<1>5. Sent' = Sent
  BY <1>2 DEF Sent, readerVars
<1>6. Handled' = Handled \cup {p} /\ Handed' = Handed
  <2>1. Waiting' = Waiting \ {p}
    BY <1>1, <1>2, <1>4 DEF Waiting, Shape, TypeOK, WorkerTypes, Apart
  <2>2. p \in Waiting
    BY <1>2 DEF Waiting
  <2>3. QED
    BY <1>2, <1>4, <1>5, <2>1, <2>2 DEF Handled, Handed
<1>7. /\ \A q : IsIndex(archive, q)' <=> IsIndex(archive, q)
      /\ \A S : Entries(archive, S)' = Entries(archive, S)
      /\ \A q : (IsForm(q)' <=> IsForm(q)) /\ (IsAlias(q)' <=> IsAlias(q))
  BY <1>2 DEF Headers, IsIndex, Entries, IsForm, IsAlias
<1>8. IsIndex(archive, p) <=> IsEncodingIndex(JobName(w))
  BY <1>1 DEF IsIndex, Headers
<1> HIDE DEF p
<1>9. CASE PrepareIndex(w)
  <2>1. /\ IsIndex(archive, p) /\ files' = Assign(files, Headers[p].name, p)
        /\ forms' = forms /\ aliases' = aliases
    BY <1>1, <1>8, <1>9 DEF PrepareIndex
  <2>2. files' = Entries(archive, {q \in Handled : IsIndex(archive, q)} \cup {p})
    BY <1>3, <1>4, <2>1, AssignAdds DEF Progress, BuiltFromHandled
  <2>3. /\ {q \in Handled' : IsIndex(archive, q)} = {q \in Handled : IsIndex(archive, q)} \cup {p}
        /\ {q \in Handled' : IsForm(q)} = {q \in Handled : IsForm(q)}
        /\ {q \in Handled' : IsAlias(q)} = {q \in Handled : IsAlias(q)}
    BY <1>6, <2>1 DEF IsForm, IsAlias
  <2>4. QED
    BY <1>2, <1>4, <1>5, <1>6, <1>7, <2>1, <2>2, <2>3 DEF Progress, BuiltFromHandled
<1>10. CASE PreparePage(w)
  <2>1. /\ ~IsIndex(archive, p) /\ Headers[p].page # "malformed" /\ files' = files
        /\ forms' = IF Headers[p].page = "plain" THEN forms ELSE Assign(forms, Headers[p].name, p)
        /\ aliases' = IF Headers[p].page = "alias"
                      THEN aliases \cup {[name |-> Headers[p].name, data |-> p]} ELSE aliases
    BY <1>1, <1>8, <1>10 DEF PreparePage
  <2>2. {q \in Handled' : IsIndex(archive, q)} = {q \in Handled : IsIndex(archive, q)}
    BY <1>6, <2>1
  <2>3. forms' = Entries(archive, {q \in Handled' : IsForm(q)})
    <3>1. CASE IsForm(p)
      <4>1. {q \in Handled' : IsForm(q)} = {q \in Handled : IsForm(q)} \cup {p}
        BY <1>6, <3>1
      <4>2. QED
        BY <1>3, <1>4, <2>1, <3>1, <4>1, AssignAdds DEF Progress, BuiltFromHandled, IsForm
    <3>2. CASE ~IsForm(p)
      <4>1. {q \in Handled' : IsForm(q)} = {q \in Handled : IsForm(q)}
        BY <1>6, <3>2
      <4>2. QED
        BY <1>3, <2>1, <3>2, <4>1 DEF Progress, BuiltFromHandled, IsForm, Page
    <3>3. QED BY <3>1, <3>2
  <2>4. aliases' = Entries(archive, {q \in Handled' : IsAlias(q)})
    <3>1. CASE IsAlias(p)
      <4>1. {q \in Handled' : IsAlias(q)} = {q \in Handled : IsAlias(q)} \cup {p}
        BY <1>6, <3>1
      <4>2. QED
        BY <2>1, <3>1, <4>1 DEF Progress, BuiltFromHandled, IsAlias, Entries, Headers
    <3>2. CASE ~IsAlias(p)
      <4>1. {q \in Handled' : IsAlias(q)} = {q \in Handled : IsAlias(q)}
        BY <1>6, <3>2
      <4>2. QED
        BY <2>1, <3>2, <4>1 DEF Progress, BuiltFromHandled, IsAlias
    <3>3. QED BY <3>1, <3>2
  <2>5. QED
    BY <1>2, <1>4, <1>5, <1>6, <1>7, <2>1, <2>2, <2>3, <2>4 DEF Progress, BuiltFromHandled
<1>11. QED
  BY <1>9, <1>10

LEMMA WorkerBuilds ==
  ASSUME Shape, ArenaInv, StoppedByError, Calm, Progress, NEW w \in Worker, WorkerStep(w)
  PROVE  Progress'
<1>1. NoDefectYet' /\ SumsOfPassed' /\ Sent' = Sent /\ archive' = archive
  BY WorkerReads DEF Progress
<1>2. CASE PrepareIndex(w) \/ PreparePage(w)
  BY <1>1, <1>2, PrepareBuilds DEF Progress
<1>3. CASE ~(PrepareIndex(w) \/ PreparePage(w))
  <2>1. UNCHANGED builderVars
    BY <1>3, Zenon DEF WorkerStep, ReceiveJob, CheckCanceled, PrepareFails,
       PutBuffer, ReleaseCharge, ExitWorker
  <2>2. ~PrepareFails(w)
    BY HeaderTypes DEF Calm, PrepareFails, RecordError, Shape, TypeOK
  <2> USE DEF Shape, TypeOK, WorkerTypes, WPC
  <2>3. Waiting' = Waiting /\ Handed' \subseteq Handed
    <3>1. CASE ReceiveJob(w)
      <4>1. PICK p \in jobs : /\ jobs' = jobs \ {p} /\ wjob' = [wjob EXCEPT ![w] = p]
                              /\ wpc[w] = "recv" /\ wpc' = [wpc EXCEPT ![w] = "check"]
        BY <3>1 DEF ReceiveJob
      <4>2. p # 0
        <5>1. p \in DOMAIN Headers /\ DOMAIN Headers = 1..Len(Headers)
          BY <4>1, HeaderTypes
        <5>2. QED
          BY <5>1
      <4>3. QED
        BY <4>1, <4>2 DEF Waiting, Handed
    <3>2. CASE CheckCanceled(w) \/ PutBuffer(w) \/ ExitWorker(w)
      <4>1. jobs' = jobs /\ wjob' = wjob
        BY <3>2 DEF CheckCanceled, PutBuffer, ExitWorker, channelVars
      <4>2. \/ wpc[w] = "check" /\ wpc' = [wpc EXCEPT ![w] = "prepare"]
            \/ wpc[w] = "put" /\ wpc' = [wpc EXCEPT ![w] = "release"]
            \/ wpc[w] = "recv" /\ wpc' = [wpc EXCEPT ![w] = "exit"]
        BY <3>2 DEF CheckCanceled, PutBuffer, ExitWorker, StoppedByError, Calm
      <4>3. QED
        BY <4>1, <4>2 DEF Waiting, Handed
    <3>3. CASE ReleaseCharge(w)
      <4>1. /\ jobs' = jobs /\ wpc[w] = "release" /\ wjob' = [wjob EXCEPT ![w] = 0]
            /\ wpc' = [wpc EXCEPT ![w] = "recv"]
        BY <3>3 DEF ReleaseCharge, channelVars
      <4>2. QED
        BY <4>1 DEF Waiting, Handed
    <3>4. QED
      BY <1>3, <2>2, <3>1, <3>2, <3>3 DEF WorkerStep
  <2>4. Handled' = Handled /\ Handed' \subseteq Sent'
    BY <1>1, <2>3 DEF Handled, Progress, BuiltFromHandled
  <2>5. QED
    BY <1>1, <2>1, <2>4, SameBuild DEF Progress
<1>4. QED
  BY <1>2, <1>3

----------------------------------------------------------------------------
\* The first error.

LEMMA FirstError ==
  ASSUME Shape, ArenaInv, StoppedByError, firstErr = Pending, firstErr' # Pending, Progress, Next
  PROVE  firstErr' \in ReadErrors(archive)
<1>1. DOMAIN Headers \subseteq Nat
  BY HeaderTypes DEF Shape, TypeOK
<1>2. CASE RejectHeader
  <2>1. pos \in DOMAIN Headers /\ firstErr' = Failure(ScanError(Headers[pos]), pos)
    BY <1>2 DEF RejectHeader, AtHeader, RecordError
  <2>2. ScanError(Headers[pos]) \in HeaderDefects(archive, pos)
    BY <1>2, ScanFindsDefect DEF RejectHeader, Progress
  <2>3. QED
    BY <1>1, <2>1, <2>2, FirstDefect DEF Progress, NoDefectYet
<1>3. CASE RecordShort
  <2>1. /\ pos \in DOMAIN Headers /\ firstErr' = Failure("short", pos)
        /\ archive.headers[pos].kind = "xml" /\ archive.headers[pos].short
        /\ Hinted(archive.hint, archive.headers[pos].name)
    BY <1>3 DEF RecordShort, RecordError, Shape, TypeOK, ReaderTypes, Progress, NoDefectYet,
       InMember, Headers
  <2>2. "short" \in HeaderDefects(archive, pos)
    BY <2>1 DEF HeaderDefects
  <2>3. QED
    BY <1>1, <2>1, <2>2, FirstDefect DEF Progress, NoDefectYet
<1>4. ASSUME NEW w \in Worker, PrepareFails(w) PROVE firstErr' \in ReadErrors(archive)
  <2> DEFINE p == wjob[w]
  <2>1. /\ firstErr' = Failure("malformed", p) /\ p \in DOMAIN Headers
        /\ ~IsIndex(archive, p) /\ archive.headers[p].page = "malformed"
    BY <1>4, JobIsData DEF PrepareFails, RecordError, JobName, JobPage, IsIndex, Headers
  <2>2. p \in Sent
    BY <1>4, <2>1, HeaderTypes DEF PrepareFails, Shape, TypeOK, WorkerTypes, WPC, Progress,
       BuiltFromHandled, Handed
  <2>3. p \in Prepared(archive)
    <3>1. \A q \in Defective(archive) : p < q
      <4>1. TAKE q \in Defective(archive)
      <4>2. q \in DOMAIN Headers /\ HeaderDefects(archive, q) # {}
        BY <4>1 DEF Defective, Headers
      <4>3. ~(q < pos) /\ p < pos /\ p \in Nat /\ q \in Nat /\ pos \in Nat
        BY <1>1, <2>2, <4>2 DEF Progress, NoDefectYet, Sent, Shape, TypeOK, ReaderTypes
      <4>4. QED
        BY <4>3
    <3>2. QED
      BY <2>2, <3>1 DEF Prepared, Scanned, Sent, Headers
  <2>4. p \in {q \in Prepared(archive) : /\ ~IsIndex(archive, q)
                                         /\ archive.headers[q].page = "malformed"}
    BY <2>1, <2>3
  <2> DEFINE broken == {q \in Prepared(archive) : /\ ~IsIndex(archive, q)
                                                /\ archive.headers[q].page = "malformed"}
  <2>5. firstErr' \in {Failure("malformed", q) : q \in broken}
    BY <2>1, <2>4
  <2>6. {Failure("malformed", q) : q \in broken} \subseteq ReadErrors(archive)
    BY DEF ReadErrors
  <2>7. QED
    BY <2>5, <2>6
<1>5. RejectHeader \/ RecordShort \/ \E w \in Worker : PrepareFails(w)
  <2>1. ASSUME ReaderStep PROVE RejectHeader \/ RecordShort
    BY <2>1, Zenon DEF ReaderStep, SkipHeader, ScanMember, AcquireParks,
       AcquireRefused, AcquireGranted, ArenaGet, ReadMember, SendJob, PutBack, GiveBack,
       EndOfArchive, CloseJobs, Finish
  <2>2. ASSUME NEW w \in Worker, WorkerStep(w) PROVE PrepareFails(w)
    BY <2>2, Zenon DEF WorkerStep, ReceiveJob, CheckCanceled, PrepareIndex, PreparePage,
       PutBuffer, ReleaseCharge, ExitWorker
  <2>3. ~Done
    BY Zenon DEF Done, vars
  <2>4. QED
    BY <2>1, <2>2, <2>3, Zenon DEF Next
<1>6. QED
  BY <1>2, <1>3, <1>4, <1>5

LEMMA LoadStep ==
  ASSUME ResourceInv, LoadInv, Next
  PROVE  LoadInv'
<1>1. Shape /\ ArenaInv /\ StoppedByError
  BY DEF ResourceInv, LoaderInv
<1>2. archive' = archive /\ Headers' = Headers
  BY Zenon DEF Next, ReaderStep, WorkerStep, SkipHeader, RejectHeader, ScanMember, AcquireParks,
     AcquireRefused, AcquireGranted, ArenaGet, ReadMember, SendJob, PutBack, GiveBack,
     RecordShort, EndOfArchive, CloseJobs, Finish, ReceiveJob, CheckCanceled, PrepareIndex,
     PreparePage, PrepareFails, PutBuffer, ReleaseCharge, ExitWorker, Done, vars, Headers
<1>3. ReadErrors(archive)' = ReadErrors(archive)
  BY <1>2
<1>4. CASE firstErr # Pending
  <2>1. firstErr' = firstErr
    BY <1>4, Zenon DEF Next, ReaderStep, WorkerStep, SkipHeader, RejectHeader, ScanMember, AcquireParks,
       AcquireRefused, AcquireGranted, ArenaGet, ReadMember, SendJob, PutBack, GiveBack,
       RecordShort, EndOfArchive, CloseJobs, Finish, ReceiveJob, CheckCanceled, PrepareIndex,
       PreparePage, PrepareFails, PutBuffer, ReleaseCharge, ExitWorker, Done, vars, RecordError
  <2>2. QED
    BY <1>3, <1>4, <2>1 DEF LoadInv
<1>5. CASE firstErr = Pending /\ firstErr' # Pending
  BY <1>1, <1>3, <1>5, FirstError DEF LoadInv
<1>6. CASE Calm
  <2>1. Progress
    BY <1>6 DEF Calm, LoadInv
  <2>2. CASE Done
    <3>1. UNCHANGED <<readerVars, channelVars, workerVars, builderVars>>
      BY <2>2 DEF Done, vars
    <3>2. NoDefectYet' = NoDefectYet
      BY <1>2, <3>1 DEF readerVars, channelVars, workerVars, builderVars, NoDefectYet, Passed,
         Sent, Headers
    <3>3. SumsOfPassed' = SumsOfPassed
      BY <1>2, <3>1 DEF readerVars, channelVars, workerVars, builderVars, SumsOfPassed, Passed,
         XMLPassed, Sizes
    <3>4. BuiltFromHandled' = BuiltFromHandled
      BY <1>2, <3>1 DEF readerVars, channelVars, workerVars, builderVars, BuiltFromHandled, Sent,
         Waiting, Handled, Handed, IsForm, IsAlias
    <3>5. QED
      BY <1>6, <2>1, <3>2, <3>3, <3>4 DEF Progress, LoadInv, Calm
  <2>3. Progress'
    BY <1>1, <1>6, <2>1, <2>2, ReaderBuilds, WorkerBuilds DEF Next, LoadInv, Calm
  <2>4. QED
    BY <1>6, <2>3 DEF LoadInv, Calm
<1>7. QED
  BY <1>4, <1>5, <1>6 DEF Calm

----------------------------------------------------------------------------
\* The outcome.

LEMMA UnderFront ==
  ASSUME NEW name \in Seq(Component), name # << >>
  PROVE  Under(name, Front(name))
<1>1. Len(name) \in Nat \ {0}
  OBVIOUS
<1>2. /\ Front(name) \in Seq(Component) /\ Len(Front(name)) = Len(name) - 1
      /\ \A i \in 1..(Len(name) - 1) : Front(name)[i] = name[i]
  <2> DEFINE n == Len(name)
             t == Front(name)
  <2>1. n \in Nat \ {0} /\ \A i \in 1..n : name[i] \in Component
    BY <1>1
  <2>2. t \in Seq(Component) /\ DOMAIN t = 1..(n - 1) /\ \A i \in 1..(n - 1) : t[i] = name[i]
    BY <2>1 DEF Front
  <2> HIDE DEF t
  <2>3. Len(t) = n - 1
    BY <2>1, <2>2
  <2>4. QED
    BY <2>2, <2>3 DEF t
<1>3. SubSeq(Front(name), 1, Len(Front(name))) = SubSeq(name, 1, Len(Front(name)))
  BY <1>1, <1>2
<1>4. QED
  BY <1>1, <1>2, <1>3 DEF Under, IsStrictPrefix, IsPrefix

LEMMA SelectedIsRoot ==
  ASSUME NEW R, NEW g, NEW r \in SelectCorpusRoot(R, g)
  PROVE  r \in R /\ (g # NoHint => r = <<g>>)
  BY DEF SelectCorpusRoot

\* Only the entries below the root count.
LEMMA RelativeBelow ==
  ASSUME NEW root, NEW S, NEW T, T = {p \in S : Under(archive.headers[p].name, root)}
  PROVE  Relative(Entries(archive, S), root) = Relative(Entries(archive, T), root)
<1>1. {e \in Entries(archive, S) : Under(e.name, root)} = {e \in Entries(archive, T) : Under(e.name, root)}
  BY DEF Entries
<1>2. QED
  BY <1>1, Zenon DEF Relative

\* And re-keying keeps them apart, since no two hold the same member.
LEMMA RelativeCount ==
  ASSUME NEW root, NEW T, IsFiniteSet(T), \A p \in T : Under(archive.headers[p].name, root)
  PROVE  Cardinality(Relative(Entries(archive, T), root)) = Cardinality(T)
<1> DEFINE entry(p) == [name |-> archive.headers[p].name, data |-> p]
           key(e) == [e EXCEPT !.name = SubSeq(e.name, Len(root) + 1, Len(e.name))]
           f == [p \in T |-> key(entry(p))]
           R == Relative(Entries(archive, T), root)
<1>1. Entries(archive, T) = {entry(p) : p \in T}
  BY DEF Entries
<1>2. {e \in Entries(archive, T) : Under(e.name, root)} = Entries(archive, T)
  BY <1>1
<1>3. R = {key(e) : e \in Entries(archive, T)}
  BY <1>2, Zenon DEF Relative
<1>4. R = {key(entry(p)) : p \in T}
  <2> HIDE DEF key, entry, R
  <2>1. QED
    BY <1>1, <1>3
<1>5. \A p \in T : key(entry(p)).data = p
  OBVIOUS
<1> HIDE DEF key, entry, R
<1>6. f \in Surjection(T, R)
  BY <1>4 DEF Surjection
<1>7. f \in Injection(T, R)
  BY <1>4, <1>5 DEF Injection, IsInjective
<1>8. QED
  BY <1>6, <1>7, FS_Surjection DEF R

\* A selected root has its index among the prepared members.
LEMMA SelectedHasFiles ==
  ASSUME archive \in Archives, BuiltFromHandled, Scanned(archive) = DOMAIN Headers,
         Handled = Prepared(archive), roots = Roots(archive),
         NEW root \in SelectCorpusRoot(roots, archive.hint)
  PROVE  Relative(files, root) # {}
<1>1. root \in Roots(archive) /\ (archive.hint # NoHint => root = <<archive.hint>>)
  BY SelectedIsRoot
<1>2. PICK p \in Scanned(archive) : /\ Headers[p].kind = "xml" /\ IsIndex(archive, p)
                                    /\ root = Front(Headers[p].name)
  BY <1>1 DEF Roots, Headers
<1>3. Under(Headers[p].name, root)
  BY <1>2, HeaderTypes, UnderFront
<1>4. p \in Prepared(archive)
  BY <1>1, <1>2, <1>3 DEF Prepared, Hinted, Headers
<1> DEFINE e == [name |-> Headers[p].name, data |-> p]
<1>5. e \in files /\ Under(e.name, root)
  BY <1>2, <1>3, <1>4 DEF BuiltFromHandled, Entries, Headers
<1>6. QED
  BY <1>5, Zenon DEF Relative

\* What is published below a root is the corpus of the archive below it.
LEMMA PublishedIsCorpus ==
  ASSUME archive \in Archives, Progress, DOMAIN Headers = 1..Len(Headers), Len(Headers) \in Nat,
         \A p \in DOMAIN Headers : p < pos, Scanned(archive) = DOMAIN Headers,
         Passed = DOMAIN Headers, Handled = Prepared(archive), NEW root
  PROVE  Published(root) = CorpusOf(archive, root)
<1> DEFINE below == {p \in Prepared(archive) : Under(archive.headers[p].name, root)}
           I == {p \in below : IsIndex(archive, p)}
           F == {p \in below : ~IsIndex(archive, p) /\ archive.headers[p].page \in {"iform", "alias"}}
           L == {p \in F : archive.headers[p].page = "alias"}
           X == {p \in Scanned(archive) : archive.headers[p].kind = "xml"}
<1>1. IsFiniteSet(DOMAIN Headers) /\ X \subseteq DOMAIN Headers
      /\ F \subseteq DOMAIN Headers /\ L \subseteq DOMAIN Headers
  BY SegmentSize DEF Prepared
<1>2. IsFiniteSet(X) /\ IsFiniteSet(F) /\ IsFiniteSet(L)
  <2> HIDE DEF X, F, L
  <2>1. QED
    BY <1>1, FS_Subset
<1>3. Relative(files, root) = Relative(Entries(archive, I), root)
  <2>1. I = {p \in {q \in Handled : IsIndex(archive, q)} : Under(archive.headers[p].name, root)}
    OBVIOUS
  <2> HIDE DEF I
  <2>2. QED
    BY <2>1, RelativeBelow DEF Progress, BuiltFromHandled
<1>4. Relative(forms, root) = Relative(Entries(archive, F), root)
  <2>1. F = {p \in {q \in Handled : IsForm(q)} : Under(archive.headers[p].name, root)}
    BY DEF IsForm, Headers
  <2> HIDE DEF F
  <2>2. QED
    BY <2>1, RelativeBelow DEF Progress, BuiltFromHandled
<1>5. Relative(aliases, root) = Relative(Entries(archive, L), root)
  <2>1. L = {p \in {q \in Handled : IsAlias(q)} : Under(archive.headers[p].name, root)}
    BY DEF IsAlias, Headers
  <2> HIDE DEF L
  <2>2. QED
    BY <2>1, RelativeBelow DEF Progress, BuiltFromHandled
<1>6. /\ Cardinality(Relative(forms, root)) = Cardinality(F)
      /\ Cardinality(Relative(aliases, root)) = Cardinality(L)
  <2>1. \A p \in F \cup L : Under(archive.headers[p].name, root)
    OBVIOUS
  <2> HIDE DEF F, L
  <2>2. QED
    BY <1>2, <1>4, <1>5, <2>1, RelativeCount
<1>7. Cardinality(seen) = Cardinality(X)
  <2> DEFINE f == [p \in X |-> Headers[p].name]
  <2>1. seen = {Headers[p].name : p \in X}
    BY DEF Progress, SumsOfPassed, XMLPassed, Headers
  <2>2. \A p, q \in X : Headers[p].name = Headers[q].name => p = q
    <3>1. X \subseteq XMLBefore(archive, pos) /\ DOMAIN Headers \subseteq Nat
      BY DEF XMLBefore, Headers
    <3>2. QED
      BY <3>1, NamesDiffer DEF Progress
  <2> HIDE DEF X
  <2>3. f \in Surjection(X, seen) /\ f \in Injection(X, seen)
    BY <2>1, <2>2 DEF Surjection, Injection, IsInjective
  <2>4. QED
    BY <1>2, <2>3, FS_Surjection
<1>8. CorpusOf(archive, root) = Corpus(root, Relative(Entries(archive, I), root),
        Relative(Entries(archive, F), root), Relative(Entries(archive, L), root),
        Cardinality(X), Cardinality(F), Cardinality(L))
  BY DEF CorpusOf
<1> HIDE DEF I, F, L, X
<1>9. QED
  BY <1>3, <1>4, <1>5, <1>6, <1>7, <1>8 DEF Published

LEMMA FinishLoads ==
  ASSUME ResourceInv, LoadInv, Finish
  PROVE  outcome' \in Outcomes(archive)
<1>1. /\ rpc = "wait" /\ outcome' \in Returned /\ Shape /\ archive \in Archives
      /\ \A w \in Worker : wpc[w] = "exit"
  BY DEF Finish, ResourceInv, LoaderInv, Shape, TypeOK
<1>2. CASE firstErr # Pending
  <2>1. outcome' \in ReadErrors(archive)
    BY <1>1, <1>2, Zenon DEF Returned, LoadInv
  <2>2. QED
    BY <2>1, Zenon DEF Outcomes
<1>3. CASE firstErr = Pending
  <2> DEFINE X == {p \in DOMAIN Headers : Headers[p].kind = "xml"}
             sel == SelectCorpusRoot(roots, archive.hint)
  <2>1. Progress /\ pos \notin DOMAIN Headers
    BY <1>1, <1>3 DEF LoadInv, Progress, NoDefectYet
  <2>2. DOMAIN Headers = 1..Len(Headers) /\ Len(Headers) \in Nat /\ pos \in Nat \ {0}
    BY <1>1, HeaderTypes DEF Shape, TypeOK, ReaderTypes
  <2>3. \A p \in DOMAIN Headers : p < pos
    BY <2>1, <2>2
  <2>4. Defective(archive) = {}
    BY <2>1, <2>3 DEF Defective, Progress, NoDefectYet, Headers
  <2>5. Scanned(archive) = DOMAIN Headers
    BY <2>4 DEF Scanned, Headers
  <2>6. Passed = DOMAIN Headers /\ XMLPassed = X
    BY <2>3 DEF Passed, XMLPassed
  <2>7. Waiting = {}
    BY <1>1, WorkerAssumption DEF ResourceInv, ShutInv, Waiting
  <2>8. Handled = Prepared(archive)
    BY <2>3, <2>5, <2>7 DEF Handled, Sent, Prepared, Headers
  <2>9. ReadErrors(archive) = {}
    <3>1. {p \in Prepared(archive) : ~IsIndex(archive, p) /\ archive.headers[p].page = "malformed"} = {}
      BY <2>1, <2>8 DEF Progress, BuiltFromHandled, Headers
    <3>2. QED
      BY <2>4, <3>1 DEF ReadErrors
  <2>10. roots = Roots(archive)
    BY <2>1, <2>5, <2>6 DEF Progress, SumsOfPassed, Roots, Headers
  <2>11. json = JSONKinds(archive)
    BY <2>1, <2>5, <2>6 DEF Progress, SumsOfPassed, JSONKinds, Headers
  <2>12. CASE roots = {}
    <3>1. outcome' = Failure(NoIndex(json), 0)
      BY <1>1, <1>3, <2>12, Zenon DEF Returned, NoIndex
    <3>2. QED
      BY <2>9, <2>10, <2>11, <2>12, <3>1, Zenon DEF Outcomes
  <2>13. CASE roots # {} /\ sel = {}
    <3>1. outcome' = Failure("roots", 0)
      BY <1>1, <1>3, <2>13, Zenon DEF Returned
    <3>2. QED
      BY <2>9, <2>10, <2>13, <3>1, Zenon DEF Outcomes
  <2>14. CASE roots # {} /\ sel # {}
    <3>1. PICK root \in sel : outcome' = IF Relative(files, root) = {} THEN Failure("noFiles", 0)
                                         ELSE Published(root)
      BY <1>1, <1>3, <2>14, Zenon DEF Returned
    <3>2. Relative(files, root) # {}
      BY <1>1, <2>1, <2>5, <2>8, <2>10, <3>1, SelectedHasFiles DEF Progress
    <3>3. Published(root) = CorpusOf(archive, root)
      BY <1>1, <2>1, <2>2, <2>3, <2>5, <2>6, <2>8, PublishedIsCorpus
    <3>4. QED
      BY <2>9, <2>10, <2>14, <3>1, <3>2, <3>3, Zenon DEF Outcomes
  <2>15. QED
    BY <2>12, <2>13, <2>14
<1>4. QED
  BY <1>2, <1>3

\* Every step of the loader is a step of CorpusLoad, or changes nothing of it.
LEMMA StepLoads ==
  ASSUME ResourceInv, LoadInv, [Next]_vars
  PROVE  [Abstract!Step]_(Abstract!vars)
<1>1. CASE Finish
  <2>1. outcome' \in Outcomes(archive)
    BY <1>1, FinishLoads
  <2>2. outcome = Pending /\ archive' = archive
    BY <1>1 DEF ResourceInv, ShutInv, Finish
  <2>3. QED
    BY <2>1, <2>2 DEF Abstract!Step, Abstract!Load
<1>2. CASE ~Finish
  <2>1. UNCHANGED <<archive, outcome>>
    BY <1>2, Zenon DEF Next, ReaderStep, WorkerStep, SkipHeader, RejectHeader, ScanMember, AcquireParks,
       AcquireRefused, AcquireGranted, ArenaGet, ReadMember, SendJob, PutBack, GiveBack,
       RecordShort, EndOfArchive, CloseJobs, ReceiveJob, CheckCanceled, PrepareIndex,
       PreparePage, PrepareFails, PutBuffer, ReleaseCharge, ExitWorker, Done, vars
  <2>2. QED
    BY <2>1 DEF Abstract!vars
<1>3. QED
  BY <1>1, <1>2

\* The loader implements CorpusLoad: what it returns is determined by the
\* archive alone, the whole corpus or an error that names a defect of it,
\* whatever the workers, the limit and the order of preparation.
THEOREM LoaderImplementsLoad == Spec => ImplementsLoad
<1>1. LoadInv /\ ResourceInv /\ [Next]_vars => LoadInv'
  <2>1. ASSUME LoadInv, UNCHANGED vars PROVE LoadInv'
    BY <2>1 DEF vars, readerVars, channelVars, workerVars, builderVars, LoadInv, Progress,
       NoDefectYet, SumsOfPassed, BuiltFromHandled, Passed, XMLPassed, Sizes, Sent, Waiting, Handled,
       Handed, IsForm, IsAlias, Headers
  <2>2. QED
    BY <2>1, LoadStep
<1>2. Init => Abstract!Init
  BY DEF Init, Abstract!Init
<1>3. QED
  BY <1>1, <1>2, InitHolds, StepLoads, ResourceInvariant, PTL DEF Spec, ImplementsLoad, Abstract!Spec
=============================================================================
