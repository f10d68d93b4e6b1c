---------------------------- MODULE CorpusLoader ----------------------------
(***************************************************************************)
(* LoadTarXMLCorpusWithOptions: one reader walks the tar stream, charges   *)
(* each XML member to an in-flight byte budget, reads it into a recycled   *)
(* buffer and sends it on a bounded channel; workers prepare members, give *)
(* the buffer back to the arena and then the charge to the budget.  The    *)
(* first error stops the budget, which stops the reader and makes workers  *)
(* drain without preparing.  When every worker has left, the reader picks  *)
(* the corpus root and publishes the members below it.                     *)
(*                                                                         *)
(* Every step under one mutex, and every channel operation, is one action; *)
(* steps on data one goroutine owns are folded into the next shared one.   *)
(***************************************************************************)
EXTENDS CorpusOutcomes

CONSTANTS Worker, MaxInflightBytes

ASSUME WorkerAssumption == IsFiniteSet(Worker) /\ Worker # {}
ASSUME BudgetAssumption == MaxInflightBytes \in Nat \ {0}

VARIABLES
  archive,
  rpc, pos,                   \* reader: next step, current header
  seen, roots, total, json,   \* reader: what the scanned headers add up to
  jobs, closed,               \* the channel: members sent, in header order
  wpc, wjob,                  \* workers: next step, member held (0: none)
  used, peak, stopping,       \* inflightBudget
  parked,                     \* the reader sleeps in cond.Wait
  firstErr,
  free, heap, buf,            \* arena: LIFO lists of buffers per class, every
                              \* buffer ever made, the buffer of each member
  files, forms, aliases,      \* preparedCorpusBuilder
  outcome

readerVars  == <<rpc, pos, seen, roots, total, json>>
channelVars == <<jobs, closed>>
workerVars  == <<wpc, wjob>>
budgetVars  == <<used, peak, stopping, parked>>
arenaVars   == <<free, heap, buf>>
builderVars == <<files, forms, aliases>>
vars == <<archive, readerVars, channelVars, workerVars, budgetVars, firstErr,
          arenaVars, builderVars, outcome>>

Headers == archive.headers
Charge(p) == MemberBufferClass(Headers[p].size)

----------------------------------------------------------------------------
\* Shared operations.

\* Variants named ..._Without and ..._Instead are not part of the model: they
\* are faults a change to the code could introduce, kept to show that the
\* properties notice them.

\* errOnce: only the first error is kept, and it cancels the budget, whose
\* broadcast wakes the reader.
RecordError(err) ==
  /\ firstErr' = IF firstErr = Pending THEN err ELSE firstErr
  /\ stopping' = TRUE
  /\ parked' = FALSE

ArenaPut_WithoutAppend(b) == UNCHANGED <<free, heap, buf>>

\* arena.put: the buffer goes on top of the free list of its capacity.
ArenaPut(b) ==
  /\ free' = [free EXCEPT ![heap[b].class] = Append(@, b)]
  /\ UNCHANGED <<heap, buf>>

ReleaseBudget_WithoutBroadcast(p) ==
  used' = used - Charge(p) /\ UNCHANGED <<parked, peak, stopping>>

ReleaseBudget_InsteadOfCharge(p) ==
  used' = used - Headers[p].size /\ parked' = FALSE /\ UNCHANGED <<peak, stopping>>

\* budget.release, with its broadcast.
ReleaseBudget(p) ==
  /\ used' = used - Charge(p)
  /\ parked' = FALSE
  /\ UNCHANGED <<peak, stopping>>

----------------------------------------------------------------------------
\* The reader.

ScanError_WithoutDuplicate(h) ==
  IF h.kind \in {"corrupt", "badname"} THEN h.kind
  ELSE IF h.kind # "xml" THEN "none"
  ELSE IF h.size > MaxMember THEN "size"
  ELSE IF total + h.size > MaxTotal THEN "total"
  ELSE "none"

\* Why the reader rejects header h before reading its contents.
ScanError(h) ==
  IF h.kind \in {"corrupt", "badname"} THEN h.kind
  ELSE IF h.kind # "xml" THEN "none"
  ELSE IF h.size > MaxMember THEN "size"
  ELSE IF total + h.size > MaxTotal THEN "total"
  ELSE IF h.name \in seen THEN "duplicate"
  ELSE "none"

AtHeader == rpc = "next" /\ pos \in DOMAIN Headers

\* Directories, JSON and other files are passed over.
SkipHeader ==
  /\ AtHeader
  /\ Headers[pos].kind \in {"other", "features", "instructions"}
  /\ json' = json \cup ({Headers[pos].kind} \ {"other"})
  /\ pos' = pos + 1
  /\ UNCHANGED <<archive, rpc, seen, roots, total, channelVars, workerVars,
                 budgetVars, firstErr, arenaVars, builderVars, outcome>>

RejectHeader ==
  /\ AtHeader
  /\ ScanError(Headers[pos]) # "none"
  /\ RecordError(Failure(ScanError(Headers[pos]), pos))
  /\ rpc' = "close"
  /\ UNCHANGED <<archive, pos, seen, roots, total, json, channelVars, workerVars,
                 used, peak, arenaVars, builderVars, outcome>>

\* A valid XML member is counted; outside the hinted root that is all.
ScanMember ==
  LET h == Headers[pos] IN
  /\ AtHeader
  /\ h.kind = "xml" /\ ScanError(h) = "none"
  /\ total' = total + h.size
  /\ seen' = seen \cup {h.name}
  /\ roots' = IF IsEncodingIndex(h.name) THEN roots \cup {Front(h.name)} ELSE roots
  /\ IF Hinted(archive.hint, h.name)
     THEN rpc' = "acquire" /\ pos' = pos
     ELSE rpc' = "next" /\ pos' = pos + 1
  /\ UNCHANGED <<archive, json, channelVars, workerVars, budgetVars, firstErr,
                 arenaVars, builderVars, outcome>>

OverBudget_WithoutRequest(size) == used # 0 /\ used > MaxInflightBytes

\* The wait condition of budget.acquire.
OverBudget(size) == used # 0 /\ used + size > MaxInflightBytes

AcquireParks ==
  /\ rpc = "acquire" /\ ~parked
  /\ ~stopping /\ OverBudget(Charge(pos))
  /\ parked' = TRUE
  /\ UNCHANGED <<archive, readerVars, channelVars, workerVars, used, peak, stopping,
                 firstErr, arenaVars, builderVars, outcome>>

AcquireRefused ==
  /\ rpc = "acquire" /\ ~parked
  /\ stopping
  /\ rpc' = "close"
  /\ UNCHANGED <<archive, pos, seen, roots, total, json, channelVars, workerVars,
                 budgetVars, firstErr, arenaVars, builderVars, outcome>>

AcquireGranted ==
  /\ rpc = "acquire" /\ ~parked
  /\ ~stopping /\ ~OverBudget(Charge(pos))
  /\ used' = used + Charge(pos)
  /\ peak' = IF used' > peak THEN used' ELSE peak
  /\ rpc' = "get"
  /\ UNCHANGED <<archive, pos, seen, roots, total, json, channelVars, workerVars,
                 stopping, parked, firstErr, arenaVars, builderVars, outcome>>

ArenaGet_WithoutPop ==
  /\ rpc = "get"
  /\ IF free[Charge(pos)] # << >>
     THEN buf' = [buf EXCEPT ![pos] = Last(free[Charge(pos)])] /\ heap' = heap
     ELSE /\ heap' = Append(heap, [class |-> Charge(pos), data |-> 0])
          /\ buf' = [buf EXCEPT ![pos] = Len(heap')]
  /\ rpc' = "fill"
  /\ UNCHANGED <<archive, pos, seen, roots, total, json, channelVars, workerVars,
                 budgetVars, firstErr, free, builderVars, outcome>>

\* arena.get: the buffer put back last, or a new one when the list is empty.
ArenaGet ==
  LET c == Charge(pos)
      list == free[c]
  IN
  /\ rpc = "get"
  /\ IF list # << >>
     THEN /\ buf' = [buf EXCEPT ![pos] = Last(list)]
          /\ free' = [free EXCEPT ![c] = Front(list)]
          /\ heap' = heap
     ELSE /\ heap' = Append(heap, [class |-> c, data |-> 0])
          /\ buf' = [buf EXCEPT ![pos] = Len(heap')]
          /\ free' = free
  /\ rpc' = "fill"
  /\ UNCHANGED <<archive, pos, seen, roots, total, json, channelVars, workerVars,
                 budgetVars, firstErr, builderVars, outcome>>

\* io.ReadFull overwrites the buffer, wholly or up to the end of the stream.
ReadMember ==
  /\ rpc = "fill"
  /\ heap' = [heap EXCEPT ![buf[pos]].data = pos]
  /\ rpc' = IF Headers[pos].short THEN "putback" ELSE "send"
  /\ UNCHANGED <<archive, pos, seen, roots, total, json, channelVars, workerVars,
                 budgetVars, firstErr, free, buf, builderVars, outcome>>

\* The channel holds at most one job per worker.
SendJob ==
  /\ rpc = "send"
  /\ Cardinality(jobs) < Cardinality(Worker)
  /\ jobs' = jobs \cup {pos}
  /\ rpc' = "next" /\ pos' = pos + 1
  /\ UNCHANGED <<archive, seen, roots, total, json, closed, workerVars, budgetVars,
                 firstErr, arenaVars, builderVars, outcome>>

\* A short read: the buffer and the charge are returned, then the error set.
PutBack ==
  /\ rpc = "putback"
  /\ ArenaPut(buf[pos])
  /\ rpc' = "giveback"
  /\ UNCHANGED <<archive, pos, seen, roots, total, json, channelVars, workerVars,
                 budgetVars, firstErr, builderVars, outcome>>

GiveBack ==
  /\ rpc = "giveback"
  /\ ReleaseBudget(pos)
  /\ rpc' = "short"
  /\ UNCHANGED <<archive, pos, seen, roots, total, json, channelVars, workerVars,
                 firstErr, arenaVars, builderVars, outcome>>

RecordShort ==
  /\ rpc = "short"
  /\ RecordError(Failure("short", pos))
  /\ rpc' = "close"
  /\ UNCHANGED <<archive, pos, seen, roots, total, json, channelVars, workerVars,
                 used, peak, arenaVars, builderVars, outcome>>

EndOfArchive ==
  /\ rpc = "next" /\ pos \notin DOMAIN Headers
  /\ rpc' = "close"
  /\ UNCHANGED <<archive, pos, seen, roots, total, json, channelVars, workerVars,
                 budgetVars, firstErr, arenaVars, builderVars, outcome>>

CloseJobs ==
  /\ rpc = "close"
  /\ closed' = TRUE
  /\ rpc' = "wait"
  /\ UNCHANGED <<archive, pos, seen, roots, total, json, jobs, workerVars,
                 budgetVars, firstErr, arenaVars, builderVars, outcome>>

\* builder.finish: what lies below root, with the published counts.
Published(root) ==
  Corpus(root, Relative(files, root), Relative(forms, root), Relative(aliases, root),
         Cardinality(seen), Cardinality(Relative(forms, root)),
         Cardinality(Relative(aliases, root)))

\* What the loader returns once every worker has left.
Returned ==
  IF firstErr # Pending THEN {firstErr}
  ELSE IF roots = {} THEN
    {Failure(IF "instructions" \in json THEN "instructionsJSON"
             ELSE IF "features" \in json THEN "featuresJSON" ELSE "noIndex", 0)}
  ELSE IF SelectCorpusRoot(roots, archive.hint) = {} THEN {Failure("roots", 0)}
  ELSE {IF Relative(files, root) = {} THEN Failure("noFiles", 0) ELSE Published(root) :
          root \in SelectCorpusRoot(roots, archive.hint)}

Finish ==
  /\ rpc = "wait"
  /\ \A w \in Worker : wpc[w] = "exit"
  /\ free' = [c \in BufferClass |-> << >>]
  /\ outcome' \in Returned
  /\ rpc' = "returned"
  /\ UNCHANGED <<archive, pos, seen, roots, total, json, channelVars, workerVars,
                 budgetVars, firstErr, heap, buf, builderVars>>

ReaderStep ==
  \/ SkipHeader \/ RejectHeader \/ ScanMember
  \/ AcquireParks \/ AcquireRefused \/ AcquireGranted
  \/ ArenaGet \/ ReadMember \/ SendJob
  \/ PutBack \/ GiveBack \/ RecordShort
  \/ EndOfArchive \/ CloseJobs \/ Finish

----------------------------------------------------------------------------
\* The workers.

ReceiveJob(w) ==
  /\ wpc[w] = "recv"
  /\ \E p \in jobs :
       /\ \A q \in jobs : p <= q
       /\ jobs' = jobs \ {p}
       /\ wjob' = [wjob EXCEPT ![w] = p]
  /\ wpc' = [wpc EXCEPT ![w] = "check"]
  /\ UNCHANGED <<archive, readerVars, closed, budgetVars, firstErr, arenaVars,
                 builderVars, outcome>>

\* budget.canceled: after an error, jobs are drained unprepared.
CheckCanceled(w) ==
  /\ wpc[w] = "check"
  /\ wpc' = [wpc EXCEPT ![w] = IF stopping THEN "put" ELSE "prepare"]
  /\ UNCHANGED <<archive, readerVars, channelVars, wjob, budgetVars, firstErr,
                 arenaVars, builderVars, outcome>>

\* The name the job carries and the member whose bytes its buffer holds.
JobName(w) == Headers[wjob[w]].name
JobData(w) == heap[buf[wjob[w]]].data
JobPage(w) == Headers[JobData(w)].page

\* prepareXMLMember on an encoding index: its bytes are cloned.
PrepareIndex(w) ==
  /\ wpc[w] = "prepare"
  /\ IsEncodingIndex(JobName(w))
  /\ files' = Assign(files, JobName(w), JobData(w))
  /\ wpc' = [wpc EXCEPT ![w] = "put"]
  /\ UNCHANGED <<archive, readerVars, channelVars, wjob, budgetVars, firstErr,
                 arenaVars, forms, aliases, outcome>>

\* prepareXMLMember on a page: all its encodings parse, and the page is added
\* under the builder's lock with its aliases; pages of other kinds are ignored.
PreparePage(w) ==
  LET name == JobName(w) IN
  /\ wpc[w] = "prepare"
  /\ ~IsEncodingIndex(name) /\ JobPage(w) # "malformed"
  /\ forms' = IF JobPage(w) = "plain" THEN forms ELSE Assign(forms, name, JobData(w))
  /\ aliases' = IF JobPage(w) = "alias"
                THEN aliases \cup {[name |-> name, data |-> JobData(w)]} ELSE aliases
  /\ wpc' = [wpc EXCEPT ![w] = "put"]
  /\ UNCHANGED <<archive, readerVars, channelVars, wjob, budgetVars, firstErr,
                 arenaVars, files, outcome>>

\* A page that does not parse, or names an encoding twice.
PrepareFails(w) ==
  /\ wpc[w] = "prepare"
  /\ ~IsEncodingIndex(JobName(w)) /\ JobPage(w) = "malformed"
  /\ RecordError(Failure("malformed", wjob[w]))
  /\ wpc' = [wpc EXCEPT ![w] = "put"]
  /\ UNCHANGED <<archive, readerVars, channelVars, wjob, used, peak,
                 arenaVars, builderVars, outcome>>

PutBuffer(w) ==
  /\ wpc[w] = "put"
  /\ ArenaPut(buf[wjob[w]])
  /\ wpc' = [wpc EXCEPT ![w] = "release"]
  /\ UNCHANGED <<archive, readerVars, channelVars, wjob, budgetVars, firstErr,
                 builderVars, outcome>>

ReleaseCharge(w) ==
  /\ wpc[w] = "release"
  /\ ReleaseBudget(wjob[w])
  /\ wjob' = [wjob EXCEPT ![w] = 0]
  /\ wpc' = [wpc EXCEPT ![w] = "recv"]
  /\ UNCHANGED <<archive, readerVars, channelVars, firstErr, arenaVars,
                 builderVars, outcome>>

ExitWorker_WithoutDrain(w) ==
  /\ wpc[w] = "recv"
  /\ closed
  /\ wpc' = [wpc EXCEPT ![w] = "exit"]
  /\ UNCHANGED <<archive, readerVars, channelVars, wjob, budgetVars, firstErr,
                 arenaVars, builderVars, outcome>>

ExitWorker(w) ==
  /\ wpc[w] = "recv"
  /\ closed /\ jobs = {}
  /\ wpc' = [wpc EXCEPT ![w] = "exit"]
  /\ UNCHANGED <<archive, readerVars, channelVars, wjob, budgetVars, firstErr,
                 arenaVars, builderVars, outcome>>

WorkerStep(w) ==
  \/ ReceiveJob(w) \/ CheckCanceled(w)
  \/ PrepareIndex(w) \/ PreparePage(w) \/ PrepareFails(w)
  \/ PutBuffer(w) \/ ReleaseCharge(w) \/ ExitWorker(w)

----------------------------------------------------------------------------

Init ==
  /\ archive \in Archives
  /\ rpc = "next" /\ pos = 1
  /\ seen = {} /\ roots = {} /\ total = 0 /\ json = {}
  /\ jobs = {} /\ closed = FALSE
  /\ wpc = [w \in Worker |-> "recv"] /\ wjob = [w \in Worker |-> 0]
  /\ used = 0 /\ peak = 0 /\ stopping = FALSE /\ parked = FALSE
  /\ firstErr = Pending
  /\ free = [c \in BufferClass |-> << >>] /\ heap = << >>
  /\ buf = [p \in DOMAIN archive.headers |-> 0]
  /\ files = {} /\ forms = {} /\ aliases = {}
  /\ outcome = Pending

\* The load is over: the caller holds the outcome, the goroutines are gone.
Done == rpc = "returned" /\ UNCHANGED vars

Next == ReaderStep \/ (\E w \in Worker : WorkerStep(w)) \/ Done

\* The Go scheduler runs every runnable goroutine eventually.
Fairness == WF_vars(ReaderStep) /\ \A w \in Worker : WF_vars(WorkerStep(w))

Spec == Init /\ [][Next]_vars
FairSpec == Spec /\ Fairness

----------------------------------------------------------------------------
\* Properties.

RPC == {"next", "acquire", "get", "fill", "send", "putback", "giveback", "short",
        "close", "wait", "returned"}
WPC == {"recv", "check", "prepare", "put", "release", "exit"}

ReaderTypes ==
  /\ rpc \in RPC /\ pos \in Nat \ {0}
  /\ rpc \in {"acquire", "get", "fill", "send", "putback", "giveback", "short"}
       => pos \in DOMAIN Headers
  /\ seen \subseteq Seq(Component) /\ roots \subseteq Seq(Component)
  /\ total \in Nat /\ json \subseteq {"features", "instructions"}
WorkerTypes ==
  /\ jobs \subseteq DOMAIN Headers
  /\ wpc \in [Worker -> WPC]
  /\ wjob \in [Worker -> DOMAIN Headers \cup {0}]
  /\ \A w \in Worker : wjob[w] = 0 <=> wpc[w] \in {"recv", "exit"}
CounterTypes == used \in Int /\ peak \in Nat
FlagTypes == closed \in BOOLEAN /\ stopping \in BOOLEAN /\ parked \in BOOLEAN

TypeOK == archive \in Archives /\ ReaderTypes /\ WorkerTypes /\ CounterTypes /\ FlagTypes

\* The members that hold a charge: granted to the reader and not yet sent,
\* in the channel, or with a worker that has not released.
Charged == jobs \cup (Range(wjob) \ {0})
                \cup (IF rpc \in {"get", "fill", "send", "putback", "giveback"}
                      THEN {pos} ELSE {})

\* One token per byte a charged member may occupy.
ChargedBytes == ByteTokens(Charged, [p \in DOMAIN Headers |-> Charge(p)])

\* The budget's counter is the sum of the charges held, through errors,
\* cancellation and draining: no charge is leaked or returned twice.
BudgetExact == used = Cardinality(ChargedBytes)

\* Why the accounting is exact: a charged member was admitted, and the reader,
\* the channel and the workers hold different members, all behind the reader.
Admitted == \A p \in Charged \cup (IF rpc = "acquire" THEN {pos} ELSE {}) :
              Headers[p].size <= MaxMember
Apart ==
  /\ \A p \in jobs : p < pos
  /\ \A w \in Worker : wjob[w] < pos /\ wjob[w] \notin jobs
  /\ \A v, w \in Worker : wjob[v] = wjob[w] /\ wjob[v] # 0 => v = w

\* The documented hard bound, on the bytes held and on the peak the
\* statistics report: the limit, or one member admitted alone.
HardBound == IF MaxInflightBytes > MaxMember THEN MaxInflightBytes ELSE MaxMember
BudgetBound == Cardinality(ChargedBytes) <= HardBound /\ peak <= HardBound

\* The buffers a goroutine or the channel may still touch, with their owners.
Holders == jobs \cup {wjob[w] : w \in {w \in Worker : wpc[w] \in {"check", "prepare", "put"}}}
                \cup (IF rpc \in {"fill", "send", "putback"} THEN {pos} ELSE {})

\* A buffer has one owner: no two live members share one, none is on a free
\* list, and none is on a free list twice.
BuffersUnshared ==
  /\ \A p, q \in Holders : buf[p] = buf[q] => p = q
  /\ \A c \in BufferClass :
       /\ \A p \in Holders : buf[p] \notin ToSet(free[c])
       /\ \A i, j \in DOMAIN free[c] : free[c][i] = free[c][j] => i = j

\* The arena never makes more buffers of one class than the budget admits at
\* once, although a worker recycles its buffer before releasing its charge.
ArenaBounded ==
  \A c \in BufferClass :
    LET made == Cardinality({b \in DOMAIN heap : heap[b].class = c})
    IN  made > 1 => c * made <= MaxInflightBytes

\* What is prepared under a name is the member of that name: a buffer is
\* never refilled while it is being parsed or kept by the builder.
PreparedFaithfully ==
  \A e \in files \cup forms \cup aliases : Headers[e.data].name = e.name

\* The reader sleeps only while some charge is held that will be released,
\* and never once the load has been stopped: no wakeup is lost.
NoLostWakeup ==
  parked => /\ rpc = "acquire" /\ ~stopping
            /\ Charged # {}

\* The budget is stopped only with an error recorded: a reader whose acquire
\* is refused leaves its loop without an error of its own, and the load must
\* not pass for complete.
StoppedByError == stopping <=> firstErr # Pending

\* The loader leaves nothing behind: every goroutine is gone, the channel is
\* drained and every charge was given back, on success or failure.
CleanReturn ==
  outcome # Pending =>
    /\ jobs = {} /\ used = 0
    /\ \A w \in Worker : wpc[w] = "exit"

\* What is returned is what the archive alone determines: the whole corpus
\* of a sound archive, whatever the order of preparation, or an error naming
\* a defect that was read; never a part of a corpus.  The pipeline's state -
\* reader, workers, channel, budget, arena, builder - is hidden.
Abstract == INSTANCE CorpusLoad WITH
  Archives <- Archives,
  Pending <- Pending,
  Outcomes <- Outcomes,
  archive <- archive,
  outcome <- outcome

\* The loader implements one step from the archive to such an outcome.
ImplementsLoad == Abstract!Spec

\* Every load returns.
Terminates == <>(outcome # Pending)
=============================================================================
