----------------------------- MODULE ARMPipeline ----------------------------
(***************************************************************************)
(* The Arm pipeline of mkasm: ARMParser.Parse with its worker pool, the    *)
(* parsed-form cache its passes share, and the caller, run() of cmd/mkasm, *)
(* which validates, exports and closes.                                    *)
(*                                                                         *)
(* Pass 1 fills the registry from the encoding index and the aliases.      *)
(* Pass 2 hands the registry to workers over a channel; each worker loads  *)
(* the page of its instruction and merges it into the IR.  Pass 3 reads    *)
(* the IR and the pages once more and writes one artifact per language.    *)
(***************************************************************************)
EXTENDS Naturals, Sequences, FiniteSets

CONSTANTS
  Instr,      \* encoding IDs
  IFormFile,  \* the page each is documented on
  Worker,     \* the IFormWorkers goroutines of Pass 2
  NoJob,
  Inputs      \* what the pipeline may be run on and how, see Input below

\* rows and aliases are what the index and the alias scan yield, in order,
\* and ok whether registry.validateInstruction accepts the row.  page is what
\* loading the page of an encoding gives: a form with encoding bits, a form
\* without, an error, or nothing because the row names no page.  invalid are
\* the encodings the validator rejects once resolved.  archive says that the
\* pages come prepared from a tar corpus, not from a directory; cancellable
\* that the caller's context can end, which that of cmd/mkasm cannot.
Language == {"go", "rust", "unsupported"}
Row == [id : Instr, ok : BOOLEAN]
Page == {"encoded", "empty", "error", "nofile"}
Input == [rows : Seq(Row), aliases : Seq(Row), page : [Instr -> Page],
          invalid : SUBSET Instr, archive : BOOLEAN, cancellable : BOOLEAN,
          skipCodegen : BOOLEAN, maxIForms : Nat, cacheSize : Nat,
          arm32 : BOOLEAN, languages : Seq(Language)]

\* NewARMParser turns 0 into 10 workers; a negative count would start none.
ASSUME WorkerAssumption == Worker # {}
ASSUME NoJobAssumption == NoJob \notin Instr
ASSUME InputsAssumption == Inputs \subseteq Input

VARIABLES
  input,
  page,              \* pages as they are now: a directory may lose them
  pc, todo,          \* the calling goroutine, and the rows, queue or pages left
  registry,          \* insertion order
  queued, workCh, chClosed,
  wpc, wjob,         \* workers: "unborn", "receive", "load", "apply", "exited"
  errs,              \* the encodings whose error is in errCh
  applied, resolved, \* IR that ApplyParsedIForm reached, and got bits from it
  cache, loads,      \* cached forms, and how often each page was parsed
  cancelled,         \* ctx is done
  langs, missed, emitted, written,
                     \* Pass 3: languages left, pages it could not load,
                     \* encodings it generates from, languages written
  result,            \* of run(): "ok" once everything it was asked for is done
  exported           \* the JSON export has happened

mainVars   == <<pc, todo>>
poolVars   == <<queued, workCh, chClosed>>
workerVars == <<wpc, wjob>>
irVars     == <<errs, applied, resolved>>
cacheVars  == <<cache, loads>>
emitVars   == <<langs, missed, emitted, written>>
endVars    == <<result, exported>>
vars == <<input, page, mainVars, registry, poolVars, workerVars, irVars,
          cacheVars, cancelled, emitVars, endVars>>

Registered == {registry[k] : k \in DOMAIN registry}

Init ==
  /\ input \in Inputs /\ page = input.page
  /\ pc = "index" /\ todo = << >>
  /\ registry = << >>
  /\ queued = 0 /\ workCh = << >> /\ chClosed = FALSE
  /\ wpc = [w \in Worker |-> "unborn"] /\ wjob = [w \in Worker |-> NoJob]
  /\ errs = {} /\ applied = {} /\ resolved = {}
  /\ cache = {} /\ loads = [i \in Instr |-> 0]
  /\ cancelled = FALSE
  /\ langs = << >> /\ missed = {} /\ emitted = {} /\ written = {}
  /\ result = "none" /\ exported = FALSE

\* Variants named ..._Without and ..._Instead are not part of the model: they
\* are faults a change to the code could introduce, kept to show that the
\* properties notice them.

\* run() returns, with an error unless the reason is "ok"; its deferred Close
\* follows.
Fail(reason) == pc' = "close" /\ result' = reason

----------------------------------------------------------------------------
\* Pass 1.

\* The index is parsed whole before a row is added; a done context or a
\* malformed index ends the parse.
ReadIndex ==
  /\ pc = "index"
  /\ \/ /\ ~cancelled
        /\ pc' = "rows" /\ todo' = input.rows
        /\ UNCHANGED result
     \/ Fail("pass 1") /\ UNCHANGED todo
  /\ UNCHANGED <<input, page, registry, poolVars, workerVars, irVars, cacheVars,
                 cancelled, emitVars, exported>>

\* registry.Add: rows it rejects are dropped, its error is ignored.
Add(r) ==
  registry' = IF r.ok /\ r.id \notin Registered THEN Append(registry, r.id)
              ELSE registry

AddRow ==
  /\ pc \in {"rows", "aliases"} /\ todo # << >>
  /\ Add(Head(todo)) /\ todo' = Tail(todo)
  /\ UNCHANGED <<input, page, pc, poolVars, workerVars, irVars, cacheVars,
                 cancelled, emitVars, endVars>>

DiscoverAliases ==
  /\ pc = "rows" /\ todo = << >>
  /\ \/ pc' = "aliases" /\ todo' = input.aliases /\ UNCHANGED result
     \/ Fail("pass 1") /\ UNCHANGED todo
  /\ UNCHANGED <<input, page, registry, poolVars, workerVars, irVars, cacheVars,
                 cancelled, emitVars, exported>>

----------------------------------------------------------------------------
\* Pass 2: the calling goroutine.

StartPool ==
  /\ pc = "aliases" /\ todo = << >>
  /\ pc' = "queue" /\ todo' = registry
  /\ wpc' = [w \in Worker |-> "receive"]
  /\ UNCHANGED <<input, page, registry, poolVars, wjob, irVars, cacheVars, cancelled,
                 emitVars, endVars>>

QueueFull == input.maxIForms > 0 /\ queued >= input.maxIForms

\* The channel holds the whole registry, so a send never waits; with ctx
\* done as well, the select takes either branch.
QueueInstr ==
  /\ pc = "queue" /\ todo # << >> /\ ~QueueFull
  /\ workCh' = Append(workCh, Head(todo)) /\ queued' = queued + 1
  /\ todo' = Tail(todo)
  /\ UNCHANGED <<input, page, pc, registry, chClosed, workerVars, irVars, cacheVars,
                 cancelled, emitVars, endVars>>

\* Pass 2 returns at once: the channel stays open and nobody waits.
QueueCancelled ==
  /\ pc = "queue" /\ todo # << >> /\ ~QueueFull
  /\ cancelled
  /\ Fail("pass 2")
  /\ UNCHANGED <<input, page, todo, registry, poolVars, workerVars, irVars, cacheVars,
                 cancelled, emitVars, exported>>

CloseChannel_WithoutClosing == chClosed' = chClosed
CloseChannel == chClosed' = TRUE

CloseQueue ==
  /\ pc = "queue" /\ (todo = << >> \/ QueueFull)
  /\ CloseChannel
  /\ pc' = "wait"
  /\ UNCHANGED <<input, page, todo, registry, queued, workCh, workerVars, irVars,
                 cacheVars, cancelled, emitVars, endVars>>

WaitWorkers_WithoutWaiting == pc = "wait"
WaitWorkers == pc = "wait" /\ \A w \in Worker : wpc[w] = "exited"

Refused_WithoutErrors == FALSE

\* Errors are warnings unless code is to be generated.
Refused == errs # {} /\ ~input.skipCodegen

EndPass2 ==
  /\ WaitWorkers
  /\ IF Refused THEN Fail("pass 2")
     ELSE pc' = (IF input.skipCodegen THEN "validate" ELSE "pass3") /\ UNCHANGED result
  /\ UNCHANGED <<input, page, todo, registry, poolVars, workerVars, irVars, cacheVars,
                 cancelled, emitVars, exported>>

----------------------------------------------------------------------------
\* The parsed-form cache, keyed by page and encoding.

\* A tar corpus is asked for the form before the cache is.
Available(i) == page[i] # "error"
Hit(i) == i \in cache /\ (input.archive => Available(i))

StoreForm_WithoutStoring(i) == cache' = cache

\* getOrLoad keeps a form stored meanwhile; a full cache drops any entry.
StoreForm(i) ==
  \/ i \in cache /\ cache' = cache
  \/ /\ i \notin cache
     /\ input.cacheSize = 0 \/ Cardinality(cache) < input.cacheSize
     /\ cache' = cache \cup {i}
  \/ /\ i \notin cache
     /\ input.cacheSize > 0 /\ Cardinality(cache) >= input.cacheSize
     /\ \E k \in cache : cache' = (cache \ {k}) \cup {i}

CountLoad(i) == loads' = [loads EXCEPT ![i] = @ + 1]

----------------------------------------------------------------------------
\* Pass 2: the workers.

\* A worker that finds ctx done leaves with the job it has just taken.
WorkerReceives(w) ==
  /\ wpc[w] = "receive" /\ workCh # << >>
  /\ workCh' = Tail(workCh)
  /\ CASE cancelled ->
            wpc' = [wpc EXCEPT ![w] = "exited"] /\ UNCHANGED wjob
       [] ~cancelled /\ page[Head(workCh)] = "nofile" -> UNCHANGED workerVars
       [] OTHER ->
            /\ wpc' = [wpc EXCEPT ![w] = "load"]
            /\ wjob' = [wjob EXCEPT ![w] = Head(workCh)]
  /\ UNCHANGED <<input, page, mainVars, registry, queued, chClosed, irVars, cacheVars,
                 cancelled, emitVars, endVars>>

WorkerExits(w) ==
  /\ wpc[w] = "receive" /\ workCh = << >> /\ chClosed
  /\ wpc' = [wpc EXCEPT ![w] = "exited"]
  /\ UNCHANGED <<input, page, mainVars, registry, poolVars, wjob, irVars, cacheVars,
                 cancelled, emitVars, endVars>>

ReportError_WithoutSending(i) == errs' = errs
ReportError(i) == errs' = errs \cup {i}

WorkerLoads(w) ==
  LET i == wjob[w] IN
  /\ wpc[w] = "load"
  /\ \/ /\ Hit(i) \/ Available(i)
        /\ IF Hit(i) THEN UNCHANGED loads ELSE CountLoad(i)
        /\ wpc' = [wpc EXCEPT ![w] = "apply"]
        /\ UNCHANGED <<wjob, errs>>
     \/ /\ ~Hit(i) /\ ~Available(i)
        /\ ReportError(i)
        /\ wpc' = [wpc EXCEPT ![w] = "receive"]
        /\ wjob' = [wjob EXCEPT ![w] = NoJob]
        /\ UNCHANGED loads
  /\ UNCHANGED <<input, page, mainVars, registry, poolVars, applied, resolved, cache,
                 cancelled, emitVars, endVars>>

\* ApplyParsedIForm: only a form with boxes or a template resolves the IR.
MergeForm(i) ==
  /\ applied' = applied \cup {i}
  /\ resolved' = IF input.page[i] = "encoded" THEN resolved \cup {i} ELSE resolved

\* The form is cached and merged into the IR of the one instruction.
WorkerApplies(w) ==
  LET i == wjob[w] IN
  /\ wpc[w] = "apply"
  /\ StoreForm(i)
  /\ MergeForm(i)
  /\ wpc' = [wpc EXCEPT ![w] = "receive"]
  /\ wjob' = [wjob EXCEPT ![w] = NoJob]
  /\ UNCHANGED <<input, page, mainVars, registry, poolVars, errs, loads, cancelled,
                 emitVars, endVars>>

----------------------------------------------------------------------------
\* Pass 3.

\* The pages one language is generated from: the print model reads each, the
\* Rust assembler surface reads each twice more, the Arm32 printer once.
PagesOf(ls) ==
  CASE ls = << >> -> << >>
    [] ls # << >> /\ ~input.arm32 /\ Head(ls) = "rust" ->
         registry \o registry \o registry
    [] OTHER -> registry

Targets ==
  CASE input.arm32 -> <<"rust">>
    [] ~input.arm32 /\ input.languages = << >> -> <<"go">>
    [] OTHER -> input.languages

Incomplete_WithoutCount == resolved = {}
Incomplete == resolved = {} \/ (input.maxIForms = 0 /\ resolved # Registered)

Unsupported == input.arm32 /\ \E k \in DOMAIN input.languages : input.languages[k] # "rust"

StartPass3 ==
  /\ pc = "pass3"
  /\ IF Incomplete \/ Unsupported
     THEN Fail("pass 3") /\ UNCHANGED <<todo, langs, emitted>>
     ELSE /\ pc' = "emit" /\ UNCHANGED result
          /\ emitted' = resolved
          /\ langs' = Targets /\ todo' = PagesOf(Targets)
  /\ UNCHANGED <<input, page, registry, poolVars, workerVars, irVars, cacheVars,
                 cancelled, missed, written, exported>>

\* A page that cannot be loaded again is left out of the surfaces; only the
\* Arm32 generator makes it an error.
ReadPage ==
  /\ pc = "emit" /\ todo # << >>
  /\ todo' = Tail(todo)
  /\ LET i == Head(todo) IN
       \/ /\ i \notin resolved \/ Hit(i)
          /\ UNCHANGED <<pc, result, cacheVars, missed>>
       \/ /\ i \in resolved /\ ~Hit(i) /\ Available(i)
          /\ CountLoad(i) /\ StoreForm(i)
          /\ UNCHANGED <<pc, result, missed>>
       \/ /\ i \in resolved /\ ~Hit(i) /\ ~Available(i)
          /\ missed' = missed \cup {i}
          /\ IF input.arm32 THEN Fail("pass 3") ELSE UNCHANGED <<pc, result>>
          /\ UNCHANGED cacheVars
  /\ UNCHANGED <<input, page, registry, poolVars, workerVars, irVars, cancelled,
                 langs, emitted, written, exported>>

\* Formatting or writing may fail; earlier languages stay written.
WriteLanguage ==
  /\ pc = "emit" /\ todo = << >> /\ langs # << >>
  /\ \/ /\ Head(langs) # "unsupported"
        /\ written' = written \cup {Head(langs)}
        /\ langs' = Tail(langs) /\ todo' = PagesOf(Tail(langs))
        /\ UNCHANGED <<pc, result>>
     \/ Fail("pass 3") /\ UNCHANGED <<todo, langs, written>>
  /\ UNCHANGED <<input, page, registry, poolVars, workerVars, irVars, cacheVars,
                 cancelled, missed, emitted, exported>>

EndPass3 ==
  /\ pc = "emit" /\ todo = << >> /\ langs = << >>
  /\ pc' = "validate"
  /\ UNCHANGED <<input, page, todo, registry, poolVars, workerVars, irVars, cacheVars,
                 cancelled, emitVars, endVars>>

----------------------------------------------------------------------------
\* run() after Parse, Close, and the environment.

Bad_WithoutValidation == {}
Bad == resolved \cap input.invalid

Validate ==
  /\ pc = "validate"
  /\ IF Bad # {} THEN Fail("validate") ELSE pc' = "output" /\ UNCHANGED result
  /\ UNCHANGED <<input, page, todo, registry, poolVars, workerVars, irVars, cacheVars,
                 cancelled, emitVars, exported>>

Output ==
  /\ pc = "output"
  /\ \/ Fail("ok") /\ exported' = input.skipCodegen
     \/ input.skipCodegen /\ Fail("output") /\ UNCHANGED exported
  /\ UNCHANGED <<input, page, todo, registry, poolVars, workerVars, irVars, cacheVars,
                 cancelled, emitVars>>

Lost(files) ==
  page' = [i \in Instr |-> IF IFormFile[i] \in files /\ page[i] # "nofile"
                           THEN "error" ELSE page[i]]

\* The cache is emptied; a tar corpus forgets its forms.
Close ==
  /\ pc = "close"
  /\ pc' = "closed"
  /\ cache' = {}
  /\ IF input.archive THEN Lost({IFormFile[i] : i \in Instr}) ELSE UNCHANGED page
  /\ UNCHANGED <<input, todo, registry, poolVars, workerVars, irVars, loads, cancelled,
                 emitVars, endVars>>

Cancel ==
  /\ input.cancellable /\ ~cancelled /\ pc # "closed"
  /\ cancelled' = TRUE
  /\ UNCHANGED <<input, page, mainVars, registry, poolVars, workerVars, irVars,
                 cacheVars, emitVars, endVars>>

\* A file of an input directory is removed while mkasm runs.
LosePage ==
  /\ ~input.archive /\ pc # "closed"
  /\ \E i \in Instr : page[i] \in {"encoded", "empty"} /\ Lost({IFormFile[i]})
  /\ UNCHANGED <<input, mainVars, registry, poolVars, workerVars, irVars, cacheVars,
                 cancelled, emitVars, endVars>>

Closed == pc = "closed" /\ UNCHANGED vars

Main ==
  \/ ReadIndex \/ AddRow \/ DiscoverAliases
  \/ StartPool \/ QueueInstr \/ QueueCancelled \/ CloseQueue \/ EndPass2
  \/ StartPass3 \/ ReadPage \/ WriteLanguage \/ EndPass3
  \/ Validate \/ Output \/ Close

Work(w) == WorkerReceives(w) \/ WorkerExits(w) \/ WorkerLoads(w) \/ WorkerApplies(w)

Next == Main \/ (\E w \in Worker : Work(w)) \/ Cancel \/ LosePage \/ Closed

Spec == Init /\ [][Next]_vars

\* Goroutines that can run are eventually run; nobody has to cancel.
FairSpec == Spec /\ WF_vars(Main) /\ \A w \in Worker : WF_vars(Work(w))

----------------------------------------------------------------------------
\* Properties.

States == {"index", "rows", "aliases", "queue", "wait", "pass3", "emit",
           "validate", "output", "close", "closed"}
Results == {"none", "ok", "pass 1", "pass 2", "pass 3", "validate", "output"}

\* Every variable has its type: the control states of the caller and of the
\* workers, channels and lists of encodings, counters.
TypeOK ==
  /\ input \in Inputs
  /\ page \in [Instr -> Page]
  /\ pc \in States /\ todo \in Seq(Row) \cup Seq(Instr)
  /\ registry \in Seq(Instr)
  /\ queued \in Nat /\ workCh \in Seq(Instr) /\ chClosed \in BOOLEAN
  /\ wpc \in [Worker -> {"unborn", "receive", "load", "apply", "exited"}]
  /\ wjob \in [Worker -> Instr \cup {NoJob}]
  /\ errs \subseteq Instr /\ applied \subseteq Instr /\ resolved \subseteq applied
  /\ cache \subseteq Instr /\ loads \in [Instr -> Nat]
  /\ cancelled \in BOOLEAN
  /\ langs \in Seq(Language) /\ written \subseteq Language
  /\ missed \subseteq Instr /\ emitted \subseteq Instr
  /\ result \in Results /\ exported \in BOOLEAN

AfterPass2 == pc \in {"pass3", "emit", "validate", "output"} \/ result = "ok"

\* A full generation leaves nothing out: whatever workers, errors and
\* cancellation do, a language is only written without a limit when every
\* acceptable row of the index and the alias scan is generated from.
FullGenerationComplete ==
  written # {} /\ input.maxIForms = 0 =>
    \A s \in {input.rows, input.aliases} : \A k \in DOMAIN s :
      s[k].ok => s[k].id \in emitted

\* Code is generated only when no worker reported an error, including one it
\* reported after the queue was closed.
ErrorsRefuseCodegen == written # {} => errs = {}

\* The IR the passes after Pass 2 read without a lock is final: from the
\* moment Pass 2 returns without error no worker changes it.
IRFrozen == [][AfterPass2 => UNCHANGED irVars]_vars

\* No encoding is lost between the queue and the IR: when Pass 2 is over and
\* the context alive, every queued encoding was merged, reported or has no page.
EveryJobAnswered ==
  AfterPass2 /\ ~cancelled =>
    \A k \in 1..queued :
      registry[k] \in applied \cup errs \/ input.page[registry[k]] = "nofile"

\* Two workers never merge into the same IR, now or one after the other.
OneWorkerPerInstr ==
  \A w \in Worker : wjob[w] # NoJob =>
    /\ wjob[w] \notin applied \cup errs
    /\ \A v \in Worker \ {w} : wjob[v] # wjob[w]
    /\ \A k \in DOMAIN workCh : workCh[k] # wjob[w]

\* An unbounded cache hands Pass 3 the very forms Pass 2 parsed: no encoding is
\* loaded twice, and pages of a directory lost meanwhile are not missed.
FormsReused ==
  input.cacheSize = 0 => missed = {} /\ \A i \in Instr : loads[i] <= 1

\* A bounded cache keeps its bound while workers store concurrently.
CacheBounded == input.cacheSize > 0 => Cardinality(cache) <= input.cacheSize

\* JSON is exported, and success reported, only of IR that was validated in
\* the state it is exported in.
SuccessIsValid == exported \/ result = "ok" => resolved \cap input.invalid = {}

\* run() returns whatever happens: nobody waits for a worker that waits for
\* the queue.
RunReturns == <>(pc = "closed")

----------------------------------------------------------------------------
\* A statement of the documentation that the code does not keep.

\* arm_parser.go:244: a silent omission makes a partial artifact look complete.
NoSilentOmission ==
  result = "ok" /\ written # {} =>
    \A k \in 1..queued : input.page[registry[k]] = "encoded" => registry[k] \in emitted
=============================================================================
