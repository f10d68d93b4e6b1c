-------------------------- MODULE ARMPipelineProofs --------------------------
(***************************************************************************)
(* Proofs about ARMPipeline for every index, registry, number of workers   *)
(* and configuration: the types, that code is generated from a final and   *)
(* complete IR without errors, that workers never share an encoding and    *)
(* lose none, and what the cache guarantees.                               *)
(***************************************************************************)
EXTENDS ARMPipeline, FiniteSetTheorems, TLAPS

----------------------------------------------------------------------------
\* Types and phases.

BeforePool == pc \in {"index", "rows", "aliases"}

\* Which list todo is, when the pool exists and its channel is closed, who
\* holds a job, and when run() has a result.
Phases ==
  /\ BeforePool => todo \in Seq(Row)
  /\ pc \notin {"index", "rows", "aliases", "close", "closed"} => todo \in Seq(Instr)
  /\ BeforePool => queued = 0 /\ workCh = << >> /\ applied = {} /\ errs = {}
                   /\ written = {} /\ \A w \in Worker : wpc[w] = "unborn"
  /\ ~BeforePool /\ pc \notin {"close", "closed"} =>
       \A w \in Worker : wpc[w] # "unborn"
  /\ BeforePool \/ pc = "queue" => ~chClosed
  /\ pc = "wait" \/ AfterPass2 => chClosed
  /\ result # "none" <=> pc \in {"close", "closed"}
  /\ \A w \in Worker : wpc[w] \in {"load", "apply"} <=> wjob[w] # NoJob

TypeInv == TypeOK /\ Phases

\* What the configuration consists of.
LEMMA InputTypes ==
  ASSUME NEW x \in Inputs
  PROVE  /\ x.rows \in Seq(Row) /\ x.aliases \in Seq(Row)
         /\ x.page \in [Instr -> Page] /\ x.invalid \subseteq Instr
         /\ x.maxIForms \in Nat /\ x.cacheSize \in Nat
         /\ x.languages \in Seq(Language)
         /\ x.skipCodegen \in BOOLEAN /\ x.archive \in BOOLEAN
         /\ x.arm32 \in BOOLEAN /\ x.cancellable \in BOOLEAN
<1>1. x \in Input
  BY InputsAssumption
<1>2. QED
  BY <1>1 DEF Input

\* Taking the first element of a sequence.
LEMMA HeadTail ==
  ASSUME NEW S, NEW s \in Seq(S), s # << >>
  PROVE  /\ Head(s) \in S /\ Tail(s) \in Seq(S)
         /\ Len(s) \in Nat \ {0} /\ Len(Tail(s)) = Len(s) - 1
         /\ Head(s) = s[1] /\ \A k \in 1..Len(Tail(s)) : Tail(s)[k] = s[k + 1]
OBVIOUS

\* Adding to a registry and counting a load stay within their types.
LEMMA AppendType ==
  ASSUME NEW S, NEW s \in Seq(S), NEW e \in S
  PROVE  Append(s, e) \in Seq(S)
OBVIOUS

LEMMA CountType ==
  ASSUME NEW S, NEW f \in [S -> Nat], NEW i \in S
  PROVE  [f EXCEPT ![i] = @ + 1] \in [S -> Nat]
OBVIOUS

LEMMA TypeInit == Init => TypeInv
<1> SUFFICES ASSUME Init PROVE TypeInv
  OBVIOUS
<1>1. input \in Inputs /\ input.page \in [Instr -> Page]
  BY InputTypes DEF Init
<1>2. /\ page \in [Instr -> Page] /\ loads \in [Instr -> Nat]
      /\ wpc \in [Worker -> {"unborn", "receive", "load", "apply", "exited"}]
      /\ wjob \in [Worker -> Instr \cup {NoJob}]
  BY <1>1 DEF Init
<1>3. /\ todo \in Seq(Row) /\ registry \in Seq(Instr) /\ workCh \in Seq(Instr)
      /\ langs \in Seq(Language)
  BY DEF Init
<1>4. TypeOK
  <2>1. chClosed \in BOOLEAN /\ cancelled \in BOOLEAN /\ exported \in BOOLEAN
    BY Zenon DEF Init
  <2>2. /\ pc \in States /\ queued \in Nat /\ errs \subseteq Instr /\ applied \subseteq Instr
        /\ resolved \subseteq applied /\ cache \subseteq Instr /\ written \subseteq Language
        /\ missed \subseteq Instr /\ emitted \subseteq Instr /\ result \in Results
    BY DEF Init, States, Results
  <2>3. QED
    BY <1>1, <1>2, <1>3, <2>1, <2>2, Zenon DEF TypeOK
<1>5. Phases
  BY <1>3 DEF Init, Phases, BeforePool, AfterPass2
<1>6. QED
  BY <1>4, <1>5 DEF TypeInv

\* The languages of Pass 3 and the pages it reads for them are well typed.
LEMMA PagesType ==
  ASSUME TypeOK
  PROVE  Targets \in Seq(Language) /\ \A ls \in Seq(Language) : PagesOf(ls) \in Seq(Instr)
<1>1. input.languages \in Seq(Language) /\ registry \in Seq(Instr)
  BY InputTypes DEF TypeOK
<1>2. Targets \in Seq(Language)
  <2>1. <<"go">> \in Seq(Language) /\ <<"rust">> \in Seq(Language)
    BY DEF Language
  <2>2. CASE input.arm32
    BY <2>1, <2>2 DEF Targets
  <2>3. CASE ~input.arm32
    BY <1>1, <2>1, <2>3 DEF Targets
  <2>4. QED
    BY <2>2, <2>3
<1>3. ASSUME NEW ls \in Seq(Language) PROVE PagesOf(ls) \in Seq(Instr)
  BY <1>1 DEF PagesOf
<1>4. QED
  BY <1>2, <1>3

LEMMA TypeStep == TypeInv /\ [Next]_vars => TypeInv'
<1> SUFFICES ASSUME TypeInv, [Next]_vars PROVE TypeInv'
  OBVIOUS
<1>0. input \in Inputs /\ input' = input
  <2>1. input \in Inputs
    BY DEF TypeInv, TypeOK
  <2>2. input' = input
    BY Zenon DEF Next, vars, Main, Work, Closed, ReadIndex, AddRow, DiscoverAliases,
       StartPool, QueueInstr, QueueCancelled, CloseQueue, EndPass2, StartPass3, ReadPage,
       WriteLanguage, EndPass3, Validate, Output, Close, WorkerReceives, WorkerExits,
       WorkerLoads, WorkerApplies, Cancel, LosePage
  <2>3. QED
    BY <2>1, <2>2
<1> USE <1>0, InputTypes, NoJobAssumption
    DEF TypeInv, TypeOK, Phases, BeforePool, AfterPass2, States, Results,
        mainVars, poolVars, workerVars, irVars, cacheVars, emitVars, endVars, Fail
<1>1. CASE ReadIndex
  BY <1>1 DEF ReadIndex
<1>2. CASE AddRow
  <2>0. Head(todo) \in Row /\ Tail(todo) \in Seq(Row)
    BY <1>2, HeadTail DEF AddRow
  <2>1. Tail(todo) \in Seq(Row) /\ registry' \in Seq(Instr)
    <3>1. Head(todo).id \in Instr
      BY <2>0 DEF Row
    <3>2. QED
      BY <1>2, <2>0, <3>1, AppendType DEF AddRow, Add
  <2>2. TypeOK'
    BY <1>2, <2>1 DEF AddRow
  <2>3. Phases'
    BY <1>2, <2>1 DEF AddRow
  <2>4. QED
    BY <2>2, <2>3
<1>3. CASE DiscoverAliases
  BY <1>3 DEF DiscoverAliases
<1>4. CASE StartPool
  <2>1. wpc' \in [Worker -> {"unborn", "receive", "load", "apply", "exited"}]
    BY <1>4 DEF StartPool
  <2>2. TypeOK'
    BY <1>4, <2>1 DEF StartPool
  <2>3. \A w \in Worker : wjob'[w] = NoJob /\ wpc'[w] = "receive"
    BY <1>4 DEF StartPool
  <2>4. Phases'
    BY <1>4, <2>3 DEF StartPool
  <2>5. QED
    BY <2>2, <2>4
<1>5. CASE QueueInstr
  BY <1>5 DEF QueueInstr
<1>6. CASE QueueCancelled
  BY <1>6 DEF QueueCancelled
<1>7. CASE CloseQueue
  BY <1>7 DEF CloseQueue, CloseChannel
<1>8. CASE EndPass2
  BY <1>8 DEF EndPass2, WaitWorkers
<1>9. CASE StartPass3
  <2>1. Targets \in Seq(Language) /\ PagesOf(Targets) \in Seq(Instr)
    BY PagesType
  <2>2. TypeOK'
    BY <1>9, <2>1 DEF StartPass3
  <2>3. Phases'
    BY <1>9, <2>1 DEF StartPass3
  <2>4. QED
    BY <2>2, <2>3
<1>10. CASE ReadPage
  <2>1. Tail(todo) \in Seq(Instr) /\ Head(todo) \in Instr
    BY <1>10, HeadTail DEF ReadPage
  <2>2. loads' \in [Instr -> Nat] /\ cache' \subseteq Instr
    <3>1. CASE UNCHANGED cacheVars
      BY <3>1
    <3>2. CASE CountLoad(Head(todo)) /\ StoreForm(Head(todo))
      <4>1. loads' \in [Instr -> Nat]
        BY <2>1, <3>2, CountType DEF CountLoad
      <4>2. cache' \subseteq Instr
        BY <2>1, <3>2 DEF StoreForm
      <4>3. QED
        BY <4>1, <4>2
    <3>3. QED
      BY <1>10, <3>1, <3>2 DEF ReadPage
  <2>3. missed' \subseteq Instr /\ pc' \in {"emit", "close"} /\ result' \in {result, "pass 3"}
    BY <1>10, <2>1 DEF ReadPage
  <2>4. TypeOK'
    BY <1>10, <2>1, <2>2, <2>3 DEF ReadPage
  <2>5. Phases'
    BY <1>10, <2>1 DEF ReadPage
  <2>6. QED
    BY <2>4, <2>5
<1>11. CASE WriteLanguage
  <2>1. PagesOf(Tail(langs)) \in Seq(Instr) /\ Tail(langs) \in Seq(Language)
        /\ Head(langs) \in Language
    BY <1>11, HeadTail, PagesType DEF WriteLanguage
  <2>2. TypeOK'
    BY <1>11, <2>1 DEF WriteLanguage
  <2>3. Phases'
    BY <1>11, <2>1 DEF WriteLanguage
  <2>4. QED
    BY <2>2, <2>3
<1>12. CASE EndPass3
  BY <1>12 DEF EndPass3
<1>13. CASE Validate
  BY <1>13 DEF Validate
<1>14. CASE Output
  BY <1>14 DEF Output
<1>15. CASE Close
  BY <1>15 DEF Close, Lost, Page
<1>16. ASSUME NEW w \in Worker, WorkerReceives(w) PROVE TypeInv'
  <2>1. Tail(workCh) \in Seq(Instr) /\ Head(workCh) \in Instr
    BY <1>16, HeadTail DEF WorkerReceives
  <2>2. /\ wpc' \in [Worker -> {"unborn", "receive", "load", "apply", "exited"}]
        /\ wjob' \in [Worker -> Instr \cup {NoJob}]
    <3>1. \/ wpc' = [wpc EXCEPT ![w] = "exited"] /\ wjob' = wjob
          \/ wpc' = wpc /\ wjob' = wjob
          \/ /\ wpc' = [wpc EXCEPT ![w] = "load"]
             /\ wjob' = [wjob EXCEPT ![w] = Head(workCh)]
      BY <1>16, Zenon DEF WorkerReceives
    <3>2. /\ wpc \in [Worker -> {"unborn", "receive", "load", "apply", "exited"}]
          /\ wjob \in [Worker -> Instr \cup {NoJob}]
      OBVIOUS
    <3>3. /\ [wpc EXCEPT ![w] = "exited"]
               \in [Worker -> {"unborn", "receive", "load", "apply", "exited"}]
          /\ [wpc EXCEPT ![w] = "load"]
               \in [Worker -> {"unborn", "receive", "load", "apply", "exited"}]
          /\ [wjob EXCEPT ![w] = Head(workCh)] \in [Worker -> Instr \cup {NoJob}]
      BY <2>1, <3>2
    <3>4. QED
      BY <3>1, <3>2, <3>3, Zenon
  <2>21. /\ \A v \in Worker : wpc'[v] # wpc[v] => wpc[v] = "receive" /\ wpc'[v] # "unborn"
         /\ \A v \in Worker : wpc'[v] \in {"load", "apply"} <=> wjob'[v] # NoJob
    BY <1>16, <2>1 DEF WorkerReceives
  <2>3. TypeOK'
    BY <1>16, <2>1, <2>2 DEF WorkerReceives
  <2>4. ~BeforePool
    BY <1>16 DEF WorkerReceives
  <2>5. Phases'
    BY <1>16, <2>21, <2>4 DEF WorkerReceives
  <2>6. QED
    BY <2>3, <2>5
<1>17. ASSUME NEW w \in Worker, WorkerExits(w) PROVE TypeInv'
  BY <1>17 DEF WorkerExits
<1>18. ASSUME NEW w \in Worker, WorkerLoads(w) PROVE TypeInv'
  <2>1. loads' \in [Instr -> Nat] /\ errs' \subseteq Instr
    <3>1. wjob[w] \in Instr
      BY <1>18 DEF WorkerLoads
    <3>2. loads' \in [Instr -> Nat]
      <4>1. loads' = loads \/ CountLoad(wjob[w])
        BY <1>18 DEF WorkerLoads
      <4>2. ASSUME CountLoad(wjob[w]) PROVE loads' \in [Instr -> Nat]
        BY <3>1, <4>2, CountType DEF CountLoad
      <4>3. QED
        BY <4>1, <4>2
    <3>3. errs' \subseteq Instr
      BY <1>18, <3>1 DEF WorkerLoads, ReportError
    <3>4. QED
      BY <3>2, <3>3
  <2>2. TypeOK'
    BY <1>18, <2>1 DEF WorkerLoads
  <2>3. Phases'
    BY <1>18 DEF WorkerLoads
  <2>4. QED
    BY <2>2, <2>3
<1>19. ASSUME NEW w \in Worker, WorkerApplies(w) PROVE TypeInv'
  <2>1. TypeOK'
    BY <1>19 DEF WorkerApplies, StoreForm, MergeForm
  <2>2. Phases'
    BY <1>19 DEF WorkerApplies, StoreForm, MergeForm
  <2>3. QED
    BY <2>1, <2>2
<1>20. CASE Cancel
  BY <1>20 DEF Cancel
<1>21. CASE LosePage
  <2>1. page' \in [Instr -> Page]
    BY <1>21 DEF LosePage, Lost, Page
  <2>2. TypeOK'
    BY <1>21, <2>1 DEF LosePage
  <2>3. Phases'
    BY <1>21 DEF LosePage
  <2>4. QED
    BY <2>2, <2>3
<1>22. CASE UNCHANGED vars
  BY <1>22 DEF vars
<1>23. QED
  BY <1>1, <1>2, <1>3, <1>4, <1>5, <1>6, <1>7, <1>8, <1>9, <1>10, <1>11, <1>12, <1>13,
     <1>14, <1>15, <1>16, <1>17, <1>18, <1>19, <1>20, <1>21, <1>22
     DEF Next, Main, Work, Closed

\* Types hold for every configuration: in particular the channel carries
\* encodings only, and a worker holds a job exactly while it works on it.
THEOREM TypesHold == Spec => []TypeOK
<1>1. TypeInv => TypeOK
  BY DEF TypeInv
<1>2. QED
  BY TypeInit, TypeStep, <1>1, PTL DEF Spec

----------------------------------------------------------------------------
\* Pass 2 is over when Pass 3 begins.

\* Once Pass 2 has returned without error every worker has left, and nothing
\* is written after an error was reported.
FinalInv ==
  /\ AfterPass2 \/ written # {} => \A w \in Worker : wpc[w] = "exited"
  /\ pc \in {"pass3", "emit"} \/ written # {} => errs = {}

LEMMA FinalStep == TypeInv /\ FinalInv /\ [Next]_vars => FinalInv'
<1> SUFFICES ASSUME TypeInv, FinalInv, [Next]_vars PROVE FinalInv'
  OBVIOUS
<1> USE DEF FinalInv, AfterPass2, mainVars, poolVars, workerVars, irVars, cacheVars,
        emitVars, endVars, Fail
<1>1. CASE ReadIndex
  BY <1>1 DEF ReadIndex
<1>2. CASE AddRow
  BY <1>2 DEF AddRow
<1>3. CASE DiscoverAliases
  BY <1>3 DEF DiscoverAliases
<1>4. CASE StartPool
  <2>1. written = {} /\ result = "none"
    BY <1>4 DEF StartPool, TypeInv, Phases, BeforePool
  <2>2. QED
    BY <1>4, <2>1 DEF StartPool
<1>5. CASE QueueInstr
  BY <1>5 DEF QueueInstr
<1>6. CASE QueueCancelled
  BY <1>6 DEF QueueCancelled
<1>7. CASE CloseQueue
  BY <1>7 DEF CloseQueue
<1>8. CASE EndPass2
  <2>1. (pc' = "pass3" => errs = {}) /\ \A w \in Worker : wpc[w] = "exited"
    BY <1>8 DEF EndPass2, WaitWorkers, Refused
  <2>2. pc' \in {"validate", "pass3", "close"}
    BY <1>8 DEF EndPass2
  <2>3. QED
    BY <1>8, <2>1, <2>2 DEF EndPass2
<1>9. CASE StartPass3
  BY <1>9 DEF StartPass3
<1>10. CASE ReadPage
  <2>1. pc' \in {"emit", "close"} /\ pc = "emit" /\ UNCHANGED <<written, errs, wpc>>
    BY <1>10 DEF ReadPage
  <2>2. QED
    BY <2>1
<1>11. CASE WriteLanguage
  BY <1>11 DEF WriteLanguage
<1>12. CASE EndPass3
  BY <1>12 DEF EndPass3
<1>13. CASE Validate
  BY <1>13 DEF Validate
<1>14. CASE Output
  BY <1>14 DEF Output
<1>15. CASE Close
  BY <1>15 DEF Close
<1>16. ASSUME NEW w \in Worker, Work(w) PROVE FinalInv'
  <2>1. wpc[w] # "exited" /\ UNCHANGED <<pc, written, result>>
    BY <1>16 DEF Work, WorkerReceives, WorkerExits, WorkerLoads, WorkerApplies
  <2>2. ~AfterPass2 /\ written = {}
    BY <2>1
  <2>3. pc # "emit" /\ pc # "pass3"
    BY <2>2
  <2>4. QED
    BY <2>1, <2>2, <2>3
<1>17. CASE Cancel
  BY <1>17 DEF Cancel
<1>18. CASE LosePage
  BY <1>18 DEF LosePage
<1>19. CASE UNCHANGED vars
  BY <1>19 DEF vars
<1>20. QED
  BY <1>1, <1>2, <1>3, <1>4, <1>5, <1>6, <1>7, <1>8, <1>9, <1>10, <1>11, <1>12, <1>13,
     <1>14, <1>15, <1>16, <1>17, <1>18, <1>19 DEF Next, Main, Closed

LEMMA FinalHolds == Spec => [](TypeInv /\ FinalInv)
<1>1. Init => FinalInv
  BY DEF Init, FinalInv, AfterPass2
<1>2. QED
  BY <1>1, TypeInit, TypeStep, FinalStep, PTL DEF Spec

\* Code generation never follows a reported error, however late the worker
\* reported it.
THEOREM ErrorsStopCodegen == Spec => []ErrorsRefuseCodegen
<1>1. FinalInv => ErrorsRefuseCodegen
  BY DEF FinalInv, ErrorsRefuseCodegen
<1>2. QED
  BY <1>1, FinalHolds, PTL

\* Whatever reads the IR after Pass 2 reads its final state, without a lock.
THEOREM IRIsFrozen == Spec => IRFrozen
<1>1. TypeInv /\ FinalInv /\ [Next]_vars => [AfterPass2 => UNCHANGED irVars]_vars
  <2> SUFFICES ASSUME FinalInv, Next, AfterPass2 PROVE UNCHANGED irVars
    BY DEF irVars, vars
  <2>1. ASSUME NEW w \in Worker, Work(w) PROVE FALSE
    <3>1. wpc[w] # "exited"
      BY <2>1 DEF Work, WorkerReceives, WorkerExits, WorkerLoads, WorkerApplies
    <3>2. QED
      BY <3>1 DEF FinalInv
  <2>2. CASE Main
    BY <2>2, Zenon DEF Main, ReadIndex, AddRow, DiscoverAliases, StartPool, QueueInstr,
       QueueCancelled, CloseQueue, EndPass2, StartPass3, ReadPage, WriteLanguage, EndPass3,
       Validate, Output, Close
  <2>3. CASE Cancel \/ LosePage \/ Closed
    BY <2>3, Zenon DEF Cancel, LosePage, Closed, irVars, vars
  <2>4. QED
    BY <2>1, <2>2, <2>3 DEF Next
<1>2. QED
  BY <1>1, FinalHolds, PTL DEF Spec, IRFrozen

----------------------------------------------------------------------------
\* Validation precedes success.

\* From the validation on the IR passes it, and only run()'s success exports.
ValidInv ==
  /\ pc = "output" \/ result = "ok" => Bad = {}
  /\ exported => result = "ok"

LEMMA ValidStep == TypeInv /\ FinalInv /\ ValidInv /\ [Next]_vars => ValidInv'
<1> SUFFICES ASSUME TypeInv, FinalInv, ValidInv, [Next]_vars PROVE ValidInv'
  OBVIOUS
<1> USE DEF mainVars, poolVars, workerVars, irVars, cacheVars, emitVars, endVars, Fail
<1>1. result # "none" <=> pc \in {"close", "closed"}
  BY DEF TypeInv, Phases
<1>2. ASSUME \/ ReadIndex \/ AddRow \/ DiscoverAliases \/ StartPool \/ QueueInstr
             \/ QueueCancelled \/ CloseQueue \/ EndPass2 \/ StartPass3 \/ WriteLanguage
             \/ ReadPage \/ EndPass3
      PROVE  ValidInv'
  <2>1. /\ UNCHANGED <<input, resolved, exported>> /\ pc \notin {"close", "closed"}
        /\ pc' # "output"
    <3>1. CASE ReadIndex \/ AddRow \/ DiscoverAliases \/ StartPool \/ QueueInstr \/ QueueCancelled \/ CloseQueue
      BY <3>1 DEF ReadIndex, AddRow, DiscoverAliases, StartPool, QueueInstr, QueueCancelled, CloseQueue
    <3>2. CASE EndPass2 \/ StartPass3 \/ WriteLanguage \/ ReadPage \/ EndPass3
      BY <3>2 DEF EndPass2, WaitWorkers, StartPass3, WriteLanguage, ReadPage, EndPass3
    <3>3. QED
      BY <1>2, <3>1, <3>2
  <2>2. result = "none" /\ ~exported
    BY <1>1, <2>1 DEF ValidInv
  <2>3. result' # "ok"
    <3>1. CASE ReadIndex \/ AddRow \/ DiscoverAliases \/ StartPool \/ QueueInstr \/ QueueCancelled \/ CloseQueue
      BY <2>2, <3>1 DEF ReadIndex, AddRow, DiscoverAliases, StartPool, QueueInstr, QueueCancelled, CloseQueue
    <3>2. CASE EndPass2 \/ StartPass3 \/ WriteLanguage \/ ReadPage \/ EndPass3
      BY <2>2, <3>2 DEF EndPass2, WaitWorkers, StartPass3, WriteLanguage, ReadPage, EndPass3
    <3>3. QED
      BY <1>2, <3>1, <3>2
  <2>4. QED
    BY <2>1, <2>2, <2>3 DEF ValidInv
\* The IR that is exported is the IR just validated: Validate reads it whole.
<1>3. CASE Validate
  <2>1. pc = "validate" /\ result = "none" /\ UNCHANGED <<input, resolved, exported>>
    BY <1>1, <1>3 DEF Validate
  <2>2. result' # "ok" /\ (pc' = "output" => Bad = {})
    BY <1>3, <2>1 DEF Validate
  <2>3. QED
    BY <2>1, <2>2 DEF ValidInv, Bad
<1>4. CASE Output
  <2>1. pc = "output" /\ result = "none" /\ pc' = "close" /\ UNCHANGED <<input, resolved>>
    BY <1>1, <1>4 DEF Output
  <2>2. exported' => result' = "ok"
    BY <1>4, <2>1 DEF Output, ValidInv
  <2>3. QED
    BY <2>1, <2>2 DEF ValidInv, Bad
<1>5. CASE Close
  BY <1>5 DEF Close, ValidInv, Bad
\* And no worker is left to change it afterwards.
<1>6. ASSUME NEW w \in Worker, Work(w) PROVE ValidInv'
  <2>1. wpc[w] # "exited" /\ UNCHANGED <<pc, result, exported>>
    BY <1>6 DEF Work, WorkerReceives, WorkerExits, WorkerLoads, WorkerApplies
  <2>2. pc # "output" /\ result # "ok"
    BY <2>1 DEF FinalInv, AfterPass2
  <2>3. QED
    BY <2>1, <2>2 DEF ValidInv
<1>7. CASE Cancel \/ LosePage \/ UNCHANGED vars
  <2>1. UNCHANGED <<input, pc, result, exported, resolved>>
    BY <1>7, Zenon DEF Cancel, LosePage, vars
  <2>2. QED
    BY <2>1 DEF ValidInv, Bad
<1>8. QED
  BY <1>2, <1>3, <1>4, <1>5, <1>6, <1>7 DEF Next, Main, Closed

\* mkasm exports and reports success only for IR its validator accepted, in
\* the very state it is exported in, for any input and number of workers.
THEOREM SuccessIsOfValidIR == Spec => []SuccessIsValid
<1>1. Init => ValidInv
  BY DEF Init, ValidInv
<1>2. ValidInv => SuccessIsValid
  BY DEF ValidInv, SuccessIsValid, Bad
<1>3. QED
  BY <1>1, <1>2, FinalHolds, ValidStep, PTL DEF Spec

----------------------------------------------------------------------------
\* Full generation.

\* Every acceptable row of a list is registered or still to be added.
CoveredBy(ids, list, left) ==
  \A k \in DOMAIN list : list[k].ok =>
    list[k].id \in ids \/ \E j \in DOMAIN left : left[j] = list[k]

Covered(list, left) == CoveredBy(Registered, list, left)

CoverInv ==
  /\ pc = "rows" => Covered(input.rows, todo)
  /\ pc = "aliases" => Covered(input.rows, << >>) /\ Covered(input.aliases, todo)
  /\ pc \in {"queue", "wait", "pass3", "emit"} \/ written # {} =>
       Covered(input.rows, << >>) /\ Covered(input.aliases, << >>)
  /\ (pc = "emit" \/ written # {}) /\ input.maxIForms = 0 => emitted = Registered

\* registry.Add keeps what is registered and registers an acceptable row.
LEMMA AddRegisters ==
  ASSUME registry \in Seq(Instr), NEW r \in Row, Add(r)
  PROVE  Registered' = IF r.ok THEN Registered \cup {r.id} ELSE Registered
<1>1. r.id \in Instr
  BY DEF Row
<1>2. CASE r.ok /\ r.id \notin Registered
  <2>1. registry' = Append(registry, r.id)
    BY <1>2 DEF Add
  <2>2. /\ DOMAIN registry' = 1..(Len(registry) + 1) /\ Len(registry) \in Nat
        /\ \A k \in 1..Len(registry) : registry'[k] = registry[k]
        /\ registry'[Len(registry) + 1] = r.id
    BY <1>1, <2>1
  <2>3. DOMAIN registry = 1..Len(registry)
    OBVIOUS
  <2>4. Registered' = Registered \cup {r.id}
    BY <2>2, <2>3 DEF Registered
  <2>5. QED
    BY <1>2, <2>4
<1>3. CASE ~(r.ok /\ r.id \notin Registered)
  <2>1. registry' = registry
    BY <1>3 DEF Add
  <2>2. Registered' = Registered
    BY <2>1 DEF Registered
  <2>3. QED
    BY <1>3, <2>2
<1>4. QED
  BY <1>2, <1>3

\* Registering the first of the rows left keeps a list covered by the rest.
LEMMA CoverTail ==
  ASSUME NEW R, NEW R2, NEW list, NEW left \in Seq(Row), left # << >>, R \subseteq R2,
         Head(left).ok => Head(left).id \in R2,
         CoveredBy(R, list, left)
  PROVE  CoveredBy(R2, list, Tail(left))
<1> SUFFICES ASSUME NEW k \in DOMAIN list, list[k].ok, list[k].id \notin R2
             PROVE  \E j \in DOMAIN Tail(left) : Tail(left)[j] = list[k]
  BY DEF CoveredBy
<1>1. PICK j \in DOMAIN left : left[j] = list[k]
  BY DEF CoveredBy
<1>2. j \in 1..Len(left) /\ j # 1
  BY <1>1, HeadTail
<1>3. j - 1 \in 1..Len(Tail(left)) /\ Tail(left)[j - 1] = left[j]
  BY <1>2, HeadTail
<1>4. j - 1 \in DOMAIN Tail(left)
  BY <1>3, HeadTail
<1>5. QED
  BY <1>1, <1>3, <1>4

LEMMA CoverStep == TypeInv /\ FinalInv /\ CoverInv /\ [Next]_vars => CoverInv'
<1> SUFFICES ASSUME TypeInv, FinalInv, CoverInv, [Next]_vars PROVE CoverInv'
  OBVIOUS
<1> USE DEF CoverInv, mainVars, poolVars, workerVars, irVars, cacheVars, emitVars,
        endVars, Fail
<1>0. /\ todo \in Seq(Row) \cup Seq(Instr) /\ registry \in Seq(Instr)
      /\ BeforePool => todo \in Seq(Row) /\ written = {}
  BY DEF TypeInv, TypeOK, Phases
<1>1. CASE ReadIndex
  <2>1. Covered(input.rows, input.rows)'
    BY <1>1 DEF ReadIndex, Covered, CoveredBy
  <2>2. written' = {}
    BY <1>0, <1>1 DEF ReadIndex, BeforePool
  <2>3. QED
    BY <1>1, <2>1, <2>2 DEF ReadIndex
<1>2. CASE AddRow
  <2>1. todo \in Seq(Row) /\ todo # << >> /\ Head(todo) \in Row /\ written = {}
    BY <1>0, <1>2, HeadTail DEF AddRow, BeforePool
  <2>2. Registered \subseteq Registered' /\ (Head(todo).ok => Head(todo).id \in Registered')
    BY <1>0, <1>2, <2>1, AddRegisters DEF AddRow
  <2>3. UNCHANGED <<input, pc, written>> /\ pc \in {"rows", "aliases"} /\ todo' = Tail(todo)
    BY <1>2 DEF AddRow
  <2>4. CASE pc = "rows"
    <3>1. CoveredBy(Registered, input.rows, todo)
      BY <2>4 DEF Covered
    <3>2. CoveredBy(Registered', input.rows, Tail(todo))
      BY <2>1, <2>2, <3>1, CoverTail, Zenon
    <3>3. Covered(input.rows, todo)'
      BY <2>3, <3>2 DEF Covered
    <3>4. QED
      BY <2>1, <2>3, <2>4, <3>3
  <2>5. CASE pc = "aliases"
    <3>1. CoveredBy(Registered, input.aliases, todo)
      BY <2>5 DEF Covered
    <3>2. CoveredBy(Registered', input.aliases, Tail(todo))
      BY <2>1, <2>2, <3>1, CoverTail, Zenon
    <3>3. Covered(input.aliases, todo)'
      BY <2>3, <3>2 DEF Covered
    <3>4. Covered(input.rows, << >>)'
      BY <2>2, <2>3, <2>5 DEF Covered, CoveredBy
    <3>5. QED
      BY <2>1, <2>3, <2>5, <3>3, <3>4
  <2>6. QED
    BY <2>3, <2>4, <2>5
<1>3. CASE DiscoverAliases
  <2>1. Registered' = Registered
    BY <1>3 DEF DiscoverAliases, Registered
  <2>2. written = {} /\ pc = "rows" /\ todo = << >>
    BY <1>0, <1>3 DEF DiscoverAliases, BeforePool
  <2>3. Covered(input.rows, << >>)' /\ Covered(input.aliases, input.aliases)'
    BY <1>3, <2>1, <2>2 DEF DiscoverAliases, Covered, CoveredBy
  <2>4. QED
    BY <1>3, <2>2, <2>3 DEF DiscoverAliases
<1>4. CASE StartPool
  <2>1. Registered' = Registered
    BY <1>4 DEF StartPool, Registered
  <2>2. Covered(input.rows, << >>)' /\ Covered(input.aliases, << >>)'
    BY <1>4, <2>1 DEF StartPool, Covered, CoveredBy
  <2>3. written' = {}
    BY <1>0, <1>4 DEF StartPool, BeforePool
  <2>4. QED
    BY <1>4, <2>2, <2>3 DEF StartPool
<1>5. CASE StartPass3
  <2>1. Registered' = Registered /\ UNCHANGED input
    BY <1>5 DEF StartPass3, Registered
  <2>2. Covered(input.rows, << >>)' /\ Covered(input.aliases, << >>)'
    <3>1. Covered(input.rows, << >>) /\ Covered(input.aliases, << >>)
      BY <1>5 DEF StartPass3
    <3>2. QED
      BY <2>1, <3>1 DEF Covered, CoveredBy
  <2>3. pc' = "emit" /\ input.maxIForms = 0 => emitted' = Registered'
    BY <1>5, <2>1 DEF StartPass3, Incomplete
  <2>4. written # {} => emitted' = emitted \/ (input.maxIForms = 0 => emitted' = Registered')
    BY <1>5, <2>3 DEF StartPass3
  <2>5. QED
    BY <1>5, <2>1, <2>2, <2>3, <2>4 DEF StartPass3
<1>6. ASSUME \/ QueueInstr \/ QueueCancelled \/ CloseQueue \/ EndPass2 \/ ReadPage
             \/ WriteLanguage \/ EndPass3 \/ Validate \/ Output \/ Close
             \/ (\E w \in Worker : Work(w)) \/ Cancel \/ LosePage \/ UNCHANGED vars
      PROVE  CoverInv'
  <2>1. UNCHANGED <<input, registry, emitted>>
    BY <1>6, Zenon DEF QueueInstr, QueueCancelled, CloseQueue, EndPass2, ReadPage,
       WriteLanguage, EndPass3, Validate, Output, Close, Work, WorkerReceives, WorkerExits,
       WorkerLoads, WorkerApplies, Cancel, LosePage, vars
  <2>2. Registered' = Registered
    BY <2>1 DEF Registered
  <2>3. /\ pc' \in {"queue", "wait", "pass3", "emit"} => pc \in {"queue", "wait", "pass3", "emit"}
        /\ pc' \in {"rows", "aliases"} => UNCHANGED <<pc, todo>>
        /\ pc' = "emit" => pc = "emit"
        /\ written' # {} => written # {} \/ pc = "emit"
    <3>1. CASE QueueInstr \/ QueueCancelled \/ CloseQueue \/ EndPass2
      BY <3>1 DEF QueueInstr, QueueCancelled, CloseQueue, EndPass2, WaitWorkers
    <3>2. CASE ReadPage
      BY <3>2 DEF ReadPage
    <3>3. CASE WriteLanguage \/ EndPass3 \/ Validate \/ Output \/ Close
      BY <3>3 DEF WriteLanguage, EndPass3, Validate, Output, Close
    <3>4. CASE (\E w \in Worker : Work(w)) \/ Cancel \/ LosePage \/ UNCHANGED vars
      <4>1. UNCHANGED <<pc, todo, written>>
        BY <3>4, Zenon DEF Work, WorkerReceives, WorkerExits, WorkerLoads, WorkerApplies,
           Cancel, LosePage, vars, mainVars, emitVars
      <4>2. QED
        BY <4>1
    <3>5. QED
      BY <1>6, <3>1, <3>2, <3>3, <3>4
  <2>4. /\ Covered(input.rows, << >>) => Covered(input.rows, << >>)'
        /\ Covered(input.aliases, << >>) => Covered(input.aliases, << >>)'
        /\ todo' = todo => /\ Covered(input.rows, todo) => Covered(input.rows, todo)'
                           /\ Covered(input.aliases, todo) => Covered(input.aliases, todo)'
    BY <2>1, <2>2 DEF Covered, CoveredBy
  <2>5. QED
    BY <2>1, <2>2, <2>3, <2>4
<1>7. QED
  BY <1>1, <1>2, <1>3, <1>4, <1>5, <1>6 DEF Next, Main, Closed

\* A project written without a limit is generated from every acceptable row
\* of the index and of the alias scan.
THEOREM FullGenerationIsComplete == Spec => []FullGenerationComplete
<1>1. Init => CoverInv
  BY DEF Init, CoverInv
<1>2. CoverInv => FullGenerationComplete
  <2> SUFFICES ASSUME CoverInv, written # {}, input.maxIForms = 0,
                      NEW s \in {input.rows, input.aliases}, NEW k \in DOMAIN s, s[k].ok
               PROVE  s[k].id \in emitted
    BY DEF FullGenerationComplete
  <2>1. Covered(s, << >>) /\ emitted = Registered
    BY DEF CoverInv
  <2>2. QED
    BY <2>1 DEF Covered, CoveredBy
<1>3. Spec => []CoverInv
  BY <1>1, FinalHolds, CoverStep, PTL DEF Spec
<1>4. QED
  BY <1>2, <1>3, PTL

----------------------------------------------------------------------------
\* Jobs.

\* The first Taken entries of the registry have left the queue, to be handled
\* or dropped; the rest of what was queued is in the channel, in order.
Taken == queued - Len(workCh)
Handled == {registry[k] : k \in 1..Taken}

JobInv ==
  /\ \A j, k \in DOMAIN registry : registry[j] = registry[k] => j = k
  /\ Len(workCh) <= queued /\ queued <= Len(registry)
  /\ pc = "queue" => /\ Len(todo) = Len(registry) - queued
                     /\ \A k \in 1..Len(todo) : todo[k] = registry[queued + k]
  /\ \A k \in 1..Len(workCh) : workCh[k] = registry[Taken + k]
  /\ applied \cup errs \subseteq Handled
  /\ \A w \in Worker : wjob[w] # NoJob => wjob[w] \in Handled \ (applied \cup errs)
  /\ \A v, w \in Worker : v # w /\ wjob[v] # NoJob => wjob[v] # wjob[w]

\* While the context is alive a job that left the queue is being worked on or
\* answered, and a worker leaves only a drained and closed queue.
AnswerInv ==
  /\ \A i \in Instr : page[i] = "nofile" <=> input.page[i] = "nofile"
  /\ ~cancelled =>
       /\ \A i \in Handled : \/ i \in applied \cup errs \/ input.page[i] = "nofile"
                             \/ \E w \in Worker : wjob[w] = i
       /\ \A w \in Worker : wpc[w] = "exited" => workCh = << >> /\ chClosed

LEMMA HandledGrows ==
  ASSUME TypeOK, JobInv, workCh # << >>, workCh' = Tail(workCh), UNCHANGED <<registry, queued>>
  PROVE  /\ Handled' = Handled \cup {Head(workCh)}
         /\ Head(workCh) \in Instr \ Handled
         /\ Taken' = Taken + 1 /\ Taken \in Nat
<1>1. /\ Len(workCh) \in Nat \ {0} /\ Len(Tail(workCh)) = Len(workCh) - 1
      /\ Head(workCh) = workCh[1] /\ Head(workCh) \in Instr /\ queued \in Nat
  BY HeadTail DEF TypeOK
<1>2. Taken' = Taken + 1 /\ Taken \in Nat
  BY <1>1 DEF Taken, JobInv
<1>3. Head(workCh) = registry[Taken + 1]
  BY <1>1 DEF JobInv
<1>4. Handled' = Handled \cup {Head(workCh)}
  BY <1>2, <1>3 DEF Handled
<1>5. Taken + 1 <= Len(registry) /\ DOMAIN registry = 1..Len(registry) /\ Len(registry) \in Nat
  BY <1>1, <1>2 DEF Taken, JobInv, TypeOK
<1>6. Head(workCh) \notin Handled
  BY <1>2, <1>3, <1>5 DEF Handled, JobInv
<1>7. QED
  BY <1>1, <1>2, <1>4, <1>6

\* Steps outside Pass 1 and the queue keep the parts of JobInv about them.
LEMMA JobFrame ==
  ASSUME JobInv, UNCHANGED <<registry, queued, workCh, applied, errs, wjob>>,
         pc' = "queue" => UNCHANGED <<pc, todo>>
  PROVE  JobInv'
<1>1. Taken' = Taken
  BY DEF Taken
<1>2. Handled' = Handled
  BY <1>1 DEF Handled
<1>3. QED
  BY <1>1, <1>2 DEF JobInv

LEMMA JobStep == TypeInv /\ JobInv /\ [Next]_vars => JobInv'
<1> SUFFICES ASSUME TypeInv, JobInv, [Next]_vars PROVE JobInv'
  OBVIOUS
<1> USE DEF mainVars, poolVars, workerVars, irVars, cacheVars, emitVars, endVars, Fail
<1>0. TypeOK /\ (BeforePool => queued = 0 /\ workCh = << >> /\ applied = {} /\ errs = {}
                               /\ \A w \in Worker : wjob[w] = NoJob)
  BY DEF TypeInv, Phases, TypeOK
<1>1. CASE AddRow
  <2>1. /\ todo \in Seq(Row) /\ todo # << >> /\ Head(todo) \in Row /\ Head(todo).id \in Instr
    <3>1. todo \in Seq(Row) /\ todo # << >>
      BY <1>1 DEF AddRow, TypeInv, Phases, BeforePool
    <3>2. Head(todo) \in Row
      BY <3>1, HeadTail
    <3>3. QED
      BY <3>1, <3>2 DEF Row
  <2>2. /\ queued' = 0 /\ workCh' = << >> /\ applied' = {} /\ errs' = {} /\ pc' # "queue"
        /\ \A w \in Worker : wjob'[w] = NoJob
    BY <1>0, <1>1 DEF AddRow, BeforePool
  <2>3. registry \in Seq(Instr) /\ registry' \in Seq(Instr)
    BY <1>0, <1>1, <2>1, AppendType DEF TypeOK, AddRow, Add
  <2>4. \A j, k \in DOMAIN registry' : registry'[j] = registry'[k] => j = k
    <3>1. CASE registry' = registry
      BY <3>1 DEF JobInv
    <3>2. CASE registry' = Append(registry, Head(todo).id) /\ Head(todo).id \notin Registered
      <4>1. /\ DOMAIN registry = 1..Len(registry) /\ Len(registry) \in Nat
            /\ DOMAIN registry' = 1..(Len(registry) + 1)
            /\ \A k \in 1..Len(registry) : registry'[k] = registry[k]
            /\ registry'[Len(registry) + 1] = Head(todo).id
        BY <2>1, <2>3, <3>2
      <4>2. \A k \in 1..Len(registry) : registry[k] # Head(todo).id
        BY <3>2, <4>1 DEF Registered
      <4>3. QED
        BY <4>1, <4>2 DEF JobInv
    <3>3. QED
      BY <1>1, <3>1, <3>2 DEF AddRow, Add
  <2>5. Taken' = 0 /\ Handled' = {}
    <3>1. Taken' = 0
      <4>1. queued' = 0 /\ Len(workCh') = 0
        BY <2>2
      <4>2. QED
        BY <4>1 DEF Taken
    <3>2. QED
      BY <3>1 DEF Handled
  <2>6. QED
    BY <2>2, <2>3, <2>4, <2>5 DEF JobInv
<1>2. CASE StartPool
  <2>1. queued = 0 /\ todo' = registry /\ registry \in Seq(Instr)
    BY <1>0, <1>2 DEF StartPool, BeforePool, TypeOK
  <2>2. Taken' = Taken /\ Handled' = Handled
    BY <1>2 DEF StartPool, Taken, Handled
  <2>3. QED
    BY <1>2, <2>1, <2>2 DEF StartPool, JobInv
<1>3. CASE QueueInstr
  <2>1. /\ todo \in Seq(Instr) /\ todo # << >> /\ pc = "queue"
    BY <1>3 DEF QueueInstr, TypeInv, Phases
  <2>2. /\ Head(todo) = registry[queued + 1] /\ Head(todo) \in Instr
        /\ Len(todo) \in Nat \ {0} /\ Len(Tail(todo)) = Len(todo) - 1
        /\ \A k \in 1..Len(Tail(todo)) : Tail(todo)[k] = todo[k + 1]
    BY <2>1, HeadTail DEF JobInv
  <2>3. /\ Len(workCh') = Len(workCh) + 1 /\ Len(workCh) \in Nat /\ queued \in Nat
        /\ \A k \in 1..Len(workCh) : workCh'[k] = workCh[k]
        /\ workCh'[Len(workCh) + 1] = Head(todo)
    BY <1>0, <1>3, <2>2 DEF QueueInstr, TypeOK
  <2>4. Taken' = Taken /\ Taken \in Nat /\ queued' = queued + 1 /\ Taken + Len(workCh) = queued
    BY <1>3, <2>3 DEF QueueInstr, Taken, JobInv
  <2>5. Handled' = Handled
    BY <1>3, <2>4 DEF QueueInstr, Handled
  <2>6. /\ Len(workCh') <= queued' /\ queued' <= Len(registry)
        /\ Len(todo') = Len(registry) - queued'
    <3>1. /\ todo' = Tail(todo) /\ Len(todo) = Len(registry) - queued
          /\ Len(workCh) <= queued /\ Len(registry) \in Nat
      BY <1>0, <1>3, <2>1 DEF QueueInstr, JobInv, TypeOK
    <3>2. QED
      BY <2>2, <2>3, <2>4, <3>1
  <2>7. \A k \in 1..Len(todo') : todo'[k] = registry[queued' + k]
    <3>1. todo' = Tail(todo) /\ \A k \in 1..Len(todo) : todo[k] = registry[queued + k]
      BY <1>3, <2>1 DEF QueueInstr, JobInv
    <3>2. QED
      BY <2>2, <2>3, <2>4, <3>1
  <2>8. \A k \in 1..Len(workCh') : workCh'[k] = registry[Taken' + k]
    <3>1. \A k \in 1..Len(workCh) : workCh'[k] = registry[Taken' + k]
      BY <2>3, <2>4 DEF JobInv
    <3>2. workCh'[Len(workCh) + 1] = registry[Taken' + (Len(workCh) + 1)]
      BY <2>2, <2>3, <2>4
    <3>3. QED
      BY <2>3, <3>1, <3>2
  <2>9. QED
    BY <1>3, <2>4, <2>5, <2>6, <2>7, <2>8 DEF QueueInstr, JobInv
<1>4. ASSUME NEW w \in Worker, WorkerReceives(w) PROVE JobInv'
  <2>1. /\ workCh # << >> /\ workCh' = Tail(workCh) /\ wpc[w] = "receive"
        /\ UNCHANGED <<registry, queued, pc, todo, applied, errs>>
    BY <1>4 DEF WorkerReceives
  <2>2. /\ Handled' = Handled \cup {Head(workCh)} /\ Head(workCh) \in Instr \ Handled
        /\ Taken' = Taken + 1 /\ Taken \in Nat
    BY <1>0, <2>1, HandledGrows
  <2>3. wjob' = wjob \/ wjob' = [wjob EXCEPT ![w] = Head(workCh)]
    BY <1>4, Zenon DEF WorkerReceives
  <2>4. \A v \in Worker : v # w => wjob'[v] = wjob[v]
    BY <1>0, <2>3 DEF TypeOK
  <2>5. wjob'[w] \in {NoJob, Head(workCh)}
    <3>1. wjob[w] = NoJob /\ wjob \in [Worker -> Instr \cup {NoJob}]
      BY <2>1, <1>0 DEF TypeInv, Phases, TypeOK
    <3>2. QED
      BY <2>3, <3>1
  <2>6. /\ Len(workCh) \in Nat \ {0} /\ Len(workCh') = Len(workCh) - 1
        /\ \A k \in 1..Len(workCh') : workCh'[k] = workCh[k + 1]
    BY <1>0, <2>1, HeadTail DEF TypeOK
  <2>7. \A k \in 1..Len(workCh') : workCh'[k] = registry'[Taken' + k]
    BY <2>1, <2>2, <2>6 DEF JobInv
  <2>8. \A v \in Worker : wjob'[v] # NoJob => wjob'[v] \in Handled' \ (applied' \cup errs')
    BY <2>1, <2>2, <2>4, <2>5 DEF JobInv
  <2>9. \A u, v \in Worker : u # v /\ wjob'[u] # NoJob => wjob'[u] # wjob'[v]
    <3>1. \A v \in Worker : v # w /\ wjob'[v] # NoJob => wjob'[v] \in Handled
      BY <2>4 DEF JobInv
    <3>2. QED
      BY <2>2, <2>4, <2>5, <3>1 DEF JobInv
  <2>10. QED
    BY <2>1, <2>2, <2>6, <2>7, <2>8, <2>9, <1>0 DEF JobInv, TypeOK
<1>5. ASSUME NEW w \in Worker, WorkerLoads(w) \/ WorkerApplies(w) PROVE JobInv'
  <2>1. /\ UNCHANGED <<registry, queued, workCh, pc, todo>>
        /\ wpc[w] \in {"load", "apply"}
    BY <1>5 DEF WorkerLoads, WorkerApplies
  <2>2. Taken' = Taken /\ Handled' = Handled
    BY <2>1 DEF Taken, Handled
  <2>3. wjob \in [Worker -> Instr \cup {NoJob}] /\ wjob[w] # NoJob
    BY <1>0, <2>1 DEF TypeInv, Phases, TypeOK
  <2>4. \/ UNCHANGED <<wjob, applied, errs>>
        \/ /\ wjob' = [wjob EXCEPT ![w] = NoJob]
           /\ applied' \cup errs' = applied \cup errs \cup {wjob[w]}
    BY <1>5 DEF WorkerLoads, WorkerApplies, ReportError, MergeForm
  <2>5. CASE UNCHANGED <<wjob, applied, errs>>
    BY <2>1, <2>5, JobFrame
  <2>6. CASE /\ wjob' = [wjob EXCEPT ![w] = NoJob]
             /\ applied' \cup errs' = applied \cup errs \cup {wjob[w]}
    <3>1. wjob'[w] = NoJob /\ \A v \in Worker : v # w => wjob'[v] = wjob[v]
      BY <2>3, <2>6
    <3>2. applied' \cup errs' \subseteq Handled'
      BY <2>2, <2>3, <2>6 DEF JobInv
    <3>3. \A v \in Worker : wjob'[v] # NoJob => wjob'[v] \in Handled' \ (applied' \cup errs')
      BY <2>2, <2>3, <2>6, <3>1 DEF JobInv
    <3>4. \A u, v \in Worker : u # v /\ wjob'[u] # NoJob => wjob'[u] # wjob'[v]
      BY <3>1 DEF JobInv
    <3>5. QED
      BY <2>1, <2>2, <3>2, <3>3, <3>4 DEF JobInv
  <2>7. QED
    BY <2>4, <2>5, <2>6
<1>6. ASSUME \/ ReadIndex \/ DiscoverAliases \/ QueueCancelled \/ CloseQueue \/ EndPass2
             \/ StartPass3 \/ ReadPage \/ WriteLanguage \/ EndPass3 \/ Validate \/ Output
             \/ Close \/ (\E w \in Worker : WorkerExits(w)) \/ Cancel \/ LosePage
             \/ UNCHANGED vars
      PROVE  JobInv'
  <2>1. UNCHANGED <<registry, queued, workCh, applied, errs, wjob>>
    BY <1>6, Zenon DEF ReadIndex, DiscoverAliases, QueueCancelled, CloseQueue, EndPass2,
       StartPass3, ReadPage, WriteLanguage, EndPass3, Validate, Output, Close, WorkerExits,
       Cancel, LosePage, vars
  <2>2. pc' = "queue" => UNCHANGED <<pc, todo>>
    <3>1. CASE ReadIndex \/ DiscoverAliases \/ QueueCancelled \/ CloseQueue \/ EndPass2
      BY <3>1 DEF ReadIndex, DiscoverAliases, QueueCancelled, CloseQueue, EndPass2, WaitWorkers
    <3>2. CASE StartPass3 \/ ReadPage \/ WriteLanguage \/ EndPass3
      BY <3>2 DEF StartPass3, ReadPage, WriteLanguage, EndPass3
    <3>3. CASE Validate \/ Output \/ Close
      BY <3>3 DEF Validate, Output, Close
    <3>4. CASE (\E w \in Worker : WorkerExits(w)) \/ Cancel \/ LosePage \/ UNCHANGED vars
      BY <3>4, Zenon DEF WorkerExits, Cancel, LosePage, vars
    <3>5. QED
      BY <1>6, <3>1, <3>2, <3>3, <3>4
  <2>3. QED
    BY <2>1, <2>2, JobFrame
<1>7. QED
  BY <1>1, <1>2, <1>3, <1>4, <1>5, <1>6 DEF Next, Main, Work, Closed

LEMMA JobInit == Init => JobInv
<1> SUFFICES ASSUME Init PROVE JobInv
  OBVIOUS
<1>1. /\ queued = 0 /\ workCh = << >> /\ registry = << >> /\ pc = "index"
      /\ applied = {} /\ errs = {} /\ \A w \in Worker : wjob[w] = NoJob
  BY DEF Init
<1>2. QED
  BY <1>1 DEF JobInv, Handled

\* No two workers ever hold, nor one after the other process, one encoding.
THEOREM WorkersNeverShare == Spec => []OneWorkerPerInstr
<1>1. Init => JobInv
  BY JobInit
<1>2. TypeInv /\ JobInv => OneWorkerPerInstr
  <2> SUFFICES ASSUME TypeInv, JobInv, NEW w \in Worker, wjob[w] # NoJob
               PROVE  /\ wjob[w] \notin applied \cup errs
                      /\ \A v \in Worker \ {w} : wjob[v] # wjob[w]
                      /\ \A k \in DOMAIN workCh : workCh[k] # wjob[w]
    BY DEF OneWorkerPerInstr
  <2>1. PICK h \in 1..Taken : registry[h] = wjob[w]
    BY DEF JobInv, Handled
  <2>2. ASSUME NEW k \in DOMAIN workCh PROVE workCh[k] # wjob[w]
    <3>1. /\ k \in 1..Len(workCh) /\ Len(workCh) \in Nat /\ queued \in Nat
          /\ Len(registry) \in Nat /\ DOMAIN registry = 1..Len(registry)
      BY DEF TypeInv, TypeOK
    <3>2. workCh[k] = registry[Taken + k]
      BY <3>1 DEF JobInv
    <3>3. Taken + k \in DOMAIN registry /\ h \in DOMAIN registry /\ h # Taken + k
      <4>1. Taken + Len(workCh) = queued /\ Taken \in Nat /\ queued <= Len(registry)
        <5>1. Len(workCh) <= queued /\ queued <= Len(registry)
          BY DEF JobInv
        <5>2. QED
          BY <3>1, <5>1 DEF Taken
      <4>2. QED
        BY <3>1, <4>1
    <3>4. QED
      BY <2>1, <3>2, <3>3 DEF JobInv
  <2>3. QED
    BY <2>2 DEF JobInv
<1>3. Spec => [](TypeInv /\ JobInv)
  BY <1>1, TypeInit, TypeStep, JobStep, PTL DEF Spec
<1>4. QED
  BY <1>2, <1>3, PTL

\* Steps that leave the jobs and the answers alone keep AnswerInv.
LEMMA AnswerFrame ==
  ASSUME AnswerInv, UNCHANGED <<input, page, registry, queued, workCh, applied, errs, wjob>>,
         cancelled => cancelled', chClosed => chClosed',
         \A w \in Worker :
           wpc'[w] = "exited" => wpc[w] = "exited" \/ (workCh = << >> /\ chClosed)
  PROVE  AnswerInv'
<1>1. Handled' = Handled
  BY DEF Handled, Taken
<1>2. \A i \in Instr : page'[i] = "nofile" <=> input'.page[i] = "nofile"
  BY DEF AnswerInv
<1>3. ASSUME ~cancelled'
      PROVE  /\ \A i \in Handled' :
                  \/ i \in applied' \cup errs' \/ input'.page[i] = "nofile"
                  \/ \E w \in Worker : wjob'[w] = i
             /\ \A w \in Worker : wpc'[w] = "exited" => workCh' = << >> /\ chClosed'
  BY <1>1, <1>3 DEF AnswerInv
<1>4. QED
  BY <1>2, <1>3 DEF AnswerInv

LEMMA AnswerStep == TypeInv /\ FinalInv /\ JobInv /\ AnswerInv /\ [Next]_vars => AnswerInv'
<1> SUFFICES ASSUME TypeInv, FinalInv, JobInv, AnswerInv, [Next]_vars PROVE AnswerInv'
  OBVIOUS
<1> USE DEF mainVars, poolVars, workerVars, irVars, cacheVars, emitVars, endVars, Fail
<1>0. TypeOK
  BY DEF TypeInv
<1>1. CASE AddRow
  <2>1. /\ queued' = 0 /\ workCh' = << >> /\ UNCHANGED <<input, page, wpc, cancelled, chClosed>>
        /\ \A w \in Worker : wpc[w] = "unborn"
    BY <1>1 DEF AddRow, TypeInv, Phases, BeforePool
  <2>2. Handled' = {}
    <3>1. queued' = 0 /\ Len(workCh') = 0
      BY <2>1
    <3>2. Taken' = 0
      BY <3>1 DEF Taken
    <3>3. QED
      BY <3>2 DEF Handled
  <2>3. QED
    BY <2>1, <2>2 DEF AnswerInv
<1>2. CASE StartPool
  <2>1. \A w \in Worker : wpc'[w] # "exited"
    BY <1>2 DEF StartPool
  <2>2. QED
    BY <1>2, <2>1, AnswerFrame DEF StartPool
<1>3. CASE QueueInstr
  <2>1. /\ UNCHANGED <<input, page, registry, applied, errs, wjob, wpc, cancelled>>
        /\ pc = "queue" /\ ~chClosed
    BY <1>3 DEF QueueInstr, TypeInv, Phases
  <2>2. Handled' = Handled
    <3>1. todo \in Seq(Instr) /\ todo # << >>
      BY <1>3 DEF QueueInstr, TypeInv, Phases
    <3>2. Head(todo) \in Instr
      BY <3>1, HeadTail
    <3>3. Len(workCh') = Len(workCh) + 1 /\ queued' = queued + 1
      BY <1>0, <1>3, <3>2 DEF QueueInstr, TypeOK
    <3>4. Taken' = Taken
      BY <1>0, <3>3 DEF Taken, TypeOK
    <3>5. QED
      BY <2>1, <3>4 DEF Handled
  <2>3. ~cancelled => \A w \in Worker : wpc[w] # "exited"
    BY <2>1 DEF AnswerInv
  <2>4. QED
    BY <2>1, <2>2, <2>3 DEF AnswerInv
<1>4. ASSUME NEW w \in Worker, WorkerReceives(w) PROVE AnswerInv'
  <2>1. /\ workCh # << >> /\ workCh' = Tail(workCh) /\ wpc[w] = "receive"
        /\ UNCHANGED <<input, page, registry, queued, applied, errs, chClosed, cancelled>>
    BY <1>4 DEF WorkerReceives
  <2>2. CASE cancelled
    BY <2>1, <2>2 DEF AnswerInv
  <2>3. CASE ~cancelled
    <3>1. Handled' = Handled \cup {Head(workCh)} /\ Head(workCh) \in Instr
      BY <1>0, <2>1, HandledGrows DEF JobStep
    <3>2. wjob \in [Worker -> Instr \cup {NoJob}] /\ wpc \in [Worker -> {"unborn", "receive", "load", "apply", "exited"}]
      BY <1>0 DEF TypeOK
    <3>3. wjob[w] = NoJob
      BY <2>1 DEF TypeInv, Phases
    <3>4. \/ page[Head(workCh)] = "nofile" /\ wpc' = wpc /\ wjob' = wjob
          \/ /\ wpc' = [wpc EXCEPT ![w] = "load"]
             /\ wjob' = [wjob EXCEPT ![w] = Head(workCh)]
      BY <1>4, <2>3, Zenon DEF WorkerReceives
    <3>5. \A v \in Worker : wpc'[v] = "exited" => wpc[v] = "exited"
      BY <3>2, <3>4
    <3>6. \A v \in Worker : wjob[v] # NoJob => wjob'[v] = wjob[v]
      BY <3>2, <3>3, <3>4
    <3>7. input.page[Head(workCh)] = "nofile" \/ wjob'[w] = Head(workCh)
      BY <3>1, <3>2, <3>4 DEF AnswerInv
    <3>8. NoJob \notin Handled
      BY <1>0, NoJobAssumption DEF Handled, TypeOK, JobInv, Taken
    <3>9. \A i \in Handled' : \/ i \in applied' \cup errs' \/ input'.page[i] = "nofile"
                              \/ \E v \in Worker : wjob'[v] = i
      BY <2>1, <2>3, <3>1, <3>6, <3>7, <3>8 DEF AnswerInv
    <3>10. \A v \in Worker : wpc'[v] # "exited"
      BY <2>1, <2>3, <3>5 DEF AnswerInv
    <3>11. QED
      BY <2>1, <3>9, <3>10 DEF AnswerInv
  <2>4. QED
    BY <2>2, <2>3
<1>5. ASSUME NEW w \in Worker, WorkerLoads(w) \/ WorkerApplies(w) PROVE AnswerInv'
  <2>1. /\ UNCHANGED <<input, page, registry, queued, workCh, chClosed, cancelled>>
        /\ wpc[w] \in {"load", "apply"}
    BY <1>5 DEF WorkerLoads, WorkerApplies
  <2>2. Handled' = Handled
    BY <2>1 DEF Taken, Handled
  <2>3. \/ UNCHANGED <<wjob, applied, errs>>
        \/ /\ wjob' = [wjob EXCEPT ![w] = NoJob]
           /\ applied' \cup errs' = applied \cup errs \cup {wjob[w]}
    BY <1>5 DEF WorkerLoads, WorkerApplies, ReportError, MergeForm
  <2>4. \E c \in {"receive", "apply"} : wpc' = [wpc EXCEPT ![w] = c]
    BY <1>5 DEF WorkerLoads, WorkerApplies
  <2>5. \A v \in Worker : wpc'[v] = "exited" => wpc[v] = "exited"
    BY <1>0, <2>4 DEF TypeOK
  <2>6. \A v \in Worker : v # w => wjob'[v] = wjob[v]
    BY <1>0, <2>3 DEF TypeOK
  <2>7. ~cancelled => \A i \in Handled : \/ i \in applied' \cup errs' \/ input.page[i] = "nofile"
                                         \/ \E v \in Worker : wjob'[v] = i
    BY <2>3, <2>6 DEF AnswerInv
  <2>8. QED
    BY <2>1, <2>2, <2>5, <2>7 DEF AnswerInv
<1>6. ASSUME NEW w \in Worker, WorkerExits(w) PROVE AnswerInv'
  <2>1. /\ UNCHANGED <<input, page, registry, queued, workCh, applied, errs, wjob, cancelled, chClosed>>
        /\ workCh = << >> /\ chClosed
    BY <1>6 DEF WorkerExits
  <2>2. QED
    BY <2>1, AnswerFrame
<1>7. CASE Close \/ LosePage
  <2>1. \E files : Lost(files) \/ page' = page
    BY <1>7 DEF Close, LosePage
  <2>2. \A i \in Instr : page'[i] = "nofile" <=> page[i] = "nofile"
    BY <1>0, <2>1 DEF Lost, TypeOK
  <2>3. UNCHANGED <<input, registry, queued, workCh, applied, errs, wjob, cancelled, chClosed, wpc>>
    BY <1>7, Zenon DEF Close, LosePage
  <2>4. Handled' = Handled
    BY <2>3 DEF Handled, Taken
  <2>5. QED
    BY <2>2, <2>3, <2>4 DEF AnswerInv
<1>8. ASSUME \/ ReadIndex \/ DiscoverAliases \/ QueueCancelled \/ CloseQueue \/ EndPass2
             \/ StartPass3 \/ ReadPage \/ WriteLanguage \/ EndPass3 \/ Validate \/ Output
             \/ Cancel \/ UNCHANGED vars
      PROVE  AnswerInv'
  <2>1. UNCHANGED <<input, page, registry, queued, workCh, applied, errs, wjob, wpc>>
    BY <1>8, Zenon DEF ReadIndex, DiscoverAliases, QueueCancelled, CloseQueue, EndPass2,
       StartPass3, ReadPage, WriteLanguage, EndPass3, Validate, Output, Cancel, vars
  <2>2. cancelled \/ cancelled' = cancelled \/ cancelled'
    BY <1>8, Zenon DEF ReadIndex, DiscoverAliases, QueueCancelled, CloseQueue, EndPass2,
       StartPass3, ReadPage, WriteLanguage, EndPass3, Validate, Output, Cancel, vars
  <2>3. chClosed => chClosed'
    BY <1>8, Zenon DEF ReadIndex, DiscoverAliases, QueueCancelled, CloseQueue, CloseChannel,
       EndPass2, StartPass3, ReadPage, WriteLanguage, EndPass3, Validate, Output, Cancel, vars
  <2>4. Handled' = Handled
    BY <2>1 DEF Handled, Taken
  <2>5. cancelled => cancelled'
    BY <1>8, Zenon DEF ReadIndex, DiscoverAliases, QueueCancelled, CloseQueue, EndPass2,
       StartPass3, ReadPage, WriteLanguage, EndPass3, Validate, Output, Cancel, vars
  <2>6. QED
    BY <2>1, <2>3, <2>4, <2>5 DEF AnswerInv
<1>9. QED
  BY <1>1, <1>2, <1>3, <1>4, <1>5, <1>6, <1>7, <1>8 DEF Next, Main, Work, Closed

\* As long as the context is alive no queued encoding is lost: when Pass 2 has
\* returned, each was merged, reported, or has no page.
THEOREM JobsAreAnswered == Spec => []EveryJobAnswered
<1>1. Init => AnswerInv
  <2> SUFFICES ASSUME Init PROVE AnswerInv
    OBVIOUS
  <2>1. queued = 0 /\ Len(workCh) = 0 /\ page = input.page /\ \A w \in Worker : wpc[w] = "unborn"
    BY DEF Init
  <2>2. Handled = {}
    <3>1. Taken = 0
      BY <2>1 DEF Taken
    <3>2. QED
      BY <3>1 DEF Handled
  <2>3. QED
    BY <2>1, <2>2 DEF AnswerInv
<1>2. TypeInv /\ FinalInv /\ JobInv /\ AnswerInv => EveryJobAnswered
  <2> SUFFICES ASSUME TypeInv, FinalInv, JobInv, AnswerInv, AfterPass2, ~cancelled,
                      NEW k \in 1..queued
               PROVE  \/ registry[k] \in applied \cup errs
                      \/ input.page[registry[k]] = "nofile"
    BY DEF EveryJobAnswered
  <2>1. \A w \in Worker : wpc[w] = "exited" /\ wjob[w] = NoJob
    BY DEF FinalInv, TypeInv, Phases
  <2>2. Len(workCh) = 0
    BY <2>1, WorkerAssumption DEF AnswerInv
  <2>3. queued \in Nat
    BY DEF TypeInv, TypeOK
  <2>4. registry[k] \in Handled
    <3>1. Taken = queued
      BY <2>2, <2>3 DEF Taken
    <3>2. QED
      BY <3>1 DEF Handled
  <2>5. registry[k] # NoJob
    <3>1. k \in DOMAIN registry
      <4>1. queued <= Len(registry)
        BY DEF JobInv
      <4>2. DOMAIN registry = 1..Len(registry) /\ Len(registry) \in Nat
        BY DEF TypeInv, TypeOK
      <4>3. QED
        BY <2>3, <4>1, <4>2
    <3>2. QED
      BY <3>1, NoJobAssumption DEF TypeInv, TypeOK
  <2>6. QED
    BY <2>1, <2>4, <2>5 DEF AnswerInv
<1>3. Spec => [](TypeInv /\ FinalInv /\ JobInv /\ AnswerInv)
  <2>1. Init => JobInv
    BY JobInit
  <2>2. QED
    BY <1>1, <2>1, FinalHolds, TypeInit, TypeStep, FinalStep, JobStep, AnswerStep, PTL DEF Spec
<1>4. QED
  BY <1>2, <1>3, PTL

----------------------------------------------------------------------------
\* The form cache.

CacheInv ==
  /\ IsFiniteSet(cache)
  /\ input.cacheSize > 0 => Cardinality(cache) <= input.cacheSize

\* An unbounded cache keeps the form of everything merged, until Close.
ReuseInv ==
  /\ resolved \subseteq {i \in Instr : input.page[i] = "encoded"}
  /\ input.archive /\ pc # "closed" => page = input.page
  /\ input.cacheSize = 0 =>
       /\ missed = {}
       /\ \A i \in Instr : loads[i] <= 1
       /\ \A i \in Instr : loads[i] = 1 =>
            i \in applied \/ \E w \in Worker : wjob[w] = i /\ wpc[w] = "apply"
       /\ pc # "closed" => applied \subseteq cache

\* Storing a form respects the bound; without one it only adds the form.
LEMMA StoreKeepsBound ==
  ASSUME TypeOK, CacheInv, NEW i \in Instr, StoreForm(i), input' = input
  PROVE  CacheInv' /\ (input.cacheSize = 0 => cache' = cache \cup {i})
<1>1. input.cacheSize \in Nat /\ Cardinality(cache) \in Nat
  BY InputTypes, FS_CardinalityType DEF TypeOK, CacheInv
<1>2. CASE i \in cache /\ cache' = cache
  BY <1>2 DEF CacheInv
<1>3. CASE /\ i \notin cache /\ cache' = cache \cup {i}
           /\ input.cacheSize = 0 \/ Cardinality(cache) < input.cacheSize
  <2>1. IsFiniteSet(cache') /\ Cardinality(cache') = Cardinality(cache) + 1
    BY <1>3, FS_AddElement DEF CacheInv
  <2>2. QED
    BY <1>1, <1>3, <2>1 DEF CacheInv
<1>4. ASSUME i \notin cache, input.cacheSize > 0, Cardinality(cache) >= input.cacheSize,
             NEW k \in cache, cache' = (cache \ {k}) \cup {i}
      PROVE  CacheInv' /\ (input.cacheSize = 0 => cache' = cache \cup {i})
  <2>1. IsFiniteSet(cache \ {k}) /\ Cardinality(cache \ {k}) = Cardinality(cache) - 1
    BY FS_RemoveElement DEF CacheInv
  <2>2. IsFiniteSet(cache') /\ Cardinality(cache') = Cardinality(cache \ {k}) + 1
    BY <1>4, <2>1, FS_AddElement
  <2>3. QED
    BY <1>1, <1>4, <2>1, <2>2 DEF CacheInv
<1>5. QED
  BY <1>1, <1>2, <1>3, <1>4 DEF StoreForm

LEMMA ReuseStep ==
  TypeInv /\ JobInv /\ CacheInv /\ ReuseInv /\ [Next]_vars => CacheInv' /\ ReuseInv'
<1> SUFFICES ASSUME TypeInv, JobInv, CacheInv, ReuseInv, [Next]_vars
             PROVE  CacheInv' /\ ReuseInv'
  OBVIOUS
<1> USE DEF mainVars, poolVars, workerVars, irVars, cacheVars, emitVars, endVars, Fail
<1>0. TypeOK
  BY DEF TypeInv
<1>1. ASSUME NEW w \in Worker, WorkerLoads(w) PROVE CacheInv' /\ ReuseInv'
  <2>1. /\ wjob[w] \in Instr /\ wpc[w] = "load"
        /\ UNCHANGED <<input, page, pc, applied, resolved, cache, missed>>
        /\ wpc \in [Worker -> {"unborn", "receive", "load", "apply", "exited"}]
        /\ wjob \in [Worker -> Instr \cup {NoJob}]
    BY <1>0, <1>1 DEF WorkerLoads, TypeInv, Phases, TypeOK
  <2>2. wjob[w] \notin applied /\ \A v \in Worker : v # w => wjob[v] # wjob[w]
    BY <2>1, NoJobAssumption DEF JobInv
  <2>3. \A i \in Instr, v \in Worker :
          wjob[v] = i /\ wpc[v] = "apply" => wjob'[v] = i /\ wpc'[v] = "apply"
    <3>1. \/ wjob' = wjob /\ wpc' = [wpc EXCEPT ![w] = "apply"]
          \/ /\ wjob' = [wjob EXCEPT ![w] = NoJob]
             /\ wpc' = [wpc EXCEPT ![w] = "receive"]
      BY <1>1 DEF WorkerLoads
    <3>2. QED
      BY <2>1, <3>1
  <2>4. \/ loads' = loads
        \/ /\ loads' = [loads EXCEPT ![wjob[w]] = @ + 1]
           /\ wjob' = wjob /\ wpc' = [wpc EXCEPT ![w] = "apply"]
    BY <1>1, Zenon DEF WorkerLoads, CountLoad
  <2>5. ASSUME input.cacheSize = 0
        PROVE  \A i \in Instr : /\ loads'[i] <= 1
                                /\ loads'[i] = 1 =>
                                     i \in applied \/ \E v \in Worker : wjob'[v] = i /\ wpc'[v] = "apply"
    <3>1. CASE loads' = loads
      BY <2>3, <2>5, <3>1 DEF ReuseInv
    <3>2. CASE /\ loads' = [loads EXCEPT ![wjob[w]] = @ + 1]
               /\ wjob' = wjob /\ wpc' = [wpc EXCEPT ![w] = "apply"]
      <4>1. loads \in [Instr -> Nat] /\ loads[wjob[w]] <= 1
        BY <1>0, <2>1, <2>5 DEF TypeOK, ReuseInv
      <4>2. loads[wjob[w]] # 1
        BY <2>1, <2>2, <2>5 DEF ReuseInv
      <4>3. loads'[wjob[w]] = 1 /\ \A i \in Instr : i # wjob[w] => loads'[i] = loads[i]
        BY <2>1, <3>2, <4>1, <4>2
      <4>4. wjob'[w] = wjob[w] /\ wpc'[w] = "apply"
        BY <2>1, <3>2
      <4>5. QED
        BY <2>3, <2>5, <4>3, <4>4 DEF ReuseInv
    <3>3. QED
      BY <2>4, <3>1, <3>2
  <2>6. QED
    BY <2>1, <2>5 DEF CacheInv, ReuseInv
<1>2. ASSUME NEW w \in Worker, WorkerApplies(w) PROVE CacheInv' /\ ReuseInv'
  <2>1. /\ wjob[w] \in Instr /\ wpc[w] = "apply"
        /\ UNCHANGED <<input, page, pc, loads, missed>>
        /\ wpc \in [Worker -> {"unborn", "receive", "load", "apply", "exited"}]
        /\ wjob \in [Worker -> Instr \cup {NoJob}]
    BY <1>0, <1>2 DEF WorkerApplies, TypeInv, Phases, TypeOK
  <2>2. CacheInv' /\ (input.cacheSize = 0 => cache' = cache \cup {wjob[w]})
    BY <1>0, <1>2, <2>1, StoreKeepsBound DEF WorkerApplies
  <2>3. /\ applied' = applied \cup {wjob[w]}
        /\ resolved' \subseteq {i \in Instr : input.page[i] = "encoded"}
    BY <1>2, <2>1 DEF WorkerApplies, MergeForm, ReuseInv
  <2>4. \A v \in Worker : v # w => wjob'[v] = wjob[v] /\ wpc'[v] = wpc[v]
    BY <1>2, <2>1 DEF WorkerApplies
  <2>5. ASSUME input.cacheSize = 0
        PROVE  \A i \in Instr : loads'[i] = 1 =>
                 i \in applied' \/ \E v \in Worker : wjob'[v] = i /\ wpc'[v] = "apply"
    BY <2>1, <2>3, <2>4, <2>5 DEF ReuseInv
  <2>6. QED
    BY <2>1, <2>2, <2>3, <2>5 DEF ReuseInv
<1>3. CASE ReadPage
  <2>1. todo \in Seq(Instr) /\ todo # << >> /\ pc = "emit"
    BY <1>3 DEF ReadPage, TypeInv, Phases
  <2>2. /\ Head(todo) \in Instr /\ pc' \in {"emit", "close"}
        /\ UNCHANGED <<input, page, applied, resolved, wpc, wjob>>
    BY <1>3, <2>1, HeadTail DEF ReadPage
  <2>3. ASSUME input.cacheSize = 0 PROVE Head(todo) \notin resolved \/ Hit(Head(todo))
    <3>1. ASSUME Head(todo) \in resolved PROVE Head(todo) \in cache
      BY <1>0, <2>1, <2>3, <3>1 DEF ReuseInv, TypeOK
    <3>2. ASSUME Head(todo) \in resolved, input.archive PROVE Available(Head(todo))
      BY <2>1, <3>2 DEF ReuseInv, Available
    <3>3. QED
      BY <3>1, <3>2 DEF Hit
  <2>4. \/ UNCHANGED <<cache, loads, missed>>
        \/ StoreForm(Head(todo)) /\ Head(todo) \in resolved /\ ~Hit(Head(todo))
        \/ cache' = cache /\ Head(todo) \in resolved /\ ~Hit(Head(todo))
    BY <1>3, Zenon DEF ReadPage
  <2>5. CacheInv'
    <3>1. ASSUME StoreForm(Head(todo)) PROVE CacheInv'
      BY <1>0, <2>2, <3>1, StoreKeepsBound
    <3>2. QED
      BY <2>2, <2>4, <3>1 DEF CacheInv
  <2>6. input.cacheSize = 0 => UNCHANGED <<cache, loads, missed>>
    BY <2>3, <2>4
  <2>7. ReuseInv'
    BY <2>1, <2>2, <2>6 DEF ReuseInv
  <2>8. QED
    BY <2>5, <2>7
<1>4. CASE Close
  <2>1. pc' = "closed" /\ cache' = {} /\ UNCHANGED <<input, loads, missed, applied, resolved, wpc, wjob>>
    BY <1>4 DEF Close
  <2>2. CacheInv'
    <3>1. IsFiniteSet({}) /\ Cardinality({}) = 0
      BY FS_EmptySet
    <3>2. input.cacheSize \in Nat
      BY <1>0, InputTypes DEF TypeOK
    <3>3. QED
      BY <2>1, <3>1, <3>2 DEF CacheInv
  <2>3. ReuseInv'
    BY <2>1 DEF ReuseInv
  <2>4. QED
    BY <2>2, <2>3
<1>5. CASE LosePage
  BY <1>5 DEF LosePage, CacheInv, ReuseInv
<1>6. ASSUME NEW w \in Worker, WorkerReceives(w) \/ WorkerExits(w) PROVE CacheInv' /\ ReuseInv'
  <2>1. /\ UNCHANGED <<input, page, pc, cache, loads, missed, applied, resolved>>
        /\ wpc[w] = "receive"
    BY <1>6 DEF WorkerReceives, WorkerExits
  <2>2. \A v \in Worker : v # w => wjob'[v] = wjob[v] /\ wpc'[v] = wpc[v]
    BY <1>0, <1>6 DEF WorkerReceives, WorkerExits, TypeOK
  <2>3. QED
    BY <2>1, <2>2 DEF CacheInv, ReuseInv
<1>7. ASSUME \/ ReadIndex \/ AddRow \/ DiscoverAliases \/ StartPool \/ QueueInstr
             \/ QueueCancelled \/ CloseQueue \/ EndPass2 \/ StartPass3 \/ WriteLanguage
             \/ EndPass3 \/ Validate \/ Output \/ Cancel \/ UNCHANGED vars
      PROVE  CacheInv' /\ ReuseInv'
  <2>1. UNCHANGED <<input, page, cache, loads, missed, applied, resolved, wjob>>
    BY <1>7, Zenon DEF ReadIndex, AddRow, DiscoverAliases, StartPool, QueueInstr,
       QueueCancelled, CloseQueue, EndPass2, StartPass3, WriteLanguage, EndPass3, Validate,
       Output, Cancel, vars
  <2>2. pc = "closed" => pc' = "closed"
    <3>1. CASE ReadIndex \/ AddRow \/ DiscoverAliases \/ StartPool \/ QueueInstr \/ QueueCancelled \/ CloseQueue
      BY <3>1 DEF ReadIndex, AddRow, DiscoverAliases, StartPool, QueueInstr, QueueCancelled, CloseQueue
    <3>2. CASE EndPass2 \/ StartPass3 \/ WriteLanguage \/ EndPass3 \/ Validate \/ Output
      BY <3>2 DEF EndPass2, WaitWorkers, StartPass3, WriteLanguage, EndPass3, Validate, Output
    <3>3. CASE Cancel \/ UNCHANGED vars
      BY <3>3, Zenon DEF Cancel, vars, mainVars
    <3>4. QED
      BY <1>7, <3>1, <3>2, <3>3
  <2>3. \A w \in Worker : wjob[w] # NoJob => wpc'[w] = wpc[w]
    <3>1. CASE StartPool
      BY <3>1 DEF StartPool, TypeInv, Phases, BeforePool
    <3>2. CASE ~StartPool
      BY <1>7, <3>2, Zenon DEF ReadIndex, AddRow, DiscoverAliases, QueueInstr,
         QueueCancelled, CloseQueue, EndPass2, StartPass3, WriteLanguage, EndPass3, Validate,
         Output, Cancel, vars
    <3>3. QED
      BY <3>1, <3>2
  <2>4. CacheInv'
    BY <2>1 DEF CacheInv
  <2>5. ASSUME input.cacheSize = 0, NEW i \in Instr, loads[i] = 1
        PROVE  i \in applied \/ \E w \in Worker : wjob'[w] = i /\ wpc'[w] = "apply"
    <3>1. CASE i \in applied
      BY <3>1
    <3>2. CASE i \notin applied
      <4>1. PICK w \in Worker : wjob[w] = i /\ wpc[w] = "apply"
        BY <2>5, <3>2 DEF ReuseInv
      <4>2. wjob[w] # NoJob
        BY <4>1, NoJobAssumption
      <4>3. wjob'[w] = i /\ wpc'[w] = "apply"
        BY <2>1, <2>3, <4>1, <4>2
      <4>4. QED
        BY <4>3
    <3>3. QED
      BY <3>1, <3>2
  <2>6. ReuseInv'
    <3>1. resolved' \subseteq {i \in Instr : input'.page[i] = "encoded"}
      BY <2>1 DEF ReuseInv
    <3>2. input'.archive /\ pc' # "closed" => page' = input'.page
      BY <2>1, <2>2 DEF ReuseInv
    <3>3. input'.cacheSize = 0 => missed' = {} /\ \A i \in Instr : loads'[i] <= 1
      BY <2>1 DEF ReuseInv
    <3>4. input'.cacheSize = 0 /\ pc' # "closed" => applied' \subseteq cache'
      BY <2>1, <2>2 DEF ReuseInv
    <3>5. input'.cacheSize = 0 =>
            \A i \in Instr : loads'[i] = 1 =>
              i \in applied' \/ \E w \in Worker : wjob'[w] = i /\ wpc'[w] = "apply"
      BY <2>1, <2>5
    <3>6. QED
      BY <3>1, <3>2, <3>3, <3>4, <3>5 DEF ReuseInv
  <2>7. QED
    BY <2>4, <2>6
<1>8. QED
  BY <1>1, <1>2, <1>3, <1>4, <1>5, <1>6, <1>7 DEF Next, Main, Work, Closed

LEMMA CacheHolds == Spec => [](CacheInv /\ ReuseInv)
<1>1. Init => CacheInv /\ ReuseInv
  <2>1. IsFiniteSet({}) /\ Cardinality({}) = 0
    BY FS_EmptySet
  <2>2. QED
    BY <2>1, InputTypes DEF Init, CacheInv, ReuseInv
<1>2. QED
  BY <1>1, JobInit, TypeInit, TypeStep, JobStep, ReuseStep, PTL DEF Spec

\* A positive IFormCacheSize bounds the cache under concurrent stores.
THEOREM CacheKeepsBound == Spec => []CacheBounded
<1>1. CacheInv => CacheBounded
  BY DEF CacheInv, CacheBounded
<1>2. QED
  BY <1>1, CacheHolds, PTL

\* With the default size 0, Pass 3 uses the forms Pass 2 parsed and nothing
\* else, even if pages of the input directory disappear in between.
THEOREM FormsAreReused == Spec => []FormsReused
<1>1. ReuseInv => FormsReused
  BY DEF ReuseInv, FormsReused
<1>2. QED
  BY <1>1, CacheHolds, PTL
=============================================================================
