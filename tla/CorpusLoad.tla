----------------------------- MODULE CorpusLoad -----------------------------
(***************************************************************************)
(* What LoadTarXMLCorpus promises: one step from an archive to an outcome. *)
(* A sound archive yields exactly the corpus below its selected root; an   *)
(* archive with a defect yields an error that names a defect it has, and   *)
(* never a partial corpus.  No trace of the pipeline is left: no workers,  *)
(* no buffers, no budget, no order of preparation.                         *)
(***************************************************************************)
CONSTANTS
  Archives,     \* the archives considered
  Pending,      \* no outcome yet
  Outcomes(_)   \* what a load of an archive may return

VARIABLES archive, outcome

vars == <<archive, outcome>>

Init == archive \in Archives /\ outcome = Pending

Load == /\ outcome = Pending
        /\ outcome' \in Outcomes(archive)
        /\ UNCHANGED archive

\* Nothing but Load changes the outcome, and nothing changes the archive; that
\* a load returns at all is Terminates of the loader.
Step == UNCHANGED archive /\ (outcome' # outcome => Load)

Spec == Init /\ [][Step]_vars
=============================================================================
