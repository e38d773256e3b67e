---------------------------- MODULE SerialUploads ----------------------------
(***************************************************************************)
(* What FileTransferQueue promises (spec 4.5): files that pass validation  *)
(* are accepted in batches, appended to one FIFO line, and uploaded one at *)
(* a time in that order; every accepted file is eventually finished (sent  *)
(* and either stored or reported as failed).                               *)
(***************************************************************************)
EXTENDS Sequences, SequencesExt

CONSTANT Uploadable   \* the files validation lets through

VARIABLES
  pending,   \* accepted and not finished, in upload order
  done       \* finished files

serialVars == <<pending, done>>

Init == pending = << >> /\ done = {}

\* A batch of new files is appended to the line.
Accept ==
  /\ \E s \in SetToAllKPermutations(Uploadable \ (Range(pending) \cup done)) \ {<< >>} :
       pending' = pending \o s
  /\ UNCHANGED done

\* The file at the head of the line finishes.
Finish ==
  /\ pending # << >>
  /\ done' = done \cup {Head(pending)}
  /\ pending' = Tail(pending)

Next == Accept \/ Finish

Spec == Init /\ [][Next]_serialVars /\ WF_serialVars(Finish)

=============================================================================
