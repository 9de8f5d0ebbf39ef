------------------------------ MODULE DataPath ------------------------------
(***************************************************************************)
(* The parts of the program that nothing else runs beside, each a path     *)
(* from data to data: from the blocks a run lacks to the gaps cryo fills   *)
(* (FetchPlan), from a log to the columns of a custom table                *)
(* (CustomColumns), from the export of signatures to the database of them  *)
(* (SeedDb), from a query to its answer (QueryAnswer), and from the rows   *)
(* of cryo's files to those of the database (RowDecoding).  They share no  *)
(* state; a behaviour follows one of them.                                 *)
(***************************************************************************)
EXTENDS FetchPlan, CustomColumns, SeedDb, QueryAnswer, RowDecoding

\* No run has anything to fetch.
Uncut == missing = {} /\ ~split

\* No row has been read.
Undecoded == edition = 1 /\ ends = 0 /\ \A c \in Parts : behind[c] = 0 /\ looked[c] = NoLook

PathInit == Init /\ TableInit /\ SeedInit /\ AnswerInit /\ DecodeInit

PathNext ==
    \/ /\ table = NoTable /\ seedings = 0 /\ calls = 0 /\ Undecoded
       /\ Next
       /\ UNCHANGED <<columnVars, seedVars, answerVars, decodeVars>>
    \/ /\ Uncut /\ seedings = 0 /\ calls = 0 /\ Undecoded
       /\ TableStep
       /\ UNCHANGED <<vars, seedVars, answerVars, decodeVars>>
    \/ /\ Uncut /\ table = NoTable /\ calls = 0 /\ Undecoded
       /\ SeedStep
       /\ UNCHANGED <<vars, columnVars, answerVars, decodeVars>>
    \/ /\ Uncut /\ table = NoTable /\ seedings = 0 /\ Undecoded
       /\ AnswerStep
       /\ UNCHANGED <<vars, columnVars, seedVars, decodeVars>>
    \/ /\ Uncut /\ table = NoTable /\ seedings = 0 /\ calls = 0
       /\ DecodeStep
       /\ UNCHANGED <<vars, columnVars, seedVars, answerVars>>

PathSpec == PathInit /\ [][PathNext]_<<vars, columnVars, seedVars, answerVars, decodeVars>>

=============================================================================
