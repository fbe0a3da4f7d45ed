------------------------------ MODULE Pipeline ------------------------------
(***************************************************************************)
(* The stages of a backup that no other command touches: Source, Chunker   *)
(* and Packer.  They share no state but the bytes they hand on, and each   *)
(* is explored by itself: a behaviour is one of the stage that it begins   *)
(* with, and the others stay as they are.                                  *)
(***************************************************************************)
EXTENDS Source, Chunker, Packer

CONSTANT Stages     \* the stages explored

VARIABLE stage

pipelineVars == <<stage, vars, chunkerVars, packerVars>>

\* A stage that is not explored has one file.
PipelineInit ==
    /\ stage \in Stages /\ Init /\ ChunkerInit /\ PackerInit
    /\ stage # "source" => file.content = CHOOSE content \in Contents : TRUE
    /\ stage # "chunker" => input = CHOOSE s \in Inputs : TRUE

NextSource == stage = "source" /\ Next /\ UNCHANGED <<stage, chunkerVars, packerVars>>
NextChunker == stage = "chunker" /\ ChunkerNext /\ UNCHANGED <<stage, vars, packerVars>>
NextPacker == stage = "packer" /\ PackerNext /\ UNCHANGED <<stage, vars, chunkerVars>>

\* The fairness of Chunker, where it is explored.
PipelineSpec ==
    /\ PipelineInit /\ [][NextSource \/ NextChunker \/ NextPacker]_pipelineVars
    /\ WF_pipelineVars(NextChunker)

-----------------------------------------------------------------------------
\* Every stage's variables are what they are meant to be.
PipelineTypeOK == SourceInv /\ ChunkerTypeOK /\ PackerTypeOK

\* The loop over the chunks of a file comes to its end (snapshot.go:117).
ChunkerEnds == stage = "chunker" => Ends
=============================================================================
