------------------------------ MODULE MCPipeline -------------------------------
(***************************************************************************)
(* Instance of Pipeline.  The second answer is the text the second stage   *)
(* is asked after the first answer, so that reuse happens both with and    *)
(* without a previous output; one request leaves the later inputs empty.   *)
(***************************************************************************)
EXTENDS Pipeline

Word == << "x" >>

MCRequests ==
  { [i \in Stages |-> Word], [i \in Stages |-> IF i = 1 THEN Word ELSE Empty] }

MCOutputs == { Empty, Word, StageInput(Word, Word) }
================================================================================
