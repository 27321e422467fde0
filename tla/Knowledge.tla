----------------------------- MODULE Knowledge ------------------------------
(***************************************************************************)
(* The requests that share the data of the service and no control: a        *)
(* question being prepared, the retrieval pipeline, a call-chain trace, a   *)
(* web search, a tool's answer being fitted for the model, and accounts     *)
(* being created and logged in to.  The machine follows one of them from    *)
(* its start to its end.                                                    *)
(***************************************************************************)
EXTENDS Questions, Retrieval, CallChains, WebSearch, ToolOutput, Accounts

VARIABLE serving    \* the kind of the request that is followed

vars == <<serving, questionVars, retrievalVars, chainVars, webVars, outputVars, accountVars>>

Requests == {"question", "retrieval", "trace", "search", "output", "login"}

TypeOK ==
    /\ serving \in Requests
    /\ QuestionTypeOK /\ RetrievalTypeOK /\ ChainTypeOK /\ WebTypeOK
    /\ OutputTypeOK /\ AccountsTypeOK

Init ==
    /\ serving \in Requests
    /\ QuestionInit /\ RetrievalInit /\ ChainInit /\ WebInit /\ OutputInit /\ AccountsInit

Next ==
    /\ UNCHANGED serving
    /\ \/ /\ serving = "question" /\ QuestionNext
          /\ UNCHANGED <<retrievalVars, chainVars, webVars, outputVars, accountVars>>
       \/ /\ serving = "retrieval" /\ RetrievalNext
          /\ UNCHANGED <<questionVars, chainVars, webVars, outputVars, accountVars>>
       \/ /\ serving = "trace" /\ ChainNext
          /\ UNCHANGED <<questionVars, retrievalVars, webVars, outputVars, accountVars>>
       \/ /\ serving = "search" /\ WebNext
          /\ UNCHANGED <<questionVars, retrievalVars, chainVars, outputVars, accountVars>>
       \/ /\ serving = "output" /\ OutputNext
          /\ UNCHANGED <<questionVars, retrievalVars, chainVars, webVars, accountVars>>
       \/ /\ serving = "login" /\ AccountsNext
          /\ UNCHANGED <<questionVars, retrievalVars, chainVars, webVars, outputVars>>

Spec == Init /\ [][Next]_vars
=============================================================================
