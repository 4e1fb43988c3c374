--------------------------- MODULE DiagnosisProofs ---------------------------
(***************************************************************************)
(* The diagnosis, for any sets of requests, processes and contents and any *)
(* faults: what its transitions promise each other, and that the reports   *)
(* which are made of it agree with themselves, since what a report relates *)
(* to a diagnosis read earlier is never taken back.                        *)
(***************************************************************************)
EXTENDS DiagnosisReport, TLAPS

(***************************************************************************)
(*                         THE LIFE OF A DIAGNOSIS                         *)
(***************************************************************************)

\* What a transition that records a conclusion leaves in each column.
LEMMA ConcludedFields ==
  \A c, s, x : /\ Concluded(c, s, x).status = s
               /\ Concluded(c, s, x).version = c.version + 1
               /\ Concluded(c, s, x).conclusion = x
  BY DEF Concluded

\* What a plain transition leaves in each column.
LEMMA MovedFields ==
  \A c, s : /\ Moved(c, s).status = s
            /\ Moved(c, s).version = c.version + 1
            /\ Moved(c, s).conclusion = c.conclusion
  BY DEF Moved, Concluded

\* What _apply_result leaves in each column.
LEMMA AppliedFields ==
  \A c, r : /\ Applied(c, r).status = ResultStatus(result[r])
            /\ Applied(c, r).version = c.version + 1
            /\ Applied(c, r).conclusion \in {r, c.conclusion}
  BY ConcludedFields, MovedFields DEF Applied

\* A plain transition yields a row.
LEMMA MovedType ==
  ASSUME NEW c \in Rows, NEW s \in Status
  PROVE  /\ Moved(c, s) \in Rows
         /\ Moved(c, s).status = s
         /\ Moved(c, s).version = c.version + 1
         /\ Moved(c, s).conclusion = c.conclusion
  BY DEF Moved, Concluded, Rows

\* The statuses that results and human decisions lead to.
LEMMA StatusFacts ==
  /\ \A res : ResultStatus(res) \in {"waiting_for_input", "waiting_for_confirmation", "inconclusive"}
  /\ \A d : DecidedStatus(d) \in {"confirmed", "rejected", "investigating"}
  /\ \A res : RunStatus(res) \in {"completed", "failed"}
  BY DEF ResultStatus, DecidedStatus, RunStatus

\* A transition that records a conclusion yields a row.
LEMMA ConcludedType ==
  ASSUME NEW c \in Rows, NEW s \in Status, NEW x \in Requests \union {NoRequest}
  PROVE  /\ Concluded(c, s, x) \in Rows
         /\ Concluded(c, s, x).status = s
         /\ Concluded(c, s, x).version = c.version + 1
         /\ Concluded(c, s, x).conclusion = x
  BY DEF Concluded, Rows

\* _apply_result yields a row.
LEMMA AppliedType ==
  ASSUME NEW r \in Requests, NEW c \in Rows
  PROVE  /\ Applied(c, r) \in Rows
         /\ Applied(c, r).status = ResultStatus(result[r])
         /\ Applied(c, r).version = c.version + 1
         /\ Applied(c, r).conclusion \in {r, c.conclusion}
<1>1. ResultStatus(result[r]) \in Status
  BY StatusFacts DEF Status
<1>2. CASE ResultStatus(result[r]) = "inconclusive"
  BY <1>1, <1>2, MovedType DEF Applied
<1>3. CASE ResultStatus(result[r]) # "inconclusive"
  BY <1>1, <1>3, ConcludedType DEF Applied
<1>4. QED
  BY <1>2, <1>3

-----------------------------------------------------------------------------
(* Types *)

\* The targets of the fixed transitions are statuses.
LEMMA StatusNames ==
  {"investigating", "inconclusive", "cancelled"} \subseteq Status
  BY DEF Status

\* A human decision leads to a status.
LEMMA DecidedType == \A d : DecidedStatus(d) \in Status
  BY StatusFacts DEF Status

\* A request only waits at the awaits of the method it called.
CallMatches(r) ==
  /\ pc[r] = "new" <=> req[r] = NoCall
  /\ pc[r] \in InRunner \union InService \union Orphaned => req[r].op = "run"
  /\ pc[r] \in InMark => req[r].op \in {"run", "cancel"}
  /\ pc[r] \in {"supp_read", "supp_find", "supp_evidence", "supp_commit"} =>
        req[r].op = "supplement" /\ req[r].content \in Contents
  /\ pc[r] \in {"conf_read", "conf_commit"} => req[r].op \in Decisions

\* The request called run().
IsRun(r) == req[r] # NoCall /\ req[r].op = "run"

\* Only runs are registered, and only registered runs are cancelled.
OnlyRuns ==
  /\ \A r \in Requests : pending[r] => IsRun(r)
  /\ \A p \in Processes : active[p] # NoRequest => IsRun(active[p])

\* Every request waits inside the method it called.
CallsMatch == \A r \in Requests : CallMatches(r)

\* The inductive type invariant.
TypeInv == TypeOK /\ CallsMatch /\ OnlyRuns

\* The fields of a call, and that no call is NoCall.
LEMMA CallFacts ==
  /\ NoCall \notin Calls
  /\ \A c \in Calls : c.op \in Ops /\ c.host \in Processes /\ c.content \in Contents \union {NoContent}
  /\ \A o \in Ops, p \in Processes, c \in Contents \union {NoContent} :
       [op |-> o, host |-> p, content |-> c] \in Calls
  BY DEF NoCall, Calls, Ops

\* The operations are runs, cancels, supplements and decisions.
LEMMA OpFacts == {"run", "cancel", "supplement"} \subseteq Ops /\ Decisions \subseteq Ops
  BY DEF Ops

\* The initial state satisfies the inductive type invariant.
LEMMA TypeInit == Init => TypeInv
  BY NoRequestAssumption DEF Init, TypeInv, TypeOK, CallsMatch, CallMatches, OnlyRuns, Rows, Status, InFlight, InRunner, InService, InMark, Orphaned, InHuman

\* Every step keeps the types.
LEMMA TypeOKStep == TypeInv /\ [Next]_vars => TypeOK'
<1> SUFFICES ASSUME TypeInv, [Next]_vars PROVE TypeOK'
  OBVIOUS
<1> USE DEF TypeInv, TypeOK, vars, database, memory
<1>1. ASSUME NEW r \in Requests, StartRead(r) PROVE TypeOK'
  BY <1>1 DEF StartRead, Goto, End, ReadRow, InFlight, InRunner, InService, InMark, Orphaned, InHuman
<1>2. ASSUME NEW r \in Requests, StartCommit(r) PROVE TypeOK'
  <2>1. row' \in Rows
    BY <1>2, MovedType, StatusNames DEF StartCommit, Unchanged
  <2>2. QED
    BY <1>2, <2>1 DEF StartCommit, Goto, End, Unchanged, InFlight, InRunner, InService, InMark, Orphaned, InHuman
<1>3. ASSUME NEW r \in Requests, AddAgentRun(r) PROVE TypeOK'
  BY <1>3 DEF AddAgentRun, Goto, InFlight, InRunner, InService, InMark, Orphaned, InHuman
<1>4. ASSUME NEW r \in Requests, Prepare(r) PROVE TypeOK'
  BY <1>4 DEF Prepare, Goto, InFlight, InRunner, InService, InMark, Orphaned, InHuman
<1>5. ASSUME NEW r \in Requests, FinishLoop(r) PROVE TypeOK'
  BY <1>5 DEF FinishLoop, Goto, InFlight, InRunner, InService, InMark, Orphaned, InHuman
<1>6. ASSUME NEW r \in Requests, FinishCommit(r) PROVE TypeOK'
  BY <1>6, StatusFacts DEF FinishCommit, Goto, InFlight, InRunner, InService, InMark, Orphaned, InHuman
<1>7. ASSUME NEW r \in Requests, ReturnResult(r) PROVE TypeOK'
  BY <1>7 DEF ReturnResult, Goto, InFlight, InRunner, InService, InMark, Orphaned, InHuman
<1>8. ASSUME NEW r \in Requests, ApplyRead(r) PROVE TypeOK'
  BY <1>8 DEF ApplyRead, Goto, End, ReadRow, InFlight, InRunner, InService, InMark, Orphaned, InHuman
<1>9. ASSUME NEW r \in Requests, ApplyCommit(r) PROVE TypeOK'
  <2>1. row' \in Rows
    BY <1>9, AppliedType DEF ApplyCommit, Unchanged
  <2>2. QED
    BY <1>9, <2>1 DEF ApplyCommit, Goto, End, Unchanged, InFlight, InRunner, InService, InMark, Orphaned, InHuman
<1>10. ASSUME NEW r \in Requests, Return(r) PROVE TypeOK'
  BY <1>10 DEF Return, Goto, End, InFlight, InRunner, InService, InMark, Orphaned, InHuman
<1>11. ASSUME NEW r \in Requests, CancelInService(r) PROVE TypeOK'
  BY <1>11 DEF CancelInService, Goto, Raise, InFlight, InRunner, InService, InMark, Orphaned, InHuman
<1>12. ASSUME NEW r \in Requests, CancelInLoop(r) PROVE TypeOK'
  BY <1>12 DEF CancelInLoop, Goto, Raise, InFlight, InRunner, InService, InMark, Orphaned, InHuman
<1>13. ASSUME NEW r \in Requests, FinishCancelledCommit(r) PROVE TypeOK'
  BY <1>13 DEF FinishCancelledCommit, Goto, InFlight, InRunner, InService, InMark, Orphaned, InHuman
<1>14. ASSUME NEW r \in Requests, CancelInFinish(r) PROVE TypeOK'
  BY <1>14 DEF CancelInFinish, Goto, End, Raise, InFlight, InRunner, InService, InMark, Orphaned, InHuman
<1>15. ASSUME NEW r \in Requests, CancelInHandler(r) PROVE TypeOK'
  BY <1>15 DEF CancelInHandler, Goto, Raise, InFlight, InRunner, InService, InMark, Orphaned, InHuman
<1>16. ASSUME NEW r \in Requests, CancelInMark(r) PROVE TypeOK'
  BY <1>16 DEF CancelInMark, Goto, Raise, InFlight, InRunner, InService, InMark, Orphaned, InHuman
<1>17. ASSUME NEW r \in Requests, MarkRead(r) PROVE TypeOK'
  BY <1>17 DEF MarkRead, Goto, End, EndMark, ReadRow, InFlight, InRunner, InService, InMark, Orphaned, InHuman
<1>18. ASSUME NEW r \in Requests, MarkCommit(r) PROVE TypeOK'
  <2>1. row' \in Rows
    BY <1>18, MovedType, StatusNames DEF MarkCommit, Unchanged
  <2>2. QED
    BY <1>18, <2>1 DEF MarkCommit, Goto, End, EndMark, Unchanged, InFlight, InRunner, InService, InMark, Orphaned, InHuman
<1>19. ASSUME NEW r \in Requests, SupplementRead(r) PROVE TypeOK'
  BY <1>19 DEF SupplementRead, Goto, End, ReadRow, InFlight, InRunner, InService, InMark, Orphaned, InHuman
<1>20. ASSUME NEW r \in Requests, SupplementFind(r) PROVE TypeOK'
  BY <1>20 DEF SupplementFind, Goto, InFlight, InRunner, InService, InMark, Orphaned, InHuman
<1>21. ASSUME NEW r \in Requests, SupplementEvidence(r) PROVE TypeOK'
  <2>1. evidence' \subseteq Contents
    BY <1>21 DEF SupplementEvidence, CallsMatch, CallMatches, End, Goto
  <2>2. QED
    BY <1>21, <2>1 DEF SupplementEvidence, Goto, End, InFlight, InRunner, InService, InMark, Orphaned, InHuman
<1>22. ASSUME NEW r \in Requests, SupplementCommit(r) PROVE TypeOK'
  <2>1. row' \in Rows
    BY <1>22, MovedType, StatusNames DEF SupplementCommit, Unchanged
  <2>2. QED
    BY <1>22, <2>1 DEF SupplementCommit, Goto, End, Unchanged, InFlight, InRunner, InService, InMark, Orphaned, InHuman
<1>23. ASSUME NEW r \in Requests, ConfirmRead(r) PROVE TypeOK'
  BY <1>23 DEF ConfirmRead, Goto, End, ReadRow, InFlight, InRunner, InService, InMark, Orphaned, InHuman
<1>24. ASSUME NEW r \in Requests, ConfirmCommit(r) PROVE TypeOK'
  <2>1. row' \in Rows
    BY <1>24, MovedType, DecidedType DEF ConfirmCommit, Unchanged
  <2>2. confirmations' \subseteq [by : Requests, action : Decisions]
    BY <1>24 DEF ConfirmCommit, CallsMatch, CallMatches
  <2>3. QED
    BY <1>24, <2>1, <2>2 DEF ConfirmCommit, Goto, End, Unchanged, InFlight, InRunner, InService, InMark, Orphaned, InHuman
<1>25. ASSUME NEW r \in Requests, StatementFails(r) PROVE TypeOK'
  BY <1>25 DEF StatementFails, Goto, End, EndMark, InFlight, InRunner, InService, InMark, Orphaned, InHuman
<1>26. ASSUME NEW r \in Requests, NEW p \in Processes, SubmitRun(r, p) PROVE TypeOK'
  BY <1>26, CallFacts, OpFacts DEF SubmitRun, Goto, Submit, InFlight, InRunner, InService, InMark, Orphaned, InHuman
<1>27. ASSUME NEW r \in Requests, NEW p \in Processes, SubmitCancel(r, p) PROVE TypeOK'
  BY <1>27, CallFacts, OpFacts DEF SubmitCancel, Goto, Submit, InFlight, InRunner, InService, InMark, Orphaned, InHuman
<1>28. ASSUME NEW r \in Requests, NEW p \in Processes, SubmitSupplement(r, p) PROVE TypeOK'
  BY <1>28, CallFacts, OpFacts DEF SubmitSupplement, Goto, Submit, InFlight, InRunner, InService, InMark, Orphaned, InHuman
<1>29. ASSUME NEW r \in Requests, NEW p \in Processes, SubmitDecision(r, p) PROVE TypeOK'
  BY <1>29, CallFacts, OpFacts DEF SubmitDecision, Goto, Submit, InFlight, InRunner, InService, InMark, Orphaned, InHuman
<1>30. ASSUME NEW p \in Processes, Interrupt(p) PROVE TypeOK'
  BY <1>30 DEF Interrupt, InFlight, InRunner, InService, InMark, Orphaned, InHuman
<1>31. ASSUME NEW p \in Processes, Crash(p) PROVE TypeOK'
  BY <1>31 DEF Crash, InFlight, InRunner, InService, InMark, Orphaned, InHuman
<1>32. CASE UNCHANGED vars
  BY <1>32
<1>33. QED
  BY <1>1, <1>2, <1>3, <1>4, <1>5, <1>6, <1>7, <1>8, <1>9, <1>10, <1>11, <1>12, <1>13, <1>14, <1>15, <1>16, <1>17, <1>18, <1>19, <1>20, <1>21, <1>22, <1>23, <1>24, <1>25, <1>26, <1>27, <1>28, <1>29, <1>30, <1>31, <1>32 DEF Next, Step, RunStep, MarkStep, HumanStep, SubmitStep, Quiescent

\* Every step leaves each request inside the method it called.
LEMMA CallsMatchStep == TypeInv /\ [Next]_vars => CallsMatch'
<1> SUFFICES ASSUME TypeInv, [Next]_vars, NEW q \in Requests PROVE CallMatches(q)'
  BY DEF CallsMatch
<1>0. CallMatches(q) /\ TypeOK
  BY DEF TypeInv, CallsMatch
<1> USE <1>0 DEF TypeOK, CallMatches, vars, database, memory
<1>1. ASSUME NEW r \in Requests, StartRead(r) PROVE CallMatches(q)'
  BY <1>1, CallFacts, OpFacts DEF StartRead, Goto, End, ReadRow, InFlight, InRunner, InService, InMark, Orphaned, InHuman
<1>2. ASSUME NEW r \in Requests, StartCommit(r) PROVE CallMatches(q)'
  BY <1>2, CallFacts, OpFacts DEF StartCommit, Goto, End, Unchanged, InFlight, InRunner, InService, InMark, Orphaned, InHuman
<1>3. ASSUME NEW r \in Requests, AddAgentRun(r) PROVE CallMatches(q)'
  BY <1>3, CallFacts, OpFacts DEF AddAgentRun, Goto, InFlight, InRunner, InService, InMark, Orphaned, InHuman
<1>4. ASSUME NEW r \in Requests, Prepare(r) PROVE CallMatches(q)'
  BY <1>4, CallFacts, OpFacts DEF Prepare, Goto, InFlight, InRunner, InService, InMark, Orphaned, InHuman
<1>5. ASSUME NEW r \in Requests, FinishLoop(r) PROVE CallMatches(q)'
  BY <1>5, CallFacts, OpFacts DEF FinishLoop, Goto, InFlight, InRunner, InService, InMark, Orphaned, InHuman
<1>6. ASSUME NEW r \in Requests, FinishCommit(r) PROVE CallMatches(q)'
  BY <1>6, CallFacts, OpFacts DEF FinishCommit, Goto, InFlight, InRunner, InService, InMark, Orphaned, InHuman
<1>7. ASSUME NEW r \in Requests, ReturnResult(r) PROVE CallMatches(q)'
  BY <1>7, CallFacts, OpFacts DEF ReturnResult, Goto, InFlight, InRunner, InService, InMark, Orphaned, InHuman
<1>8. ASSUME NEW r \in Requests, ApplyRead(r) PROVE CallMatches(q)'
  BY <1>8, CallFacts, OpFacts DEF ApplyRead, Goto, End, ReadRow, InFlight, InRunner, InService, InMark, Orphaned, InHuman
<1>9. ASSUME NEW r \in Requests, ApplyCommit(r) PROVE CallMatches(q)'
  BY <1>9, CallFacts, OpFacts DEF ApplyCommit, Goto, End, Unchanged, InFlight, InRunner, InService, InMark, Orphaned, InHuman
<1>10. ASSUME NEW r \in Requests, Return(r) PROVE CallMatches(q)'
  BY <1>10, CallFacts, OpFacts DEF Return, Goto, End, InFlight, InRunner, InService, InMark, Orphaned, InHuman
<1>11. ASSUME NEW r \in Requests, CancelInService(r) PROVE CallMatches(q)'
  BY <1>11, CallFacts, OpFacts DEF CancelInService, Goto, Raise, InFlight, InRunner, InService, InMark, Orphaned, InHuman
<1>12. ASSUME NEW r \in Requests, CancelInLoop(r) PROVE CallMatches(q)'
  BY <1>12, CallFacts, OpFacts DEF CancelInLoop, Goto, Raise, InFlight, InRunner, InService, InMark, Orphaned, InHuman
<1>13. ASSUME NEW r \in Requests, FinishCancelledCommit(r) PROVE CallMatches(q)'
  BY <1>13, CallFacts, OpFacts DEF FinishCancelledCommit, Goto, InFlight, InRunner, InService, InMark, Orphaned, InHuman
<1>14. ASSUME NEW r \in Requests, CancelInFinish(r) PROVE CallMatches(q)'
  BY <1>14, CallFacts, OpFacts DEF CancelInFinish, Goto, End, Raise, InFlight, InRunner, InService, InMark, Orphaned, InHuman
<1>15. ASSUME NEW r \in Requests, CancelInHandler(r) PROVE CallMatches(q)'
  BY <1>15, CallFacts, OpFacts DEF CancelInHandler, Goto, Raise, InFlight, InRunner, InService, InMark, Orphaned, InHuman
<1>16. ASSUME NEW r \in Requests, CancelInMark(r) PROVE CallMatches(q)'
  BY <1>16, CallFacts, OpFacts DEF CancelInMark, Goto, Raise, InFlight, InRunner, InService, InMark, Orphaned, InHuman, TypeInv, OnlyRuns, IsRun
<1>17. ASSUME NEW r \in Requests, MarkRead(r) PROVE CallMatches(q)'
  BY <1>17, CallFacts, OpFacts DEF MarkRead, Goto, End, EndMark, ReadRow, InFlight, InRunner, InService, InMark, Orphaned, InHuman
<1>18. ASSUME NEW r \in Requests, MarkCommit(r) PROVE CallMatches(q)'
  BY <1>18, CallFacts, OpFacts DEF MarkCommit, Goto, End, EndMark, Unchanged, InFlight, InRunner, InService, InMark, Orphaned, InHuman
<1>19. ASSUME NEW r \in Requests, SupplementRead(r) PROVE CallMatches(q)'
  BY <1>19, CallFacts, OpFacts DEF SupplementRead, Goto, End, ReadRow, InFlight, InRunner, InService, InMark, Orphaned, InHuman
<1>20. ASSUME NEW r \in Requests, SupplementFind(r) PROVE CallMatches(q)'
  BY <1>20, CallFacts, OpFacts DEF SupplementFind, Goto, InFlight, InRunner, InService, InMark, Orphaned, InHuman
<1>21. ASSUME NEW r \in Requests, SupplementEvidence(r) PROVE CallMatches(q)'
  BY <1>21, CallFacts, OpFacts DEF SupplementEvidence, Goto, End, InFlight, InRunner, InService, InMark, Orphaned, InHuman
<1>22. ASSUME NEW r \in Requests, SupplementCommit(r) PROVE CallMatches(q)'
  BY <1>22, CallFacts, OpFacts DEF SupplementCommit, Goto, End, Unchanged, InFlight, InRunner, InService, InMark, Orphaned, InHuman
<1>23. ASSUME NEW r \in Requests, ConfirmRead(r) PROVE CallMatches(q)'
  BY <1>23, CallFacts, OpFacts DEF ConfirmRead, Goto, End, ReadRow, InFlight, InRunner, InService, InMark, Orphaned, InHuman
<1>24. ASSUME NEW r \in Requests, ConfirmCommit(r) PROVE CallMatches(q)'
  BY <1>24, CallFacts, OpFacts DEF ConfirmCommit, Goto, End, Unchanged, InFlight, InRunner, InService, InMark, Orphaned, InHuman
<1>25. ASSUME NEW r \in Requests, StatementFails(r) PROVE CallMatches(q)'
  BY <1>25, CallFacts, OpFacts DEF StatementFails, Goto, End, EndMark, InFlight, InRunner, InService, InMark, Orphaned, InHuman
<1>26. ASSUME NEW r \in Requests, NEW p \in Processes, SubmitRun(r, p) PROVE CallMatches(q)'
  BY <1>26, CallFacts, OpFacts DEF SubmitRun, Goto, Submit, InFlight, InRunner, InService, InMark, Orphaned, InHuman
<1>27. ASSUME NEW r \in Requests, NEW p \in Processes, SubmitCancel(r, p) PROVE CallMatches(q)'
  BY <1>27, CallFacts, OpFacts DEF SubmitCancel, Goto, Submit, InFlight, InRunner, InService, InMark, Orphaned, InHuman
<1>28. ASSUME NEW r \in Requests, NEW p \in Processes, SubmitSupplement(r, p) PROVE CallMatches(q)'
  BY <1>28, CallFacts, OpFacts DEF SubmitSupplement, Goto, Submit, InFlight, InRunner, InService, InMark, Orphaned, InHuman
<1>29. ASSUME NEW r \in Requests, NEW p \in Processes, SubmitDecision(r, p) PROVE CallMatches(q)'
  BY <1>29, CallFacts, OpFacts DEF SubmitDecision, Goto, Submit, InFlight, InRunner, InService, InMark, Orphaned, InHuman
<1>30. ASSUME NEW p \in Processes, Interrupt(p) PROVE CallMatches(q)'
  BY <1>30, CallFacts, OpFacts DEF Interrupt, InFlight, InRunner, InService, InMark, Orphaned, InHuman
<1>31. ASSUME NEW p \in Processes, Crash(p) PROVE CallMatches(q)'
  BY <1>31, CallFacts, OpFacts DEF Crash, InFlight, InRunner, InService, InMark, Orphaned, InHuman
<1>32. CASE UNCHANGED vars
  BY <1>32
<1>33. QED
  BY <1>1, <1>2, <1>3, <1>4, <1>5, <1>6, <1>7, <1>8, <1>9, <1>10, <1>11, <1>12, <1>13, <1>14, <1>15, <1>16, <1>17, <1>18, <1>19, <1>20, <1>21, <1>22, <1>23, <1>24, <1>25, <1>26, <1>27, <1>28, <1>29, <1>30, <1>31, <1>32 DEF Next, Step, RunStep, MarkStep, HumanStep, SubmitStep, Quiescent

\* Every step registers and cancels runs only.
LEMMA OnlyRunsStep == TypeInv /\ [Next]_vars => OnlyRuns'
<1> SUFFICES ASSUME TypeInv, [Next]_vars PROVE OnlyRuns'
  OBVIOUS
<1> USE NoRequestAssumption DEF TypeInv, TypeOK, OnlyRuns, IsRun, vars, database, memory
<1>1. ASSUME NEW r \in Requests, StartRead(r) PROVE OnlyRuns'
  BY <1>1 DEF StartRead, Goto, End, ReadRow, InFlight
<1>2. ASSUME NEW r \in Requests, StartCommit(r) PROVE OnlyRuns'
  BY <1>2 DEF StartCommit, Goto, End, Unchanged, InFlight
<1>3. ASSUME NEW r \in Requests, AddAgentRun(r) PROVE OnlyRuns'
  BY <1>3 DEF AddAgentRun, Goto, InFlight
<1>4. ASSUME NEW r \in Requests, Prepare(r) PROVE OnlyRuns'
  BY <1>4 DEF Prepare, Goto, InFlight
<1>5. ASSUME NEW r \in Requests, FinishLoop(r) PROVE OnlyRuns'
  BY <1>5 DEF FinishLoop, Goto, InFlight
<1>6. ASSUME NEW r \in Requests, FinishCommit(r) PROVE OnlyRuns'
  BY <1>6 DEF FinishCommit, Goto, InFlight
<1>7. ASSUME NEW r \in Requests, ReturnResult(r) PROVE OnlyRuns'
  BY <1>7 DEF ReturnResult, Goto, InFlight
<1>8. ASSUME NEW r \in Requests, ApplyRead(r) PROVE OnlyRuns'
  BY <1>8 DEF ApplyRead, Goto, End, ReadRow, InFlight
<1>9. ASSUME NEW r \in Requests, ApplyCommit(r) PROVE OnlyRuns'
  BY <1>9 DEF ApplyCommit, Goto, End, Unchanged, InFlight
<1>10. ASSUME NEW r \in Requests, Return(r) PROVE OnlyRuns'
  BY <1>10 DEF Return, Goto, End, InFlight
<1>11. ASSUME NEW r \in Requests, CancelInService(r) PROVE OnlyRuns'
  BY <1>11 DEF CancelInService, Goto, Raise, InFlight
<1>12. ASSUME NEW r \in Requests, CancelInLoop(r) PROVE OnlyRuns'
  BY <1>12 DEF CancelInLoop, Goto, Raise, InFlight
<1>13. ASSUME NEW r \in Requests, FinishCancelledCommit(r) PROVE OnlyRuns'
  BY <1>13 DEF FinishCancelledCommit, Goto, InFlight
<1>14. ASSUME NEW r \in Requests, CancelInFinish(r) PROVE OnlyRuns'
  BY <1>14 DEF CancelInFinish, Goto, End, Raise, InFlight
<1>15. ASSUME NEW r \in Requests, CancelInHandler(r) PROVE OnlyRuns'
  BY <1>15 DEF CancelInHandler, Goto, Raise, InFlight
<1>16. ASSUME NEW r \in Requests, CancelInMark(r) PROVE OnlyRuns'
  BY <1>16 DEF CancelInMark, Goto, Raise, InFlight
<1>17. ASSUME NEW r \in Requests, MarkRead(r) PROVE OnlyRuns'
  BY <1>17 DEF MarkRead, Goto, End, EndMark, ReadRow, InFlight
<1>18. ASSUME NEW r \in Requests, MarkCommit(r) PROVE OnlyRuns'
  BY <1>18 DEF MarkCommit, Goto, End, EndMark, Unchanged, InFlight
<1>19. ASSUME NEW r \in Requests, SupplementRead(r) PROVE OnlyRuns'
  BY <1>19 DEF SupplementRead, Goto, End, ReadRow, InFlight
<1>20. ASSUME NEW r \in Requests, SupplementFind(r) PROVE OnlyRuns'
  BY <1>20 DEF SupplementFind, Goto, InFlight
<1>21. ASSUME NEW r \in Requests, SupplementEvidence(r) PROVE OnlyRuns'
  BY <1>21 DEF SupplementEvidence, Goto, End, InFlight
<1>22. ASSUME NEW r \in Requests, SupplementCommit(r) PROVE OnlyRuns'
  BY <1>22 DEF SupplementCommit, Goto, End, Unchanged, InFlight
<1>23. ASSUME NEW r \in Requests, ConfirmRead(r) PROVE OnlyRuns'
  BY <1>23 DEF ConfirmRead, Goto, End, ReadRow, InFlight
<1>24. ASSUME NEW r \in Requests, ConfirmCommit(r) PROVE OnlyRuns'
  BY <1>24 DEF ConfirmCommit, Goto, End, Unchanged, InFlight
<1>25. ASSUME NEW r \in Requests, StatementFails(r) PROVE OnlyRuns'
  BY <1>25 DEF StatementFails, Goto, End, EndMark, InFlight
<1>26. ASSUME NEW r \in Requests, NEW p \in Processes, SubmitRun(r, p) PROVE OnlyRuns'
  BY <1>26, CallFacts, OpFacts DEF SubmitRun, Goto, Submit, CallsMatch, CallMatches, InFlight, InRunner, InService, InMark, Orphaned, InHuman
<1>27. ASSUME NEW r \in Requests, NEW p \in Processes, SubmitCancel(r, p) PROVE OnlyRuns'
  BY <1>27, CallFacts, OpFacts DEF SubmitCancel, Goto, Submit, CallsMatch, CallMatches, InFlight, InRunner, InService, InMark, Orphaned, InHuman
<1>28. ASSUME NEW r \in Requests, NEW p \in Processes, SubmitSupplement(r, p) PROVE OnlyRuns'
  BY <1>28, CallFacts, OpFacts DEF SubmitSupplement, Goto, Submit, CallsMatch, CallMatches, InFlight, InRunner, InService, InMark, Orphaned, InHuman
<1>29. ASSUME NEW r \in Requests, NEW p \in Processes, SubmitDecision(r, p) PROVE OnlyRuns'
  BY <1>29, CallFacts, OpFacts DEF SubmitDecision, Goto, Submit, CallsMatch, CallMatches, InFlight, InRunner, InService, InMark, Orphaned, InHuman
<1>30. ASSUME NEW p \in Processes, Interrupt(p) PROVE OnlyRuns'
  BY <1>30 DEF Interrupt, InFlight
<1>31. ASSUME NEW p \in Processes, Crash(p) PROVE OnlyRuns'
  BY <1>31 DEF Crash, InFlight
<1>32. CASE UNCHANGED vars
  BY <1>32
<1>33. QED
  BY <1>1, <1>2, <1>3, <1>4, <1>5, <1>6, <1>7, <1>8, <1>9, <1>10, <1>11, <1>12, <1>13, <1>14, <1>15, <1>16, <1>17, <1>18, <1>19, <1>20, <1>21, <1>22, <1>23, <1>24, <1>25, <1>26, <1>27, <1>28, <1>29, <1>30, <1>31, <1>32 DEF Next, Step, RunStep, MarkStep, HumanStep, SubmitStep, Quiescent

\* The type invariant is inductive.
LEMMA TypeStep == TypeInv /\ [Next]_vars => TypeInv'
  BY TypeOKStep, CallsMatchStep, OnlyRunsStep DEF TypeInv
-----------------------------------------------------------------------------
(* Versions *)

\* VersionsIdentifyRows, for one request.
VersionIdentifies(r) ==
  /\ snap[r].version <= row.version
  /\ snap[r].version = row.version => snap[r] = row

\* A write increments the version it was compared with, so it outdates
\* every other copy; a read copies the row; other steps touch neither.
LEMMA VersionsStep == TypeInv /\ VersionsIdentifyRows /\ [Next]_vars => VersionsIdentifyRows'
<1> SUFFICES ASSUME TypeInv, VersionsIdentifyRows, [Next]_vars, NEW q \in Requests
             PROVE  VersionIdentifies(q)'
  BY DEF VersionsIdentifyRows, VersionIdentifies
<1>0. VersionIdentifies(q) /\ TypeOK
  BY DEF TypeInv, VersionsIdentifyRows, VersionIdentifies
<1> USE <1>0 DEF TypeOK, VersionIdentifies, vars, database, memory
<1>1. ASSUME NEW r \in Requests, StartRead(r) PROVE VersionIdentifies(q)'
  BY <1>1 DEF StartRead, Goto, End, ReadRow, Rows
<1>2. ASSUME NEW r \in Requests, StartCommit(r) PROVE VersionIdentifies(q)'
  <2>1. row' = row \/ (Unchanged(r) /\ row'.version = snap[r].version + 1)
    BY <1>2, MovedFields, AppliedFields DEF StartCommit
  <2>2. snap' = snap /\ row \in Rows /\ snap[r] \in Rows
    BY <1>2 DEF StartCommit
  <2>3. QED
    BY <1>2, <2>1, <2>2 DEF Unchanged, Rows
<1>3. ASSUME NEW r \in Requests, AddAgentRun(r) PROVE VersionIdentifies(q)'
  BY <1>3 DEF AddAgentRun, Goto, Rows
<1>4. ASSUME NEW r \in Requests, Prepare(r) PROVE VersionIdentifies(q)'
  BY <1>4 DEF Prepare, Goto, Rows
<1>5. ASSUME NEW r \in Requests, FinishLoop(r) PROVE VersionIdentifies(q)'
  BY <1>5 DEF FinishLoop, Goto, Rows
<1>6. ASSUME NEW r \in Requests, FinishCommit(r) PROVE VersionIdentifies(q)'
  BY <1>6 DEF FinishCommit, Goto, Rows
<1>7. ASSUME NEW r \in Requests, ReturnResult(r) PROVE VersionIdentifies(q)'
  BY <1>7 DEF ReturnResult, Goto, Rows
<1>8. ASSUME NEW r \in Requests, ApplyRead(r) PROVE VersionIdentifies(q)'
  BY <1>8 DEF ApplyRead, Goto, End, ReadRow, Rows
<1>9. ASSUME NEW r \in Requests, ApplyCommit(r) PROVE VersionIdentifies(q)'
  <2>1. row' = row \/ (Unchanged(r) /\ row'.version = snap[r].version + 1)
    BY <1>9, MovedFields, AppliedFields DEF ApplyCommit
  <2>2. snap' = snap /\ row \in Rows /\ snap[r] \in Rows
    BY <1>9 DEF ApplyCommit
  <2>3. QED
    BY <1>9, <2>1, <2>2 DEF Unchanged, Rows
<1>10. ASSUME NEW r \in Requests, Return(r) PROVE VersionIdentifies(q)'
  BY <1>10 DEF Return, Goto, End, Rows
<1>11. ASSUME NEW r \in Requests, CancelInService(r) PROVE VersionIdentifies(q)'
  BY <1>11 DEF CancelInService, Goto, Raise, Rows
<1>12. ASSUME NEW r \in Requests, CancelInLoop(r) PROVE VersionIdentifies(q)'
  BY <1>12 DEF CancelInLoop, Goto, Raise, Rows
<1>13. ASSUME NEW r \in Requests, FinishCancelledCommit(r) PROVE VersionIdentifies(q)'
  BY <1>13 DEF FinishCancelledCommit, Goto, Rows
<1>14. ASSUME NEW r \in Requests, CancelInFinish(r) PROVE VersionIdentifies(q)'
  BY <1>14 DEF CancelInFinish, Goto, End, Raise, Rows
<1>15. ASSUME NEW r \in Requests, CancelInHandler(r) PROVE VersionIdentifies(q)'
  BY <1>15 DEF CancelInHandler, Goto, Raise, Rows
<1>16. ASSUME NEW r \in Requests, CancelInMark(r) PROVE VersionIdentifies(q)'
  BY <1>16 DEF CancelInMark, Goto, Raise, Rows
<1>17. ASSUME NEW r \in Requests, MarkRead(r) PROVE VersionIdentifies(q)'
  BY <1>17 DEF MarkRead, Goto, End, EndMark, ReadRow, Rows
<1>18. ASSUME NEW r \in Requests, MarkCommit(r) PROVE VersionIdentifies(q)'
  <2>1. row' = row \/ (Unchanged(r) /\ row'.version = snap[r].version + 1)
    BY <1>18, MovedFields, AppliedFields DEF MarkCommit
  <2>2. snap' = snap /\ row \in Rows /\ snap[r] \in Rows
    BY <1>18 DEF MarkCommit
  <2>3. QED
    BY <1>18, <2>1, <2>2 DEF Unchanged, Rows
<1>19. ASSUME NEW r \in Requests, SupplementRead(r) PROVE VersionIdentifies(q)'
  BY <1>19 DEF SupplementRead, Goto, End, ReadRow, Rows
<1>20. ASSUME NEW r \in Requests, SupplementFind(r) PROVE VersionIdentifies(q)'
  BY <1>20 DEF SupplementFind, Goto, Rows
<1>21. ASSUME NEW r \in Requests, SupplementEvidence(r) PROVE VersionIdentifies(q)'
  BY <1>21 DEF SupplementEvidence, Goto, End, Rows
<1>22. ASSUME NEW r \in Requests, SupplementCommit(r) PROVE VersionIdentifies(q)'
  <2>1. row' = row \/ (Unchanged(r) /\ row'.version = snap[r].version + 1)
    BY <1>22, MovedFields, AppliedFields DEF SupplementCommit
  <2>2. snap' = snap /\ row \in Rows /\ snap[r] \in Rows
    BY <1>22 DEF SupplementCommit
  <2>3. QED
    BY <1>22, <2>1, <2>2 DEF Unchanged, Rows
<1>23. ASSUME NEW r \in Requests, ConfirmRead(r) PROVE VersionIdentifies(q)'
  BY <1>23 DEF ConfirmRead, Goto, End, ReadRow, Rows
<1>24. ASSUME NEW r \in Requests, ConfirmCommit(r) PROVE VersionIdentifies(q)'
  <2>1. row' = row \/ (Unchanged(r) /\ row'.version = snap[r].version + 1)
    BY <1>24, MovedFields, AppliedFields DEF ConfirmCommit
  <2>2. snap' = snap /\ row \in Rows /\ snap[r] \in Rows
    BY <1>24 DEF ConfirmCommit
  <2>3. QED
    BY <1>24, <2>1, <2>2 DEF Unchanged, Rows
<1>25. ASSUME NEW r \in Requests, StatementFails(r) PROVE VersionIdentifies(q)'
  BY <1>25 DEF StatementFails, Goto, End, EndMark, Rows
<1>26. ASSUME NEW r \in Requests, NEW p \in Processes, SubmitRun(r, p) PROVE VersionIdentifies(q)'
  BY <1>26 DEF SubmitRun, Goto, Submit, Rows
<1>27. ASSUME NEW r \in Requests, NEW p \in Processes, SubmitCancel(r, p) PROVE VersionIdentifies(q)'
  BY <1>27 DEF SubmitCancel, Goto, Submit, Rows
<1>28. ASSUME NEW r \in Requests, NEW p \in Processes, SubmitSupplement(r, p) PROVE VersionIdentifies(q)'
  BY <1>28 DEF SubmitSupplement, Goto, Submit, Rows
<1>29. ASSUME NEW r \in Requests, NEW p \in Processes, SubmitDecision(r, p) PROVE VersionIdentifies(q)'
  BY <1>29 DEF SubmitDecision, Goto, Submit, Rows
<1>30. ASSUME NEW p \in Processes, Interrupt(p) PROVE VersionIdentifies(q)'
  BY <1>30 DEF Interrupt, Rows
<1>31. ASSUME NEW p \in Processes, Crash(p) PROVE VersionIdentifies(q)'
  BY <1>31 DEF Crash, Rows
<1>32. CASE UNCHANGED vars
  BY <1>32
<1>33. QED
  BY <1>1, <1>2, <1>3, <1>4, <1>5, <1>6, <1>7, <1>8, <1>9, <1>10, <1>11, <1>12, <1>13, <1>14, <1>15, <1>16, <1>17, <1>18, <1>19, <1>20, <1>21, <1>22, <1>23, <1>24, <1>25, <1>26, <1>27, <1>28, <1>29, <1>30, <1>31, <1>32 DEF Next, Step, RunStep, MarkStep, HumanStep, SubmitStep, Quiescent

-----------------------------------------------------------------------------
(* What a request that is about to write has read. *)

\* The status a request has checked on its copy before it waits.
Admits(r) ==
  /\ pc[r] \in InRunner \union { "start_commit", "add_run", "prepare", "apply_read",
                                   "mark_commit", "orphan_commit" } =>
       snap[r].status \in { "created", "investigating" }
  /\ pc[r] = "apply_commit" => snap[r].status = "investigating"
  /\ pc[r] \in { "supp_find", "supp_evidence", "supp_commit" } =>
       snap[r].status = "waiting_for_input"
  /\ pc[r] = "conf_commit" => snap[r].status = "waiting_for_confirmation"

\* Every copy still admits the write its request is about to make with it.
SnapshotsAdmitWrites == \A r \in Requests : Admits(r)

\* The table of transitions, entry by entry.
LEMMA AllowedFacts ==
  /\ Allowed["created"] = { "investigating", "cancelled" }
  /\ Allowed["investigating"] = { "waiting_for_input", "waiting_for_confirmation",
                                   "inconclusive", "cancelled" }
  /\ Allowed["waiting_for_input"] = { "investigating" }
  /\ Allowed["waiting_for_confirmation"] = { "confirmed", "rejected", "investigating" }
  /\ \A s \in Terminal : Allowed[s] = {}
  BY DEF Allowed, Status, Terminal

\* Only a case under investigation accepts the result of a run.
LEMMA ResultNeedsInvestigation ==
  ASSUME NEW c \in Rows, NEW res, CanMove(c, ResultStatus(res))
  PROVE  c.status = "investigating"
<1>1. c.status \in Status
  BY DEF Rows
<1>2. ResultStatus(res) \in Allowed[c.status]
  BY DEF CanMove
<1>3. QED
  BY <1>1, <1>2, AllowedFacts, StatusFacts DEF Status, Terminal

\* Every step keeps the copies what their requests have checked.
LEMMA AdmitsStep == TypeInv /\ SnapshotsAdmitWrites /\ [Next]_vars => SnapshotsAdmitWrites'
<1> SUFFICES ASSUME TypeInv, SnapshotsAdmitWrites, [Next]_vars, NEW q \in Requests
             PROVE  Admits(q)'
  BY DEF SnapshotsAdmitWrites
<1>0. Admits(q) /\ TypeOK
  BY DEF TypeInv, SnapshotsAdmitWrites
<1> USE <1>0 DEF TypeOK, Admits, vars, database, memory
<1>1. ASSUME NEW r \in Requests, StartRead(r) PROVE Admits(q)'
  BY <1>1 DEF StartRead, Goto, End, ReadRow, InFlight, InRunner, InService, InMark, Orphaned, InHuman
<1>2. ASSUME NEW r \in Requests, StartCommit(r) PROVE Admits(q)'
  BY <1>2 DEF StartCommit, Goto, End, Unchanged, InFlight, InRunner, InService, InMark, Orphaned, InHuman
<1>3. ASSUME NEW r \in Requests, AddAgentRun(r) PROVE Admits(q)'
  BY <1>3 DEF AddAgentRun, Goto, InFlight, InRunner, InService, InMark, Orphaned, InHuman
<1>4. ASSUME NEW r \in Requests, Prepare(r) PROVE Admits(q)'
  BY <1>4 DEF Prepare, Goto, InFlight, InRunner, InService, InMark, Orphaned, InHuman
<1>5. ASSUME NEW r \in Requests, FinishLoop(r) PROVE Admits(q)'
  BY <1>5 DEF FinishLoop, Goto, InFlight, InRunner, InService, InMark, Orphaned, InHuman
<1>6. ASSUME NEW r \in Requests, FinishCommit(r) PROVE Admits(q)'
  BY <1>6 DEF FinishCommit, Goto, InFlight, InRunner, InService, InMark, Orphaned, InHuman
<1>7. ASSUME NEW r \in Requests, ReturnResult(r) PROVE Admits(q)'
  BY <1>7 DEF ReturnResult, Goto, InFlight, InRunner, InService, InMark, Orphaned, InHuman
<1>8. ASSUME NEW r \in Requests, ApplyRead(r) PROVE Admits(q)'
  BY <1>8, ResultNeedsInvestigation DEF ApplyRead, Goto, End, ReadRow, InFlight, InRunner, InService, InMark, Orphaned, InHuman
<1>9. ASSUME NEW r \in Requests, ApplyCommit(r) PROVE Admits(q)'
  BY <1>9 DEF ApplyCommit, Goto, End, Unchanged, InFlight, InRunner, InService, InMark, Orphaned, InHuman
<1>10. ASSUME NEW r \in Requests, Return(r) PROVE Admits(q)'
  BY <1>10 DEF Return, Goto, End, InFlight, InRunner, InService, InMark, Orphaned, InHuman
<1>11. ASSUME NEW r \in Requests, CancelInService(r) PROVE Admits(q)'
  BY <1>11 DEF CancelInService, Goto, Raise, InFlight, InRunner, InService, InMark, Orphaned, InHuman
<1>12. ASSUME NEW r \in Requests, CancelInLoop(r) PROVE Admits(q)'
  BY <1>12 DEF CancelInLoop, Goto, Raise, InFlight, InRunner, InService, InMark, Orphaned, InHuman
<1>13. ASSUME NEW r \in Requests, FinishCancelledCommit(r) PROVE Admits(q)'
  BY <1>13 DEF FinishCancelledCommit, Goto, InFlight, InRunner, InService, InMark, Orphaned, InHuman
<1>14. ASSUME NEW r \in Requests, CancelInFinish(r) PROVE Admits(q)'
  BY <1>14 DEF CancelInFinish, Goto, End, Raise, InFlight, InRunner, InService, InMark, Orphaned, InHuman
<1>15. ASSUME NEW r \in Requests, CancelInHandler(r) PROVE Admits(q)'
  BY <1>15 DEF CancelInHandler, Goto, Raise, InFlight, InRunner, InService, InMark, Orphaned, InHuman
<1>16. ASSUME NEW r \in Requests, CancelInMark(r) PROVE Admits(q)'
  BY <1>16 DEF CancelInMark, Goto, Raise, InFlight, InRunner, InService, InMark, Orphaned, InHuman
<1>17. ASSUME NEW r \in Requests, MarkRead(r) PROVE Admits(q)'
  BY <1>17 DEF MarkRead, Goto, End, EndMark, ReadRow, InFlight, InRunner, InService, InMark, Orphaned, InHuman
<1>18. ASSUME NEW r \in Requests, MarkCommit(r) PROVE Admits(q)'
  BY <1>18 DEF MarkCommit, Goto, End, EndMark, Unchanged, InFlight, InRunner, InService, InMark, Orphaned, InHuman
<1>19. ASSUME NEW r \in Requests, SupplementRead(r) PROVE Admits(q)'
  BY <1>19 DEF SupplementRead, Goto, End, ReadRow, InFlight, InRunner, InService, InMark, Orphaned, InHuman
<1>20. ASSUME NEW r \in Requests, SupplementFind(r) PROVE Admits(q)'
  BY <1>20 DEF SupplementFind, Goto, InFlight, InRunner, InService, InMark, Orphaned, InHuman
<1>21. ASSUME NEW r \in Requests, SupplementEvidence(r) PROVE Admits(q)'
  BY <1>21 DEF SupplementEvidence, Goto, End, InFlight, InRunner, InService, InMark, Orphaned, InHuman
<1>22. ASSUME NEW r \in Requests, SupplementCommit(r) PROVE Admits(q)'
  BY <1>22 DEF SupplementCommit, Goto, End, Unchanged, InFlight, InRunner, InService, InMark, Orphaned, InHuman
<1>23. ASSUME NEW r \in Requests, ConfirmRead(r) PROVE Admits(q)'
  BY <1>23 DEF ConfirmRead, Goto, End, ReadRow, InFlight, InRunner, InService, InMark, Orphaned, InHuman
<1>24. ASSUME NEW r \in Requests, ConfirmCommit(r) PROVE Admits(q)'
  BY <1>24 DEF ConfirmCommit, Goto, End, Unchanged, InFlight, InRunner, InService, InMark, Orphaned, InHuman
<1>25. ASSUME NEW r \in Requests, StatementFails(r) PROVE Admits(q)'
  BY <1>25 DEF StatementFails, Goto, End, EndMark, InFlight, InRunner, InService, InMark, Orphaned, InHuman
<1>26. ASSUME NEW r \in Requests, NEW p \in Processes, SubmitRun(r, p) PROVE Admits(q)'
  BY <1>26 DEF SubmitRun, Goto, Submit, InFlight, InRunner, InService, InMark, Orphaned, InHuman
<1>27. ASSUME NEW r \in Requests, NEW p \in Processes, SubmitCancel(r, p) PROVE Admits(q)'
  BY <1>27 DEF SubmitCancel, Goto, Submit, InFlight, InRunner, InService, InMark, Orphaned, InHuman
<1>28. ASSUME NEW r \in Requests, NEW p \in Processes, SubmitSupplement(r, p) PROVE Admits(q)'
  BY <1>28 DEF SubmitSupplement, Goto, Submit, InFlight, InRunner, InService, InMark, Orphaned, InHuman
<1>29. ASSUME NEW r \in Requests, NEW p \in Processes, SubmitDecision(r, p) PROVE Admits(q)'
  BY <1>29 DEF SubmitDecision, Goto, Submit, InFlight, InRunner, InService, InMark, Orphaned, InHuman
<1>30. ASSUME NEW p \in Processes, Interrupt(p) PROVE Admits(q)'
  BY <1>30 DEF Interrupt, InFlight, InRunner, InService, InMark, Orphaned, InHuman
<1>31. ASSUME NEW p \in Processes, Crash(p) PROVE Admits(q)'
  BY <1>31 DEF Crash, InFlight, InRunner, InService, InMark, Orphaned, InHuman
<1>32. CASE UNCHANGED vars
  BY <1>32
<1>33. QED
  BY <1>1, <1>2, <1>3, <1>4, <1>5, <1>6, <1>7, <1>8, <1>9, <1>10, <1>11, <1>12, <1>13, <1>14, <1>15, <1>16, <1>17, <1>18, <1>19, <1>20, <1>21, <1>22, <1>23, <1>24, <1>25, <1>26, <1>27, <1>28, <1>29, <1>30, <1>31, <1>32 DEF Next, Step, RunStep, MarkStep, HumanStep, SubmitStep, Quiescent
-----------------------------------------------------------------------------
(* Refinement *)

\* The inductive invariant on which the refinement rests.
RefineInv == TypeInv /\ VersionsIdentifyRows /\ SnapshotsAdmitWrites

\* The write of a request is a transition of the current row: its copy has
\* the version of the row, hence is the row.
LEMMA CopyIsCurrent ==
  ASSUME RefineInv, NEW r \in Requests, Unchanged(r)
  PROVE  snap[r] = row /\ row \in Rows
  BY DEF RefineInv, TypeInv, TypeOK, VersionsIdentifyRows, Unchanged

\* Where each human decision leads.
LEMMA DecidedFacts ==
  /\ DecidedStatus("confirm") = "confirmed"
  /\ DecidedStatus("reject") = "rejected"
  /\ DecidedStatus("continue_investigation") = "investigating"
  BY DEF DecidedStatus

\* The domain vocabulary that DiagnosisCase extends is the one used here.
LEMMA SameDomain ==
  /\ Case!Status = Status /\ Case!Decisions = Decisions
  /\ \A c, t : Case!Moved(c, t) = Moved(c, t)
  /\ \A c, t, x : Case!Concluded(c, t, x) = Concluded(c, t, x)
  /\ \A c, t : Case!CanMove(c, t) <=> CanMove(c, t)
  /\ \A d : Case!DecidedStatus(d) = DecidedStatus(d)
<1>1. Case!Status = Status /\ Case!Decisions = Decisions
  BY DEF Case!Status, Status, Case!Decisions, Decisions
<1>2. /\ \A c, t, x : Case!Concluded(c, t, x) = Concluded(c, t, x)
      /\ \A c, t : Case!Moved(c, t) = Moved(c, t)
  BY DEF Case!Concluded, Concluded, Case!Moved, Moved
<1>3. Case!Allowed = Allowed
  BY <1>1 DEF Case!Allowed, Allowed
<1>4. \A c, t : Case!CanMove(c, t) <=> CanMove(c, t)
  BY <1>3 DEF Case!CanMove, CanMove
<1>5. \A d : Case!DecidedStatus(d) = DecidedStatus(d)
  BY DEF Case!DecidedStatus, DecidedStatus
<1>6. QED
  BY <1>1, <1>2, <1>4, <1>5

\* A step that the aggregate does not see.
CaseUnchanged == UNCHANGED <<row, confirmations, candidates>>

\* _start_investigation commits start_investigation, or nothing.
LEMMA StartCommitRefines ==
  ASSUME RefineInv, NEW r \in Requests, StartCommit(r)
  PROVE  CaseUnchanged \/ Case!StartInvestigation
<1>1. CASE row' = row
  BY <1>1 DEF StartCommit, CaseUnchanged
<1>2. CASE row' # row
  <2>1. Unchanged(r) /\ snap[r].status = "created" /\ row' = Moved(snap[r], "investigating")
    BY <1>2 DEF StartCommit
  <2>2. snap[r] = row
    BY <2>1, CopyIsCurrent
  <2>3. QED
    BY <2>1, <2>2, AllowedFacts, SameDomain
       DEF StartCommit, CanMove, Case!StartInvestigation, Case!TransitionTo
<1>3. QED
  BY <1>1, <1>2

\* _apply_result commits mark_inconclusive or record_initial_conclusion, or
\* nothing.
LEMMA ApplyCommitRefines ==
  ASSUME RefineInv, NEW r \in Requests, ApplyCommit(r)
  PROVE  \/ CaseUnchanged
         \/ Case!MarkInconclusive
         \/ \E t \in Status : Case!RecordInitialConclusion(r, t)
<1>1. CASE row' = row
  BY <1>1 DEF ApplyCommit, CaseUnchanged
<1>2. CASE row' # row
  <2>1. Unchanged(r) /\ row' = Applied(snap[r], r)
    BY <1>2 DEF ApplyCommit
  <2>2. snap[r] = row /\ row.status = "investigating"
    BY <2>1, CopyIsCurrent DEF ApplyCommit, RefineInv, SnapshotsAdmitWrites, Admits
  <2>3. CASE ResultStatus(result[r]) = "inconclusive"
    BY <2>1, <2>2, <2>3, AllowedFacts, SameDomain
       DEF Applied, ApplyCommit, CanMove, Case!MarkInconclusive, Case!TransitionTo
  <2>4. CASE ResultStatus(result[r]) # "inconclusive"
    <3>1. ResultStatus(result[r]) \in { "waiting_for_input", "waiting_for_confirmation" }
      BY <2>4, StatusFacts
    <3>2. Case!RecordInitialConclusion(r, ResultStatus(result[r]))
      BY <2>1, <2>2, <2>4, <3>1, AllowedFacts, SameDomain
         DEF Applied, ApplyCommit, CanMove, Case!RecordInitialConclusion
    <3>3. QED
      BY <3>1, <3>2 DEF Status
  <2>5. QED
    BY <2>3, <2>4
<1>3. QED
  BY <1>1, <1>2

\* _mark_cancelled commits cancel, or nothing.
LEMMA MarkCommitRefines ==
  ASSUME RefineInv, NEW r \in Requests, MarkCommit(r)
  PROVE  CaseUnchanged \/ Case!Cancel
<1>1. CASE row' = row
  BY <1>1 DEF MarkCommit, CaseUnchanged
<1>2. CASE row' # row
  <2>1. Unchanged(r) /\ row' = Moved(snap[r], "cancelled")
    BY <1>2 DEF MarkCommit
  <2>2. snap[r] = row /\ row.status \in { "created", "investigating" }
    BY <2>1, CopyIsCurrent DEF MarkCommit, RefineInv, SnapshotsAdmitWrites, Admits
  <2>3. QED
    BY <2>1, <2>2, AllowedFacts, SameDomain
       DEF MarkCommit, CanMove, Case!Cancel, Case!TransitionTo
<1>3. QED
  BY <1>1, <1>2

\* supplement commits reopen_investigation, or nothing.
LEMMA SupplementCommitRefines ==
  ASSUME RefineInv, NEW r \in Requests, SupplementCommit(r)
  PROVE  CaseUnchanged \/ Case!ReopenForSupplement
<1>1. CASE row' = row
  BY <1>1 DEF SupplementCommit, CaseUnchanged
<1>2. CASE row' # row
  <2>1. Unchanged(r) /\ row' = Moved(snap[r], "investigating")
    BY <1>2 DEF SupplementCommit
  <2>2. snap[r] = row /\ row.status = "waiting_for_input"
    BY <2>1, CopyIsCurrent DEF SupplementCommit, RefineInv, SnapshotsAdmitWrites, Admits
  <2>3. QED
    BY <2>1, <2>2, AllowedFacts, SameDomain
       DEF SupplementCommit, CanMove, Case!ReopenForSupplement, Case!TransitionTo
<1>3. QED
  BY <1>1, <1>2

\* confirm_action commits a human decision with its Confirmation, or nothing.
LEMMA ConfirmCommitRefines ==
  ASSUME RefineInv, NEW r \in Requests, ConfirmCommit(r)
  PROVE  CaseUnchanged \/ \E d \in Decisions : Case!Decide(r, d)
<1>1. CASE ~Unchanged(r)
  BY <1>1 DEF ConfirmCommit, CaseUnchanged
<1>2. CASE Unchanged(r)
  <2>1. snap[r] = row /\ row.status = "waiting_for_confirmation"
    BY <1>2, CopyIsCurrent DEF ConfirmCommit, RefineInv, SnapshotsAdmitWrites, Admits
  <2>2. req[r].op \in Decisions
    BY DEF ConfirmCommit, RefineInv, TypeInv, CallsMatch, CallMatches
  <2>3. Case!Decide(r, req[r].op)
    BY <1>2, <2>1, SameDomain DEF ConfirmCommit, Case!Decide
  <2>4. QED
    BY <2>2, <2>3
<1>3. QED
  BY <1>1, <1>2

-----------------------------------------------------------------------------
(* Theorems *)

\* The service starts where the aggregate starts.
LEMMA RefineInit == Init => RefineInv /\ Case!CaseInit
<1> SUFFICES ASSUME Init PROVE RefineInv /\ Case!CaseInit
  OBVIOUS
<1>1. TypeInv
  BY TypeInit
<1>2. VersionsIdentifyRows
  BY DEF Init, VersionsIdentifyRows
<1>3. SnapshotsAdmitWrites
  BY DEF Init, SnapshotsAdmitWrites, Admits, InRunner
<1>4. Case!CaseInit
  BY DEF Init, Case!CaseInit
<1>5. QED
  BY <1>1, <1>2, <1>3, <1>4 DEF RefineInv

\* The invariant of the refinement is inductive.
LEMMA RefineInvStep == RefineInv /\ [Next]_vars => RefineInv'
  BY TypeStep, VersionsStep, AdmitsStep DEF RefineInv

\* Every step of the service is a step of the aggregate, or leaves it alone.
LEMMA StepRefines == RefineInv /\ [Next]_vars => [Case!CaseNext]_(Case!caseVars)
<1> SUFFICES ASSUME RefineInv, [Next]_vars
             PROVE  Case!CaseNext \/ CaseUnchanged
  BY DEF CaseUnchanged, Case!caseVars
<1> USE DEF Case!CaseNext
<1>1. ASSUME NEW r \in Requests, StartCommit(r) PROVE Case!CaseNext \/ CaseUnchanged
  BY <1>1, StartCommitRefines
<1>2. ASSUME NEW r \in Requests, ApplyCommit(r) PROVE Case!CaseNext \/ CaseUnchanged
  BY <1>2, ApplyCommitRefines, SameDomain
<1>3. ASSUME NEW r \in Requests, MarkCommit(r) PROVE Case!CaseNext \/ CaseUnchanged
  BY <1>3, MarkCommitRefines
<1>4. ASSUME NEW r \in Requests, SupplementCommit(r) PROVE Case!CaseNext \/ CaseUnchanged
  BY <1>4, SupplementCommitRefines
<1>5. ASSUME NEW r \in Requests, ConfirmCommit(r) PROVE Case!CaseNext \/ CaseUnchanged
  BY <1>5, ConfirmCommitRefines, SameDomain
<1> USE DEF CaseUnchanged, database
<1>6. ASSUME NEW r \in Requests,
             \/ RunStep(r) /\ ~StartCommit(r) /\ ~ApplyCommit(r)
             \/ MarkStep(r) /\ ~MarkCommit(r)
             \/ HumanStep(r) /\ ~SupplementCommit(r) /\ ~ConfirmCommit(r)
             \/ StatementFails(r)
      PROVE  CaseUnchanged
  BY <1>6 DEF RunStep, MarkStep, HumanStep, StartRead, AddAgentRun, Prepare, FinishLoop, FinishCommit, ReturnResult, ApplyRead, Return, CancelInService, CancelInLoop, FinishCancelledCommit, CancelInFinish, CancelInHandler, CancelInMark, MarkRead, SupplementRead, SupplementFind, SupplementEvidence, ConfirmRead, StatementFails
<1>7. ASSUME NEW r \in Requests, NEW p \in Processes, SubmitStep(r, p) \/ Interrupt(p) \/ Crash(p)
      PROVE  CaseUnchanged
  BY <1>7 DEF SubmitStep, SubmitRun, SubmitCancel, SubmitSupplement, SubmitDecision, Interrupt, Crash
<1>8. ASSUME NEW p \in Processes, Interrupt(p) \/ Crash(p) PROVE CaseUnchanged
  BY <1>8 DEF Interrupt, Crash
<1>9. CASE UNCHANGED vars
  BY <1>9 DEF vars
<1>10. QED
  BY <1>1, <1>2, <1>3, <1>4, <1>5, <1>6, <1>7, <1>8, <1>9 DEF Next, Step, RunStep, MarkStep, HumanStep, Quiescent

\* Every variable keeps its type, whatever requests race and whatever fails.
THEOREM TypeCorrect == Spec => []TypeOK
<1>1. Init => TypeInv
  BY TypeInit
<1>2. TypeInv /\ [Next]_vars => TypeInv'
  BY TypeStep
<1>3. TypeInv => TypeOK
  BY DEF TypeInv
<1>4. QED
  BY <1>1, <1>2, <1>3, PTL DEF Spec

\* The invariant of the refinement holds throughout.
LEMMA RefineInvHolds == Spec => []RefineInv
  BY RefineInit, RefineInvStep, PTL DEF Spec

\* Optimistic locking is sound: the version alone tells whether the copy a
\* request works on is stale.
THEOREM VersionsAreUnique == Spec => []VersionsIdentifyRows
<1>1. RefineInv => VersionsIdentifyRows
  BY DEF RefineInv
<1>2. QED
  BY <1>1, RefineInvHolds, PTL

\* The service, with all its races, crashes and failures, implements the
\* aggregate: its commits are the domain methods, one at a time.
THEOREM ServiceImplementsCase == Spec => ImplementsCase
<1>1. Init => Case!CaseInit
  BY RefineInit
<1>2. RefineInv /\ [Next]_vars => [Case!CaseNext]_(Case!caseVars)
  BY StepRefines
<1>3. QED
  BY <1>1, <1>2, RefineInvHolds, PTL DEF Spec, ImplementsCase, Case!CaseSpec

-----------------------------------------------------------------------------
(* Decisions *)

\* No step of the aggregate parts the status from the verdict.
LEMMA FinalDecisionsStep ==
  ASSUME TypeOK, DecisionMatchesStatus, [Case!CaseNext]_(Case!caseVars)
  PROVE  DecisionMatchesStatus'
<1> USE DEF DecisionMatchesStatus, FinalDecisions
<1>1. ASSUME UNCHANGED <<confirmations, candidates>>, row.status \notin Terminal,
             row'.status \notin { "confirmed", "rejected" }
      PROVE  DecisionMatchesStatus'
  BY <1>1 DEF Terminal
<1>2. ASSUME NEW t \in Status, CanMove(row, t)
      PROVE  row.status \notin Terminal
  BY <1>2, AllowedFacts DEF CanMove
<1>3. ASSUME NEW t \in Status \ { "confirmed", "rejected" }, Case!TransitionTo(t)
      PROVE  DecisionMatchesStatus'
  BY <1>1, <1>2, <1>3, SameDomain, MovedFields DEF Case!TransitionTo
<1>4. ASSUME NEW c \in Requests, NEW t \in Status, Case!RecordInitialConclusion(c, t)
      PROVE  DecisionMatchesStatus'
  BY <1>1, <1>2, <1>4, SameDomain, ConcludedFields DEF Case!RecordInitialConclusion
<1>5. ASSUME NEW r \in Requests, NEW d \in Decisions, Case!Decide(r, d)
      PROVE  DecisionMatchesStatus'
  <2>1. FinalDecisions = {} /\ candidates = {}
    BY <1>5 DEF Case!Decide, TypeOK, Decisions
  <2>2. row'.status = DecidedStatus(d)
    BY <1>5, SameDomain, MovedFields DEF Case!Decide
  <2>3. CASE d = "continue_investigation"
    BY <1>5, <2>1, <2>2, <2>3, DecidedFacts DEF Case!Decide
  <2>4. CASE d # "continue_investigation"
    <3>1. FinalDecisions' = { [by |-> r, action |-> d] }
      BY <1>5, <2>1, <2>4 DEF Case!Decide
    <3>2. candidates' = IF d = "reject" THEN {r} ELSE {}
      BY <1>5, <2>1 DEF Case!Decide
    <3>3. d \in { "confirm", "reject" }
      BY <2>4 DEF Decisions
    <3> HIDE DEF FinalDecisions
    <3>4. CASE d = "confirm"
      BY <2>2, <3>1, <3>2, <3>4, DecidedFacts
    <3>5. CASE d = "reject"
      <4>1. { x \in FinalDecisions' : x.action = "reject" } = FinalDecisions'
        BY <3>1, <3>5
      <4>2. { c.by : c \in FinalDecisions' } = {r}
        BY <3>1
      <4>3. candidates' = { c.by : c \in { x \in FinalDecisions' : x.action = "reject" } }
        BY <3>2, <3>5, <4>1, <4>2
      <4>4. QED
        BY <2>2, <3>1, <3>5, <4>3, DecidedFacts
    <3>6. QED
      BY <3>3, <3>4, <3>5
  <2>5. QED
    BY <2>3, <2>4
<1>6. CASE UNCHANGED Case!caseVars
  BY <1>6 DEF Case!caseVars
<1>7. QED
  BY <1>3, <1>4, <1>5, <1>6, SameDomain, StatusNames
     DEF Case!CaseNext, Case!StartInvestigation, Case!MarkInconclusive, Case!Cancel,
         Case!ReopenForSupplement

\* A verdict and the status of the case always agree, and there is at most
\* one: two reviewers who race never leave two.
THEOREM OneVerdict == Spec => []DecisionMatchesStatus
<1>1. Init => DecisionMatchesStatus
  BY DEF Init, DecisionMatchesStatus, FinalDecisions
<1>2. RefineInv /\ DecisionMatchesStatus /\ [Next]_vars => DecisionMatchesStatus'
  BY StepRefines, FinalDecisionsStep DEF RefineInv, TypeInv
<1>3. QED
  BY <1>1, <1>2, RefineInvHolds, PTL DEF Spec

-----------------------------------------------------------------------------
(* Registry *)

\* RegistryExact, for one request and one process.
Registered(r, p) ==
  active[p] = r <=>
    /\ IsRun(r)
    /\ req[r].host = p
    /\ pc[r] \in InRunner \union InService \union InMark

\* Every step keeps the registry exact.
LEMMA RegistryStep == TypeInv /\ RegistryExact /\ [Next]_vars => RegistryExact'
<1> SUFFICES ASSUME TypeInv, RegistryExact, [Next]_vars,
                    NEW q \in Requests, NEW k \in Processes
             PROVE  Registered(q, k)'
  BY DEF RegistryExact, Registered, IsRun
<1>0. /\ TypeOK
      /\ \A r \in Requests, p \in Processes : Registered(r, p)
      /\ \A r \in Requests : CallMatches(r)
      /\ \A r \in Requests : pending[r] => IsRun(r)
  BY DEF TypeInv, RegistryExact, Registered, IsRun, CallsMatch, OnlyRuns
<1> USE <1>0, NoRequestAssumption DEF TypeOK, Registered, CallMatches, IsRun, vars, database, memory
<1>1. ASSUME NEW r \in Requests, StartRead(r) PROVE Registered(q, k)'
  BY <1>1 DEF StartRead, Goto, End, ReadRow, InFlight, InRunner, InService, InMark, Orphaned, InHuman
<1>2. ASSUME NEW r \in Requests, StartCommit(r) PROVE Registered(q, k)'
  BY <1>2 DEF StartCommit, Goto, End, Unchanged, InFlight, InRunner, InService, InMark, Orphaned, InHuman
<1>3. ASSUME NEW r \in Requests, AddAgentRun(r) PROVE Registered(q, k)'
  BY <1>3 DEF AddAgentRun, Goto, InFlight, InRunner, InService, InMark, Orphaned, InHuman
<1>4. ASSUME NEW r \in Requests, Prepare(r) PROVE Registered(q, k)'
  BY <1>4 DEF Prepare, Goto, InFlight, InRunner, InService, InMark, Orphaned, InHuman
<1>5. ASSUME NEW r \in Requests, FinishLoop(r) PROVE Registered(q, k)'
  BY <1>5 DEF FinishLoop, Goto, InFlight, InRunner, InService, InMark, Orphaned, InHuman
<1>6. ASSUME NEW r \in Requests, FinishCommit(r) PROVE Registered(q, k)'
  BY <1>6 DEF FinishCommit, Goto, InFlight, InRunner, InService, InMark, Orphaned, InHuman
<1>7. ASSUME NEW r \in Requests, ReturnResult(r) PROVE Registered(q, k)'
  BY <1>7 DEF ReturnResult, Goto, InFlight, InRunner, InService, InMark, Orphaned, InHuman
<1>8. ASSUME NEW r \in Requests, ApplyRead(r) PROVE Registered(q, k)'
  BY <1>8 DEF ApplyRead, Goto, End, ReadRow, InFlight, InRunner, InService, InMark, Orphaned, InHuman
<1>9. ASSUME NEW r \in Requests, ApplyCommit(r) PROVE Registered(q, k)'
  BY <1>9 DEF ApplyCommit, Goto, End, Unchanged, InFlight, InRunner, InService, InMark, Orphaned, InHuman
<1>10. ASSUME NEW r \in Requests, Return(r) PROVE Registered(q, k)'
  BY <1>10 DEF Return, Goto, End, InFlight, InRunner, InService, InMark, Orphaned, InHuman
<1>11. ASSUME NEW r \in Requests, CancelInService(r) PROVE Registered(q, k)'
  BY <1>11 DEF CancelInService, Goto, Raise, InFlight, InRunner, InService, InMark, Orphaned, InHuman
<1>12. ASSUME NEW r \in Requests, CancelInLoop(r) PROVE Registered(q, k)'
  BY <1>12 DEF CancelInLoop, Goto, Raise, InFlight, InRunner, InService, InMark, Orphaned, InHuman
<1>13. ASSUME NEW r \in Requests, FinishCancelledCommit(r) PROVE Registered(q, k)'
  BY <1>13 DEF FinishCancelledCommit, Goto, InFlight, InRunner, InService, InMark, Orphaned, InHuman
<1>14. ASSUME NEW r \in Requests, CancelInFinish(r) PROVE Registered(q, k)'
  BY <1>14 DEF CancelInFinish, Goto, End, Raise, InFlight, InRunner, InService, InMark, Orphaned, InHuman
<1>15. ASSUME NEW r \in Requests, CancelInHandler(r) PROVE Registered(q, k)'
  BY <1>15 DEF CancelInHandler, Goto, Raise, InFlight, InRunner, InService, InMark, Orphaned, InHuman
<1>16. ASSUME NEW r \in Requests, CancelInMark(r) PROVE Registered(q, k)'
  BY <1>16 DEF CancelInMark, Goto, Raise, InFlight, InRunner, InService, InMark, Orphaned, InHuman
<1>17. ASSUME NEW r \in Requests, MarkRead(r) PROVE Registered(q, k)'
  BY <1>17 DEF MarkRead, Goto, End, EndMark, ReadRow, InFlight, InRunner, InService, InMark, Orphaned, InHuman
<1>18. ASSUME NEW r \in Requests, MarkCommit(r) PROVE Registered(q, k)'
  BY <1>18 DEF MarkCommit, Goto, End, EndMark, Unchanged, InFlight, InRunner, InService, InMark, Orphaned, InHuman
<1>19. ASSUME NEW r \in Requests, SupplementRead(r) PROVE Registered(q, k)'
  BY <1>19 DEF SupplementRead, Goto, End, ReadRow, InFlight, InRunner, InService, InMark, Orphaned, InHuman
<1>20. ASSUME NEW r \in Requests, SupplementFind(r) PROVE Registered(q, k)'
  BY <1>20 DEF SupplementFind, Goto, InFlight, InRunner, InService, InMark, Orphaned, InHuman
<1>21. ASSUME NEW r \in Requests, SupplementEvidence(r) PROVE Registered(q, k)'
  BY <1>21 DEF SupplementEvidence, Goto, End, InFlight, InRunner, InService, InMark, Orphaned, InHuman
<1>22. ASSUME NEW r \in Requests, SupplementCommit(r) PROVE Registered(q, k)'
  BY <1>22 DEF SupplementCommit, Goto, End, Unchanged, InFlight, InRunner, InService, InMark, Orphaned, InHuman
<1>23. ASSUME NEW r \in Requests, ConfirmRead(r) PROVE Registered(q, k)'
  BY <1>23 DEF ConfirmRead, Goto, End, ReadRow, InFlight, InRunner, InService, InMark, Orphaned, InHuman, Decisions
<1>24. ASSUME NEW r \in Requests, ConfirmCommit(r) PROVE Registered(q, k)'
  BY <1>24 DEF ConfirmCommit, Goto, End, Unchanged, InFlight, InRunner, InService, InMark, Orphaned, InHuman, Decisions
<1>25. ASSUME NEW r \in Requests, StatementFails(r) PROVE Registered(q, k)'
  <2>1. CASE pc[r] \in Orphaned
    BY <1>25, <2>1 DEF StatementFails, Goto, EndMark, Orphaned, InRunner, InService, InMark
  <2>2. CASE pc[r] \in InHuman
    BY <1>25, <2>2 DEF StatementFails, Goto, End, EndMark, Decisions, InFlight, InRunner, InService, InMark, Orphaned, InHuman
  <2>3. CASE pc[r] \in InRunner \union InService \union InMark
    <3>1. End(r, "error") \/ End(r, "cancelled")
      BY <1>25, <2>3 DEF StatementFails, EndMark, Orphaned, InRunner, InService, InMark
    <3>2. QED
      BY <1>25, <2>3, <3>1 DEF StatementFails, Goto, End, InFlight, InRunner, InService, InMark, Orphaned, InHuman
  <2>4. QED
    BY <1>25, <2>1, <2>2, <2>3 DEF StatementFails, InFlight
<1>26. ASSUME NEW r \in Requests, NEW p \in Processes, SubmitRun(r, p) PROVE Registered(q, k)'
  BY <1>26, CallFacts, OpFacts DEF SubmitRun, Goto, Submit, InFlight, InRunner, InService, InMark, Orphaned, InHuman
<1>27. ASSUME NEW r \in Requests, NEW p \in Processes, SubmitCancel(r, p) PROVE Registered(q, k)'
  BY <1>27, CallFacts, OpFacts DEF SubmitCancel, Goto, Submit, InFlight, InRunner, InService, InMark, Orphaned, InHuman
<1>28. ASSUME NEW r \in Requests, NEW p \in Processes, SubmitSupplement(r, p) PROVE Registered(q, k)'
  BY <1>28, CallFacts, OpFacts DEF SubmitSupplement, Goto, Submit, InFlight, InRunner, InService, InMark, Orphaned, InHuman
<1>29. ASSUME NEW r \in Requests, NEW p \in Processes, SubmitDecision(r, p) PROVE Registered(q, k)'
  BY <1>29, CallFacts, OpFacts DEF SubmitDecision, Goto, Submit, InFlight, InRunner, InService, InMark, Orphaned, InHuman
<1>30. ASSUME NEW p \in Processes, Interrupt(p) PROVE Registered(q, k)'
  BY <1>30 DEF Interrupt, InFlight, InRunner, InService, InMark, Orphaned, InHuman
<1>31. ASSUME NEW p \in Processes, Crash(p) PROVE Registered(q, k)'
  BY <1>31 DEF Crash, InFlight, InRunner, InService, InMark, Orphaned, InHuman
<1>32. CASE UNCHANGED vars
  BY <1>32
<1>33. QED
  BY <1>1, <1>2, <1>3, <1>4, <1>5, <1>6, <1>7, <1>8, <1>9, <1>10, <1>11, <1>12, <1>13, <1>14, <1>15, <1>16, <1>17, <1>18, <1>19, <1>20, <1>21, <1>22, <1>23, <1>24, <1>25, <1>26, <1>27, <1>28, <1>29, <1>30, <1>31, <1>32 DEF Next, Step, RunStep, MarkStep, HumanStep, SubmitStep, Quiescent

-----------------------------------------------------------------------------
(* Answers *)

\* What the aggregate allows one step to do to a case.
LEMMA CaseStepFacts ==
  ASSUME TypeOK, [Case!CaseNext]_(Case!caseVars)
  PROVE  /\ row.version <= row'.version
         /\ row.status = "cancelled" => row'.status = "cancelled"
         /\ (row.status \in Reviewable => row.conclusion # NoRequest) =>
              (row'.status \in Reviewable => row'.conclusion # NoRequest)
<1> DEFINE Goal == /\ row.version <= row'.version
                   /\ row.status = "cancelled" => row'.status = "cancelled"
                   /\ (row.status \in Reviewable => row.conclusion # NoRequest) =>
                        (row'.status \in Reviewable => row'.conclusion # NoRequest)
<1>0. row.version \in Nat /\ row.version <= row.version + 1
  BY DEF TypeOK, Rows
<1>1. ASSUME NEW t \in { "investigating", "inconclusive", "cancelled" }, Case!TransitionTo(t)
      PROVE  Goal
  BY <1>0, <1>1, AllowedFacts, SameDomain, MovedFields DEF Case!TransitionTo, CanMove, Reviewable, Terminal
<1>2. ASSUME NEW c \in Requests, NEW t \in Status, Case!RecordInitialConclusion(c, t)
      PROVE  Goal
  BY <1>0, <1>2, AllowedFacts, SameDomain, ConcludedFields, NoRequestAssumption
     DEF Case!RecordInitialConclusion, CanMove, Terminal
<1>3. ASSUME NEW r \in Requests, NEW d \in Decisions, Case!Decide(r, d)
      PROVE  Goal
  BY <1>0, <1>3, SameDomain, MovedFields DEF Case!Decide, Reviewable
<1>4. CASE UNCHANGED Case!caseVars
  BY <1>0, <1>4 DEF Case!caseVars
<1>5. Goal
  BY <1>1, <1>2, <1>3, <1>4, SameDomain
     DEF Case!CaseNext, Case!StartInvestigation, Case!MarkInconclusive, Case!Cancel,
         Case!ReopenForSupplement
<1>6. QED
  BY <1>5

\* A run whose conclusion is shown to somebody is stored as completed.
LEMMA RunFacts ==
  \A res : ResultStatus(res) # "inconclusive" => RunStatus(res) = "completed"
  BY DEF ResultStatus, RunStatus

\* A run reaches _apply_result only with its AgentRun row stored, and only
\* then can the case carry its conclusion.
RunRecorded(r) ==
  /\ pc[r] \in { "finish_done", "apply_read", "apply_commit", "apply_done" } =>
       agentRun[r] = RunStatus(result[r])
  /\ row.conclusion = r =>
       /\ agentRun[r] = "completed"
       /\ pc[r] \in InMark \union Orphaned \union { "apply_done", "done" }

\* The invariant behind ReviewedConclusionIsRecorded.
RecordInv ==
  /\ \A r \in Requests : RunRecorded(r)
  /\ row.status \in Reviewable => row.conclusion # NoRequest

\* Every step keeps the runs recorded.
LEMMA RunRecordedStep ==
  ASSUME RefineInv, RecordInv, [Next]_vars, NEW q \in Requests
  PROVE  RunRecorded(q)'
<1>0. RunRecorded(q) /\ TypeOK
  BY DEF RefineInv, TypeInv, RecordInv
<1> USE <1>0 DEF TypeOK, RunRecorded, vars, database, memory
<1>1. ASSUME NEW r \in Requests, StartRead(r) PROVE RunRecorded(q)'
  BY <1>1 DEF StartRead, Goto, End, ReadRow, InFlight, InRunner, InService, InMark, Orphaned, InHuman
<1>2. ASSUME NEW r \in Requests, StartCommit(r) PROVE RunRecorded(q)'
  <2>1. row'.conclusion = row.conclusion
    BY <1>2, CopyIsCurrent, MovedFields DEF StartCommit
  <2>2. QED
    BY <1>2, <2>1 DEF StartCommit, Goto, End, Unchanged, InFlight, InRunner, InService, InMark, Orphaned, InHuman
<1>3. ASSUME NEW r \in Requests, AddAgentRun(r) PROVE RunRecorded(q)'
  BY <1>3 DEF AddAgentRun, Goto, InFlight, InRunner, InService, InMark, Orphaned, InHuman
<1>4. ASSUME NEW r \in Requests, Prepare(r) PROVE RunRecorded(q)'
  BY <1>4 DEF Prepare, Goto, InFlight, InRunner, InService, InMark, Orphaned, InHuman
<1>5. ASSUME NEW r \in Requests, FinishLoop(r) PROVE RunRecorded(q)'
  BY <1>5 DEF FinishLoop, Goto, InFlight, InRunner, InService, InMark, Orphaned, InHuman
<1>6. ASSUME NEW r \in Requests, FinishCommit(r) PROVE RunRecorded(q)'
  BY <1>6 DEF FinishCommit, Goto, InFlight, InRunner, InService, InMark, Orphaned, InHuman
<1>7. ASSUME NEW r \in Requests, ReturnResult(r) PROVE RunRecorded(q)'
  BY <1>7 DEF ReturnResult, Goto, InFlight, InRunner, InService, InMark, Orphaned, InHuman
<1>8. ASSUME NEW r \in Requests, ApplyRead(r) PROVE RunRecorded(q)'
  BY <1>8 DEF ApplyRead, Goto, End, ReadRow, InFlight, InRunner, InService, InMark, Orphaned, InHuman
<1>9. ASSUME NEW r \in Requests, ApplyCommit(r) PROVE RunRecorded(q)'
  <2>1. row' = row \/ (row.conclusion = snap[r].conclusion /\ row'.conclusion \in {r, snap[r].conclusion} /\ (row'.conclusion = r /\ row.conclusion # r => ResultStatus(result[r]) # "inconclusive"))
    BY <1>9, CopyIsCurrent, AppliedFields, MovedFields DEF ApplyCommit, Applied
  <2>2. QED
    BY <1>9, <2>1, RunFacts DEF ApplyCommit, Goto, End, Unchanged, InFlight, InRunner, InService, InMark, Orphaned, InHuman
<1>10. ASSUME NEW r \in Requests, Return(r) PROVE RunRecorded(q)'
  BY <1>10 DEF Return, Goto, End, InFlight, InRunner, InService, InMark, Orphaned, InHuman
<1>11. ASSUME NEW r \in Requests, CancelInService(r) PROVE RunRecorded(q)'
  BY <1>11 DEF CancelInService, Goto, Raise, InFlight, InRunner, InService, InMark, Orphaned, InHuman
<1>12. ASSUME NEW r \in Requests, CancelInLoop(r) PROVE RunRecorded(q)'
  BY <1>12 DEF CancelInLoop, Goto, Raise, InFlight, InRunner, InService, InMark, Orphaned, InHuman
<1>13. ASSUME NEW r \in Requests, FinishCancelledCommit(r) PROVE RunRecorded(q)'
  BY <1>13 DEF FinishCancelledCommit, Goto, InFlight, InRunner, InService, InMark, Orphaned, InHuman
<1>14. ASSUME NEW r \in Requests, CancelInFinish(r) PROVE RunRecorded(q)'
  BY <1>14 DEF CancelInFinish, Goto, End, Raise, InFlight, InRunner, InService, InMark, Orphaned, InHuman
<1>15. ASSUME NEW r \in Requests, CancelInHandler(r) PROVE RunRecorded(q)'
  BY <1>15 DEF CancelInHandler, Goto, Raise, InFlight, InRunner, InService, InMark, Orphaned, InHuman
<1>16. ASSUME NEW r \in Requests, CancelInMark(r) PROVE RunRecorded(q)'
  BY <1>16 DEF CancelInMark, Goto, Raise, InFlight, InRunner, InService, InMark, Orphaned, InHuman
<1>17. ASSUME NEW r \in Requests, MarkRead(r) PROVE RunRecorded(q)'
  BY <1>17 DEF MarkRead, Goto, End, EndMark, ReadRow, InFlight, InRunner, InService, InMark, Orphaned, InHuman
<1>18. ASSUME NEW r \in Requests, MarkCommit(r) PROVE RunRecorded(q)'
  <2>1. row'.conclusion = row.conclusion
    BY <1>18, CopyIsCurrent, MovedFields DEF MarkCommit
  <2>2. QED
    BY <1>18, <2>1 DEF MarkCommit, Goto, End, EndMark, Unchanged, InFlight, InRunner, InService, InMark, Orphaned, InHuman
<1>19. ASSUME NEW r \in Requests, SupplementRead(r) PROVE RunRecorded(q)'
  BY <1>19 DEF SupplementRead, Goto, End, ReadRow, InFlight, InRunner, InService, InMark, Orphaned, InHuman
<1>20. ASSUME NEW r \in Requests, SupplementFind(r) PROVE RunRecorded(q)'
  BY <1>20 DEF SupplementFind, Goto, InFlight, InRunner, InService, InMark, Orphaned, InHuman
<1>21. ASSUME NEW r \in Requests, SupplementEvidence(r) PROVE RunRecorded(q)'
  BY <1>21 DEF SupplementEvidence, Goto, End, InFlight, InRunner, InService, InMark, Orphaned, InHuman
<1>22. ASSUME NEW r \in Requests, SupplementCommit(r) PROVE RunRecorded(q)'
  <2>1. row'.conclusion = row.conclusion
    BY <1>22, CopyIsCurrent, MovedFields DEF SupplementCommit
  <2>2. QED
    BY <1>22, <2>1 DEF SupplementCommit, Goto, End, Unchanged, InFlight, InRunner, InService, InMark, Orphaned, InHuman
<1>23. ASSUME NEW r \in Requests, ConfirmRead(r) PROVE RunRecorded(q)'
  BY <1>23 DEF ConfirmRead, Goto, End, ReadRow, InFlight, InRunner, InService, InMark, Orphaned, InHuman
<1>24. ASSUME NEW r \in Requests, ConfirmCommit(r) PROVE RunRecorded(q)'
  <2>1. row'.conclusion = row.conclusion
    BY <1>24, CopyIsCurrent, MovedFields DEF ConfirmCommit
  <2>2. QED
    BY <1>24, <2>1 DEF ConfirmCommit, Goto, End, Unchanged, InFlight, InRunner, InService, InMark, Orphaned, InHuman
<1>25. ASSUME NEW r \in Requests, StatementFails(r) PROVE RunRecorded(q)'
  BY <1>25 DEF StatementFails, Goto, End, EndMark, InFlight, InRunner, InService, InMark, Orphaned, InHuman
<1>26. ASSUME NEW r \in Requests, NEW p \in Processes, SubmitRun(r, p) PROVE RunRecorded(q)'
  BY <1>26 DEF SubmitRun, Goto, Submit, InFlight, InRunner, InService, InMark, Orphaned, InHuman
<1>27. ASSUME NEW r \in Requests, NEW p \in Processes, SubmitCancel(r, p) PROVE RunRecorded(q)'
  BY <1>27 DEF SubmitCancel, Goto, Submit, InFlight, InRunner, InService, InMark, Orphaned, InHuman
<1>28. ASSUME NEW r \in Requests, NEW p \in Processes, SubmitSupplement(r, p) PROVE RunRecorded(q)'
  BY <1>28 DEF SubmitSupplement, Goto, Submit, InFlight, InRunner, InService, InMark, Orphaned, InHuman
<1>29. ASSUME NEW r \in Requests, NEW p \in Processes, SubmitDecision(r, p) PROVE RunRecorded(q)'
  BY <1>29 DEF SubmitDecision, Goto, Submit, InFlight, InRunner, InService, InMark, Orphaned, InHuman
<1>30. ASSUME NEW p \in Processes, Interrupt(p) PROVE RunRecorded(q)'
  BY <1>30 DEF Interrupt, InFlight, InRunner, InService, InMark, Orphaned, InHuman
<1>31. ASSUME NEW p \in Processes, Crash(p) PROVE RunRecorded(q)'
  BY <1>31 DEF Crash, InFlight, InRunner, InService, InMark, Orphaned, InHuman
<1>32. CASE UNCHANGED vars
  BY <1>32
<1>33. QED
  BY <1>1, <1>2, <1>3, <1>4, <1>5, <1>6, <1>7, <1>8, <1>9, <1>10, <1>11, <1>12, <1>13, <1>14, <1>15, <1>16, <1>17, <1>18, <1>19, <1>20, <1>21, <1>22, <1>23, <1>24, <1>25, <1>26, <1>27, <1>28, <1>29, <1>30, <1>31, <1>32 DEF Next, Step, RunStep, MarkStep, HumanStep, SubmitStep, Quiescent

\* The invariant of recorded runs is inductive.
LEMMA RecordStep == RefineInv /\ RecordInv /\ [Next]_vars => RecordInv'
  BY RunRecordedStep, StepRefines, CaseStepFacts DEF RecordInv, RefineInv, TypeInv

\* The invariant of recorded runs holds throughout.
LEMMA RecordInvHolds == Spec => []RecordInv
<1>1. Init => RecordInv
  BY NoRequestAssumption DEF Init, RecordInv, RunRecorded, Reviewable
<1>2. QED
  BY <1>1, RecordStep, RefineInvHolds, PTL DEF Spec

\* Nobody is asked about a conclusion whose run is not stored as completed.
THEOREM ReviewedConclusions == Spec => []ReviewedConclusionIsRecorded
<1>1. RefineInv /\ RecordInv => ReviewedConclusionIsRecorded
  BY DEF RefineInv, TypeInv, TypeOK, Rows, RecordInv, RunRecorded, ReviewedConclusionIsRecorded
<1>2. QED
  BY <1>1, RefineInvHolds, RecordInvHolds, PTL

\* _active_tasks holds exactly the runs that are under way.
THEOREM RegistryIsExact == Spec => []RegistryExact
<1>1. Init => RegistryExact
  BY NoRequestAssumption DEF Init, RegistryExact, InRunner, InService, InMark
<1>2. TypeInv /\ RegistryExact /\ [Next]_vars => RegistryExact'
  BY RegistryStep
<1>3. RefineInv => TypeInv
  BY DEF RefineInv
<1>4. QED
  BY <1>1, <1>2, <1>3, RefineInvHolds, PTL DEF Spec

-----------------------------------------------------------------------------
(* What the answers of the service mean: a cancel answered with success     *)
(* stays true, and a run that answers normally has been applied.            *)

\* What holds of a request once it has answered, and of a run that is about to.
Answered(r) ==
  /\ pc[r] \notin Orphaned \union {"done"} => outcome[r] = "none"
  /\ pc[r] \in Orphaned => outcome[r] = "cancelled"
  /\ pc[r] = "apply_done" => snap[r].version < row.version
  /\ IsRun(r) /\ outcome[r] = "ok" =>
       /\ agentRun[r] \in { "completed", "failed" }
       /\ snap[r].version < row.version
  /\ req[r] # NoCall /\ req[r].op = "cancel" /\ outcome[r] = "ok" =>
       row.status = "cancelled"

\* The invariant behind the meaning of the answers.
AnswerInv == \A r \in Requests : Answered(r)

\* A smaller version that is not the same is older.
LEMMA StrictlyBelow == \A m, n \in Nat : m # n /\ m <= n => m < n
  OBVIOUS

\* Every step keeps what the answers mean.
LEMMA AnsweredStep ==
  ASSUME RefineInv, RecordInv, AnswerInv, [Next]_vars, NEW q \in Requests
  PROVE  Answered(q)'
<1>0. /\ TypeOK
      /\ \A r \in Requests : CallMatches(r)
      /\ \A r \in Requests : Answered(r)
      /\ \A r \in Requests : Admits(r)
      /\ \A r \in Requests : RunRecorded(r)
      /\ VersionsIdentifyRows
      /\ \A r \in Requests : pending[r] => IsRun(r)
  BY DEF RefineInv, TypeInv, RecordInv, AnswerInv, CallsMatch, OnlyRuns, SnapshotsAdmitWrites
<1>a. row.version \in Nat /\ row.version <= row'.version /\ (row.status = "cancelled" => row'.status = "cancelled")
  BY <1>0, StepRefines, CaseStepFacts DEF TypeOK, Rows
<1>b. row'.version \in Nat /\ \A r \in Requests : snap[r].version \in Nat
  BY <1>0, TypeStep DEF RefineInv, TypeInv, TypeOK, Rows
<1> USE <1>0, <1>a, <1>b DEF TypeOK, Answered, CallMatches, IsRun, vars, database, memory
<1>1. ASSUME NEW r \in Requests, StartRead(r) PROVE Answered(q)'
  BY <1>1 DEF StartRead, Goto, End, ReadRow, InFlight, InRunner, InService, InMark, Orphaned, InHuman
<1>2. ASSUME NEW r \in Requests, StartCommit(r) PROVE Answered(q)'
  BY <1>2 DEF StartCommit, Goto, End, Unchanged, InFlight, InRunner, InService, InMark, Orphaned, InHuman
<1>3. ASSUME NEW r \in Requests, AddAgentRun(r) PROVE Answered(q)'
  BY <1>3 DEF AddAgentRun, Goto, InFlight, InRunner, InService, InMark, Orphaned, InHuman
<1>4. ASSUME NEW r \in Requests, Prepare(r) PROVE Answered(q)'
  BY <1>4 DEF Prepare, Goto, InFlight, InRunner, InService, InMark, Orphaned, InHuman
<1>5. ASSUME NEW r \in Requests, FinishLoop(r) PROVE Answered(q)'
  BY <1>5 DEF FinishLoop, Goto, InFlight, InRunner, InService, InMark, Orphaned, InHuman
<1>6. ASSUME NEW r \in Requests, FinishCommit(r) PROVE Answered(q)'
  BY <1>6 DEF FinishCommit, Goto, InFlight, InRunner, InService, InMark, Orphaned, InHuman
<1>7. ASSUME NEW r \in Requests, ReturnResult(r) PROVE Answered(q)'
  BY <1>7 DEF ReturnResult, Goto, InFlight, InRunner, InService, InMark, Orphaned, InHuman
<1>8. ASSUME NEW r \in Requests, ApplyRead(r) PROVE Answered(q)'
  <2>1. ASSUME row.status = "cancelled", pc[r] = "apply_read"
        PROVE  snap[r].version < row.version
    <3>1. snap[r].status # row.status
      BY <2>1 DEF Admits
    <3>2. snap[r].version # row.version /\ snap[r].version <= row.version
      BY <3>1 DEF VersionsIdentifyRows
    <3>3. snap[r].version \in Nat /\ row.version \in Nat
      BY <1>b, <1>0 DEF Rows
    <3>4. QED
      BY <3>2, <3>3, StrictlyBelow
  <2>2. pc[r] = "apply_read" => agentRun[r] \in { "completed", "failed" }
    BY StatusFacts DEF RunRecorded
  <2>3. QED
    BY <1>8, <2>1, <2>2 DEF ApplyRead, Goto, End, ReadRow, InFlight, InRunner, InService, InMark, Orphaned, InHuman
<1>9. ASSUME NEW r \in Requests, ApplyCommit(r) PROVE Answered(q)'
  <2>1. row' = row \/ row'.version = snap[r].version + 1
    BY <1>9, AppliedFields DEF ApplyCommit
  <2>2. pc'[r] = "apply_done" => snap[r].version < row'.version
    BY <1>9, <2>1, AppliedFields DEF ApplyCommit, Goto, End, InFlight, InRunner, InService, InMark, Orphaned, InHuman
  <2>3. QED
    BY <1>9, <2>2 DEF ApplyCommit, Goto, End, InFlight, InRunner, InService, InMark, Orphaned, InHuman
<1>10. ASSUME NEW r \in Requests, Return(r) PROVE Answered(q)'
  <2>1. pc[r] = "apply_done" => agentRun[r] \in { "completed", "failed" }
    BY StatusFacts DEF RunRecorded
  <2>2. QED
    BY <1>10, <2>1 DEF Return, Goto, End, InFlight, InRunner, InService, InMark, Orphaned, InHuman
<1>11. ASSUME NEW r \in Requests, CancelInService(r) PROVE Answered(q)'
  BY <1>11 DEF CancelInService, Goto, Raise, InFlight, InRunner, InService, InMark, Orphaned, InHuman
<1>12. ASSUME NEW r \in Requests, CancelInLoop(r) PROVE Answered(q)'
  BY <1>12 DEF CancelInLoop, Goto, Raise, InFlight, InRunner, InService, InMark, Orphaned, InHuman
<1>13. ASSUME NEW r \in Requests, FinishCancelledCommit(r) PROVE Answered(q)'
  BY <1>13 DEF FinishCancelledCommit, Goto, InFlight, InRunner, InService, InMark, Orphaned, InHuman
<1>14. ASSUME NEW r \in Requests, CancelInFinish(r) PROVE Answered(q)'
  BY <1>14 DEF CancelInFinish, Goto, End, Raise, InFlight, InRunner, InService, InMark, Orphaned, InHuman
<1>15. ASSUME NEW r \in Requests, CancelInHandler(r) PROVE Answered(q)'
  BY <1>15 DEF CancelInHandler, Goto, Raise, InFlight, InRunner, InService, InMark, Orphaned, InHuman
<1>16. ASSUME NEW r \in Requests, CancelInMark(r) PROVE Answered(q)'
  BY <1>16 DEF CancelInMark, Goto, Raise, InFlight, InRunner, InService, InMark, Orphaned, InHuman
<1>17. ASSUME NEW r \in Requests, MarkRead(r) PROVE Answered(q)'
  BY <1>17 DEF MarkRead, Goto, End, EndMark, ReadRow, InFlight, InRunner, InService, InMark, Orphaned, InHuman
<1>18. ASSUME NEW r \in Requests, MarkCommit(r) PROVE Answered(q)'
  BY <1>18, MovedFields DEF MarkCommit, Goto, End, EndMark, InFlight, InRunner, InService, InMark, Orphaned, InHuman
<1>19. ASSUME NEW r \in Requests, SupplementRead(r) PROVE Answered(q)'
  BY <1>19 DEF SupplementRead, Goto, End, ReadRow, InFlight, InRunner, InService, InMark, Orphaned, InHuman
<1>20. ASSUME NEW r \in Requests, SupplementFind(r) PROVE Answered(q)'
  BY <1>20 DEF SupplementFind, Goto, InFlight, InRunner, InService, InMark, Orphaned, InHuman
<1>21. ASSUME NEW r \in Requests, SupplementEvidence(r) PROVE Answered(q)'
  BY <1>21 DEF SupplementEvidence, Goto, End, InFlight, InRunner, InService, InMark, Orphaned, InHuman
<1>22. ASSUME NEW r \in Requests, SupplementCommit(r) PROVE Answered(q)'
  BY <1>22 DEF SupplementCommit, Goto, End, Unchanged, InFlight, InRunner, InService, InMark, Orphaned, InHuman
<1>23. ASSUME NEW r \in Requests, ConfirmRead(r) PROVE Answered(q)'
  BY <1>23 DEF ConfirmRead, Goto, End, ReadRow, InFlight, InRunner, InService, InMark, Orphaned, InHuman
<1>24. ASSUME NEW r \in Requests, ConfirmCommit(r) PROVE Answered(q)'
  BY <1>24 DEF ConfirmCommit, Goto, End, Decisions, InFlight, InRunner, InService, InMark, Orphaned, InHuman
<1>25. ASSUME NEW r \in Requests, StatementFails(r) PROVE Answered(q)'
  BY <1>25 DEF StatementFails, Goto, End, EndMark, InFlight, InRunner, InService, InMark, Orphaned, InHuman
<1>26. ASSUME NEW r \in Requests, NEW p \in Processes, SubmitRun(r, p) PROVE Answered(q)'
  BY <1>26, CallFacts, OpFacts DEF SubmitRun, Goto, Submit, InFlight, InRunner, InService, InMark, Orphaned, InHuman
<1>27. ASSUME NEW r \in Requests, NEW p \in Processes, SubmitCancel(r, p) PROVE Answered(q)'
  BY <1>27, CallFacts, OpFacts DEF SubmitCancel, Goto, Submit, InFlight, InRunner, InService, InMark, Orphaned, InHuman
<1>28. ASSUME NEW r \in Requests, NEW p \in Processes, SubmitSupplement(r, p) PROVE Answered(q)'
  BY <1>28, CallFacts, OpFacts DEF SubmitSupplement, Goto, Submit, InFlight, InRunner, InService, InMark, Orphaned, InHuman
<1>29. ASSUME NEW r \in Requests, NEW p \in Processes, SubmitDecision(r, p) PROVE Answered(q)'
  BY <1>29, CallFacts, OpFacts DEF SubmitDecision, Goto, Submit, InFlight, InRunner, InService, InMark, Orphaned, InHuman
<1>30. ASSUME NEW p \in Processes, Interrupt(p) PROVE Answered(q)'
  BY <1>30 DEF Interrupt, InFlight, InRunner, InService, InMark, Orphaned, InHuman
<1>31. ASSUME NEW p \in Processes, Crash(p) PROVE Answered(q)'
  BY <1>31 DEF Crash, InFlight, InRunner, InService, InMark, Orphaned, InHuman
<1>32. CASE UNCHANGED vars
  BY <1>32
<1>33. QED
  BY <1>1, <1>2, <1>3, <1>4, <1>5, <1>6, <1>7, <1>8, <1>9, <1>10, <1>11, <1>12, <1>13, <1>14, <1>15, <1>16, <1>17, <1>18, <1>19, <1>20, <1>21, <1>22, <1>23, <1>24, <1>25, <1>26, <1>27, <1>28, <1>29, <1>30, <1>31, <1>32 DEF Next, Step, RunStep, MarkStep, HumanStep, SubmitStep, Quiescent

\* What the answers mean holds throughout.
LEMMA AnswerInvHolds == Spec => []AnswerInv
<1>1. Init => AnswerInv
  BY DEF Init, AnswerInv, Answered, IsRun, Orphaned
<1>2. RefineInv /\ RecordInv /\ AnswerInv /\ [Next]_vars => AnswerInv'
  BY AnsweredStep DEF AnswerInv
<1>3. QED
  BY <1>1, <1>2, RefineInvHolds, RecordInvHolds, PTL DEF Spec

\* No run or decision that was under way undoes an acknowledged cancellation.
THEOREM CancellationIsFinal == Spec => []CancelIsFinal
<1>1. AnswerInv => CancelIsFinal
  BY DEF AnswerInv, Answered, CancelIsFinal
<1>2. QED
  BY <1>1, AnswerInvHolds, PTL

\* run() answers normally only after its result was stored and applied.
THEOREM AnsweredRunsAreApplied == Spec => []AnsweredRunIsApplied
<1>1. AnswerInv => AnsweredRunIsApplied
  BY DEF AnswerInv, Answered, IsRun, AnsweredRunIsApplied
<1>2. QED
  BY <1>1, AnswerInvHolds, PTL

(***************************************************************************)
(*                               ITS REPORTS                               *)
(***************************************************************************)

\* The awaits that follow the commit of the finished AgentRun.
AfterFinish ==
  { "finish_done", "apply_read", "apply_commit", "apply_done", "done" }
    \union InMark \union Orphaned

\* A run stored as completed has passed its _finish.
CompletedIsPast ==
  \A r \in Requests : agentRun[r] = "completed" => pc[r] \in AfterFinish

\* A run stored as completed stays so.
LEMMA CompletedStays ==
  ASSUME TypeOK, CompletedIsPast, [Next]_vars, NEW q \in Requests
  PROVE  /\ agentRun'[q] = "completed" => pc'[q] \in AfterFinish
         /\ agentRun[q] = "completed" => agentRun'[q] = "completed"
<1> DEFINE Goal == /\ agentRun'[q] = "completed" => pc'[q] \in AfterFinish
                   /\ agentRun[q] = "completed" => agentRun'[q] = "completed"
<1>0. agentRun[q] = "completed" => pc[q] \in AfterFinish
  BY DEF CompletedIsPast
<1> USE <1>0 DEF TypeOK, AfterFinish, vars, database, memory
<1>1. ASSUME NEW r \in Requests, StartRead(r) PROVE Goal
  BY <1>1 DEF StartRead, Goto, End, InFlight, InRunner, InService, InMark, Orphaned, InHuman
<1>2. ASSUME NEW r \in Requests, StartCommit(r) PROVE Goal
  BY <1>2 DEF StartCommit, Goto, End, InFlight, InRunner, InService, InMark, Orphaned, InHuman
<1>3. ASSUME NEW r \in Requests, AddAgentRun(r) PROVE Goal
  BY <1>3 DEF AddAgentRun, Goto, InFlight, InRunner, InService, InMark, Orphaned, InHuman
<1>4. ASSUME NEW r \in Requests, Prepare(r) PROVE Goal
  BY <1>4 DEF Prepare, Goto, InFlight, InRunner, InService, InMark, Orphaned, InHuman
<1>5. ASSUME NEW r \in Requests, FinishLoop(r) PROVE Goal
  BY <1>5 DEF FinishLoop, Goto, InFlight, InRunner, InService, InMark, Orphaned, InHuman
<1>6. ASSUME NEW r \in Requests, FinishCommit(r) PROVE Goal
  BY <1>6 DEF FinishCommit, Goto, InFlight, InRunner, InService, InMark, Orphaned, InHuman
<1>7. ASSUME NEW r \in Requests, ReturnResult(r) PROVE Goal
  BY <1>7 DEF ReturnResult, Goto, InFlight, InRunner, InService, InMark, Orphaned, InHuman
<1>8. ASSUME NEW r \in Requests, ApplyRead(r) PROVE Goal
  BY <1>8 DEF ApplyRead, Goto, End, InFlight, InRunner, InService, InMark, Orphaned, InHuman
<1>9. ASSUME NEW r \in Requests, ApplyCommit(r) PROVE Goal
  BY <1>9 DEF ApplyCommit, Goto, End, InFlight, InRunner, InService, InMark, Orphaned, InHuman
<1>10. ASSUME NEW r \in Requests, Return(r) PROVE Goal
  BY <1>10 DEF Return, Goto, End, InFlight, InRunner, InService, InMark, Orphaned, InHuman
<1>11. ASSUME NEW r \in Requests, CancelInService(r) PROVE Goal
  BY <1>11 DEF CancelInService, Goto, InFlight, InRunner, InService, InMark, Orphaned, InHuman
<1>12. ASSUME NEW r \in Requests, CancelInLoop(r) PROVE Goal
  BY <1>12 DEF CancelInLoop, Goto, InFlight, InRunner, InService, InMark, Orphaned, InHuman
<1>13. ASSUME NEW r \in Requests, FinishCancelledCommit(r) PROVE Goal
  BY <1>13 DEF FinishCancelledCommit, Goto, InFlight, InRunner, InService, InMark, Orphaned, InHuman
<1>14. ASSUME NEW r \in Requests, CancelInFinish(r) PROVE Goal
  BY <1>14 DEF CancelInFinish, Goto, End, InFlight, InRunner, InService, InMark, Orphaned, InHuman
<1>15. ASSUME NEW r \in Requests, CancelInHandler(r) PROVE Goal
  BY <1>15 DEF CancelInHandler, Goto, InFlight, InRunner, InService, InMark, Orphaned, InHuman
<1>16. ASSUME NEW r \in Requests, CancelInMark(r) PROVE Goal
  BY <1>16 DEF CancelInMark, Goto, InFlight, InRunner, InService, InMark, Orphaned, InHuman
<1>17. ASSUME NEW r \in Requests, MarkRead(r) PROVE Goal
  BY <1>17 DEF MarkRead, Goto, End, EndMark, InFlight, InRunner, InService, InMark, Orphaned, InHuman
<1>18. ASSUME NEW r \in Requests, MarkCommit(r) PROVE Goal
  BY <1>18 DEF MarkCommit, Goto, End, EndMark, InFlight, InRunner, InService, InMark, Orphaned, InHuman
<1>19. ASSUME NEW r \in Requests, SupplementRead(r) PROVE Goal
  BY <1>19 DEF SupplementRead, Goto, End, InFlight, InRunner, InService, InMark, Orphaned, InHuman
<1>20. ASSUME NEW r \in Requests, SupplementFind(r) PROVE Goal
  BY <1>20 DEF SupplementFind, Goto, InFlight, InRunner, InService, InMark, Orphaned, InHuman
<1>21. ASSUME NEW r \in Requests, SupplementEvidence(r) PROVE Goal
  BY <1>21 DEF SupplementEvidence, Goto, End, InFlight, InRunner, InService, InMark, Orphaned, InHuman
<1>22. ASSUME NEW r \in Requests, SupplementCommit(r) PROVE Goal
  BY <1>22 DEF SupplementCommit, Goto, End, InFlight, InRunner, InService, InMark, Orphaned, InHuman
<1>23. ASSUME NEW r \in Requests, ConfirmRead(r) PROVE Goal
  BY <1>23 DEF ConfirmRead, Goto, End, InFlight, InRunner, InService, InMark, Orphaned, InHuman
<1>24. ASSUME NEW r \in Requests, ConfirmCommit(r) PROVE Goal
  BY <1>24 DEF ConfirmCommit, Goto, End, InFlight, InRunner, InService, InMark, Orphaned, InHuman
<1>25. ASSUME NEW r \in Requests, StatementFails(r) PROVE Goal
  BY <1>25 DEF StatementFails, Goto, End, EndMark, InFlight, InRunner, InService, InMark, Orphaned, InHuman
<1>26. ASSUME NEW r \in Requests, NEW p \in Processes, SubmitRun(r, p) PROVE Goal
  BY <1>26 DEF SubmitRun, Goto, Submit, InMark, Orphaned
<1>27. ASSUME NEW r \in Requests, NEW p \in Processes, SubmitCancel(r, p) PROVE Goal
  BY <1>27 DEF SubmitCancel, Goto, Submit, InMark, Orphaned
<1>28. ASSUME NEW r \in Requests, NEW p \in Processes, SubmitSupplement(r, p) PROVE Goal
  BY <1>28 DEF SubmitSupplement, Goto, Submit, InMark, Orphaned
<1>29. ASSUME NEW r \in Requests, NEW p \in Processes, SubmitDecision(r, p) PROVE Goal
  BY <1>29 DEF SubmitDecision, Goto, Submit, InMark, Orphaned
<1>30. ASSUME NEW p \in Processes, Interrupt(p) PROVE Goal
  BY <1>30 DEF Interrupt
<1>31. ASSUME NEW p \in Processes, Crash(p) PROVE Goal
  BY <1>31 DEF Crash
<1>32. CASE UNCHANGED vars
  BY <1>32
<1>33. QED
  BY <1>1, <1>2, <1>3, <1>4, <1>5, <1>6, <1>7, <1>8, <1>9, <1>10, <1>11, <1>12, <1>13, <1>14, <1>15, <1>16, <1>17, <1>18, <1>19, <1>20, <1>21, <1>22, <1>23, <1>24, <1>25, <1>26, <1>27, <1>28, <1>29, <1>30, <1>31, <1>32 DEF Next, Step, RunStep, MarkStep, HumanStep, SubmitStep, Quiescent

\* Confirmations are only ever added.
LEMMA ConfirmationsStay ==
  ASSUME [Case!CaseNext]_(Case!caseVars)
  PROVE  confirmations \subseteq confirmations'
  BY DEF Case!CaseNext, Case!caseVars, Case!StartInvestigation, Case!MarkInconclusive,
         Case!Cancel, Case!ReopenForSupplement, Case!TransitionTo,
         Case!RecordInitialConclusion, Case!Decide

\* A report with its three fields, and what an EXCEPT changes of it.
Record(case, decisions, runs) ==
  [case |-> case, confirmations |-> decisions, runs |-> runs]

\* Setting one field of a report leaves the others.
LEMMA RecordFields ==
  \A c, d, a, x :
    /\ [Record(c, d, a) EXCEPT !.case = x] = Record(x, d, a)
    /\ [Record(c, d, a) EXCEPT !.confirmations = x] = Record(c, x, a)
    /\ [Record(c, d, a) EXCEPT !.runs = x] = Record(c, d, x)
    /\ Record(c, d, a).case = c
    /\ Record(c, d, a).confirmations = d
    /\ Record(c, d, a).runs = a
    /\ Blank = Record("unread", "unread", "unread")
  BY DEF Record, Blank

\* The decision that explains a verdict is among the decisions.
Explained(case, decisions) ==
  case.status \in { "confirmed", "rejected" } =>
    \E c \in decisions : DecidedStatus(c.action) = case.status

\* The run of the conclusion is completed according to the runs.
Backed(case, runs) ==
  case.status \in Reviewable =>
    case.conclusion \in Requests /\ runs[case.conclusion] = "completed"

\* The invariant of a report: what is still to be read already agrees with it.
ReportInv ==
  /\ report = Record(report.case, report.confirmations, report.runs)
  /\ reading \in { "nothing", "diagnosis", "confirmations", "report", "trace" }
  /\ reading = "diagnosis" => Explained(report.case, confirmations)
  /\ reading \in { "confirmations", "report" } =>
       Explained(report.case, report.confirmations)
  /\ reading \in { "diagnosis", "confirmations" } => Backed(report.case, agentRun)
  /\ reading \in { "report", "trace" } => Backed(report.case, report.runs)

\* What the lifecycle guarantees about a diagnosis at any moment.
Agreement == /\ TypeOK
             /\ CompletedIsPast
             /\ DecisionMatchesStatus
             /\ ReviewedConclusionIsRecorded

\* A diagnosis that is read now is explained and backed by what is stored now.
LEMMA NowAgrees ==
  ASSUME Agreement
  PROVE  Explained(row, confirmations) /\ Backed(row, agentRun)
<1>1. Explained(row, confirmations)
  BY DEF Agreement, DecisionMatchesStatus, FinalDecisions, Explained, DecidedStatus
<1>2. Backed(row, agentRun)
  BY DEF Agreement, ReviewedConclusionIsRecorded, Backed
<1>3. QED
  BY <1>1, <1>2

\* A step of a request takes back nothing that a report relies on.
LEMMA RequestKeepsReport ==
  ASSUME RefineInv, Agreement, ReportInv, [Next]_vars, UNCHANGED reader
  PROVE  ReportInv'
<1>1. confirmations \subseteq confirmations'
  BY StepRefines, ConfirmationsStay
<1>2. \A r \in Requests : agentRun[r] = "completed" => agentRun'[r] = "completed"
  BY CompletedStays DEF Agreement
<1>3. reading' = reading /\ report' = report
  BY DEF reader
<1>4. Explained(report.case, confirmations) => Explained(report.case, confirmations')
  BY <1>1 DEF Explained
<1>5. Backed(report.case, agentRun) => Backed(report.case, agentRun')
  BY <1>2 DEF Backed
<1>6. QED
  BY <1>3, <1>4, <1>5 DEF ReportInv, Explained, Backed

\* A read extends a report by what agrees with it.
LEMMA ReadKeepsReport ==
  ASSUME Agreement, ReportInv, Read
  PROVE  ReportInv'
<1>1. UNCHANGED <<confirmations, agentRun>>
  BY DEF Read, ReadDiagnosis, ReadConfirmations, FinishReport, FinishTrace, ReadRuns, vars, database
<1>2. CASE ReadDiagnosis
  <2>1. reading' = "diagnosis" /\ report' = Record(row, "unread", "unread")
    BY <1>2, RecordFields DEF ReadDiagnosis
  <2>2. QED
    BY <1>1, <2>1, NowAgrees, RecordFields DEF ReportInv, Explained, Backed
<1>3. CASE ReadConfirmations
  <2>1. report' = Record(report.case, confirmations, report.runs)
    BY <1>3, RecordFields DEF ReadConfirmations, ReportInv
  <2>2. QED
    BY <1>1, <1>3, <2>1, RecordFields DEF ReadConfirmations, ReportInv, Explained, Backed
<1>4. CASE FinishReport \/ FinishTrace
  <2>1. report' = Record(report.case, report.confirmations, agentRun)
    BY <1>4, RecordFields DEF FinishReport, FinishTrace, ReadRuns, ReportInv
  <2>2. QED
    BY <1>1, <1>4, <2>1, RecordFields
       DEF FinishReport, FinishTrace, ReadRuns, ReportInv, Explained, Backed
<1>5. QED
  BY <1>2, <1>3, <1>4 DEF Read

\* The requests behave as they do without readers.
LEMMA ReportRefinesLifecycle == ReportSpec => Spec
<1>1. InitReport => Init
  BY DEF InitReport
<1>2. [ReportNext]_allVars => [Next]_vars
  BY DEF ReportNext, allVars, Read, ReadDiagnosis, ReadConfirmations, FinishReport,
         FinishTrace, ReadRuns
<1>3. QED
  BY <1>1, <1>2, PTL DEF ReportSpec, Spec

\* CompletedIsPast holds throughout.
LEMMA CompletedIsPastHolds == Spec => []CompletedIsPast
<1>1. Init => CompletedIsPast
  BY DEF Init, CompletedIsPast
<1>2. TypeOK /\ CompletedIsPast /\ [Next]_vars => CompletedIsPast'
  BY CompletedStays DEF CompletedIsPast
<1>3. QED
  BY <1>1, <1>2, TypeCorrect, PTL DEF Spec

\* What a report relies on holds throughout.
LEMMA ReportInvHolds == ReportSpec => []ReportInv
<1>1. InitReport => ReportInv
  BY RecordFields DEF InitReport, ReportInv
<1>2. RefineInv /\ Agreement /\ ReportInv /\ [ReportNext]_allVars => ReportInv'
  <2> SUFFICES ASSUME RefineInv, Agreement, ReportInv, [ReportNext]_allVars
               PROVE  ReportInv'
    OBVIOUS
  <2>1. CASE Next /\ UNCHANGED reader
    BY <2>1, RequestKeepsReport
  <2>2. CASE Read
    BY <2>2, ReadKeepsReport
  <2>3. CASE UNCHANGED allVars
    BY <2>3, RequestKeepsReport DEF allVars
  <2>4. QED
    BY <2>1, <2>2, <2>3 DEF ReportNext
<1>3. Spec => []Agreement
  <2>1. TypeOK /\ CompletedIsPast /\ DecisionMatchesStatus /\ ReviewedConclusionIsRecorded
          => Agreement
    BY DEF Agreement
  <2>2. QED
    BY <2>1, TypeCorrect, CompletedIsPastHolds, OneVerdict, ReviewedConclusions, PTL
<1>4. QED
  BY <1>1, <1>2, <1>3, ReportRefinesLifecycle, RefineInvHolds, PTL DEF ReportSpec

\* No report shows a verdict without the decision behind it.
THEOREM VerdictsAreShown == ReportSpec => []VerdictIsShown
<1>1. ReportInv => VerdictIsShown
  BY DEF ReportInv, Explained, VerdictIsShown
<1>2. QED
  BY <1>1, ReportInvHolds, PTL

\* No report or trace shows a conclusion whose run is not completed in it.
THEOREM ConclusionsHaveRuns == ReportSpec => []ConclusionHasItsRun
<1>1. ReportInv => ConclusionHasItsRun
  BY DEF ReportInv, Backed, ConclusionHasItsRun
<1>2. QED
  BY <1>1, ReportInvHolds, PTL

=============================================================================
