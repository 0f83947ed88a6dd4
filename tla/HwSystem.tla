------------------------------ MODULE HwSystem ------------------------------
(***************************************************************************)
(* The hardware Puppetmaster with the fake executor, connected as in       *)
(* new-pmhw/src/Connectal.bsv (and in PuppetmasterTest.bsv), and a driver  *)
(* that submits the transactions of the workload in order.                 *)
(***************************************************************************)
EXTENDS Puppetmaster

CONSTANT PuppetQSize

VARIABLES
  schedFF, doneFF, puppetQ, working, donePuppet,    \* the executor
  next,     \* the driver's next transaction
  age       \* history: refreshes that began since t was scheduled, at most 2

Ex == INSTANCE FakeExecutor

execVars == <<schedFF, doneFF, puppetQ, working, donePuppet>>
vars == <<pmVars, execVars, next, age>>

Init == PmInit /\ Ex!ExecInit /\ next = 1 /\ age = [t \in Txns |-> 0]

Active == UNION {{puppetTxns[p][i] : i \in 1..Len(puppetTxns[p])} : p \in Puppets}

-----------------------------------------------------------------------------
\* mkConnection(txnDriverMux.txnDriver.transactions, pm.transactions)
Submit ==
  /\ next \in Txns
  /\ transactions_put(next)
  /\ next' = next + 1
  /\ UNCHANGED <<execVars, age>>

\* mkConnection(pm.scheduled, executorMux.executor.request)
ConnectScheduled ==
  /\ scheduled_get
  /\ Ex!request_put(Head(schedQ))
  /\ UNCHANGED <<next, age>>

\* mkConnection(executorMux.executor.response, pm.workDone)
ConnectWorkDone ==
  /\ Ex!response_get
  /\ workDone_put(Head(doneFF))
  /\ UNCHANGED <<next, age>>

Refresh ==
  /\ startRefresh
  /\ age' = [t \in Txns |-> IF t \in Active /\ age[t] < 2 THEN age[t] + 1
                                                          ELSE age[t]]
  /\ UNCHANGED <<execVars, next>>

Puppetmaster == PmRule /\ UNCHANGED <<execVars, next, age>>

Executor == (Ex!fanout \/ Ex!executorCycle) /\ UNCHANGED <<pmVars, next, age>>

Next == Submit \/ Puppetmaster \/ Refresh \/ Executor \/ ConnectScheduled
          \/ ConnectWorkDone

Spec == Init /\ [][Next]_vars
=============================================================================
