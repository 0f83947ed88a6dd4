---------------------------- MODULE FakeExecutor ----------------------------
(***************************************************************************)
(* mkFakeExecutor of new-pmhw/src/Executor.bsv: puppets that wait for a    *)
(* while and report.  executorCycle is a clock cycle of the puppets, whose *)
(* registers are read and written in the order of their ports: reportDone, *)
(* startWork, then the arbitration among the puppets that are done.  The   *)
(* duration of the work is left open.                                      *)
(***************************************************************************)
EXTENDS Integers, Sequences

CONSTANTS NumPuppets, Txns,
          PuppetQSize       \* slots of puppetQ[p]

Puppets == 0..(NumPuppets - 1)
NoTxn == 0
NoPuppet == -1

VARIABLES
  schedFF, doneFF,      \* one-place FIFOs of messages to and from Puppetmaster
  puppetQ,              \* waiting for puppet p
  working,              \* puppets[p]: what it works on, or NoTxn
  donePuppet            \* the puppet in donePuppetArbResult, or NoPuppet

execVars == <<schedFF, doneFF, puppetQ, working, donePuppet>>

ExecInit ==
  /\ schedFF = <<>> /\ doneFF = <<>>
  /\ puppetQ = [p \in Puppets |-> <<>>]
  /\ working = [p \in Puppets |-> NoTxn]
  /\ donePuppet = NoPuppet

request_put(msg) ==
  /\ schedFF = <<>> /\ schedFF' = <<msg>>
  /\ UNCHANGED <<doneFF, puppetQ, working, donePuppet>>

response_get ==
  /\ doneFF # <<>> /\ doneFF' = <<>>
  /\ UNCHANGED <<schedFF, puppetQ, working, donePuppet>>

fanout ==
  /\ schedFF # <<>>
  /\ LET msg == Head(schedFF)
     IN /\ Len(puppetQ[msg.puppetId]) < PuppetQSize
        /\ puppetQ' = [puppetQ EXCEPT ![msg.puppetId] = Append(@, msg.txnId)]
  /\ schedFF' = <<>>
  /\ UNCHANGED <<doneFF, working, donePuppet>>

\* The puppets after reportDone (done, or NoPuppet) and startWork (start).
Worked(done, start) ==
  [p \in Puppets |-> IF p \in start THEN Head(puppetQ[p])
                     ELSE IF p = done THEN NoTxn ELSE working[p]]

\* Faulty variant: the arbitration reads the registers before reportDone has
\* written them.
Done_Early(done, start) == {p \in Puppets : working[p] # NoTxn}

\* Which puppets may be done, as the arbitration reads the registers.
Done(done, start) == {p \in Puppets : Worked(done, start)[p] # NoTxn}

\* Which of the startWork rules that are ready fire in a cycle is left open:
\* each may write any of the registers, so they exclude one another.
executorCycle ==
  \E start \in SUBSET {p \in Puppets : puppetQ[p] # <<>>} :
    LET reports == donePuppet # NoPuppet /\ doneFF = <<>>
        done == IF reports THEN donePuppet ELSE NoPuppet
    IN /\ \A p \in start : p = done \/ working[p] = NoTxn
       /\ doneFF' = IF reports
                    THEN <<[txnId |-> working[done], puppetId |-> done]>>
                    ELSE doneFF
       /\ working' = Worked(done, start)
       /\ puppetQ' = [p \in Puppets |-> IF p \in start THEN Tail(puppetQ[p])
                                                       ELSE puppetQ[p]]
       /\ donePuppet' \in {NoPuppet} \cup Done(done, start)
       /\ UNCHANGED schedFF
=============================================================================
