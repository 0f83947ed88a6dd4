---------------------------- MODULE HostInterface ----------------------------
(***************************************************************************)
(* The host's side of the hardware: runner/src/hw_test.c, which calls      *)
(* wrapper/src/pmhw.cpp, whose messages the portals of Connectal carry in  *)
(* order to new-pmhw/src/Connectal.bsv, with the transaction drivers of    *)
(* new-pmhw/src/TxnDriver.bsv up to where the Puppetmaster takes the       *)
(* transactions.  The host's calls are asynchronous: only fetchConfig is   *)
(* answered, by a callback on the portal's thread.                         *)
(***************************************************************************)
EXTENDS Integers, Sequences, FiniteSets, Functions

CONSTANTS
  MaxTxns,            \* bound of num_txns
  Cycles,             \* values of the arguments sim_cycles and txn_cycles
  NumPuppets,         \* the argument of pmhw_init
  MaxNumPuppets, CountSize,       \* values of TCount#(MaxNumPuppets)
  FakeTxnBRAMSize,
  PortalSize          \* messages a portal holds

ASSUME HostAssumption ==
         /\ MaxTxns \in Nat /\ Cycles \subseteq Nat /\ Cycles # {}
         /\ NumPuppets \in Nat \ {0} /\ MaxNumPuppets \in Nat \ {0}
         /\ CountSize \in Nat /\ CountSize > MaxNumPuppets
         /\ FakeTxnBRAMSize \in Nat \ {0} /\ PortalSize \in Nat \ {0}

Real == 0
Fake == 1

VARIABLES
  num_txns, sim_cycles, txn_cycles,   \* the workload and the arguments
  pc, i,                              \* main of hw_test, its loop
  asleep, cfg,                        \* the host in cv.wait; what it was told,
                                      \* as a sequence of at most one
  s2h, h2s, cfgs,                     \* both portals and H2SMessage.cfg
  regs,                               \* the registers setConfig writes
  execPuppets,                        \* fakeExecutor's own count of puppets
  failed,                             \* the dynamicAssert has failed
  txns, started, waitTimer,           \* fakeTxnDriver
  out,                                \* hostFF and outFF of the two drivers
  given                               \* history: what Puppetmaster was given

args == <<num_txns, sim_cycles, txn_cycles>>
hostVars == <<args, pc, i, asleep, cfg, cfgs>>
driverVars == <<txns, started, waitTimer, out, given>>
hwVars == <<regs, execPuppets, failed, driverVars>>
vars == <<hostVars, s2h, h2s, hwVars>>

Init ==
  /\ num_txns \in 0..MaxTxns /\ sim_cycles \in Cycles /\ txn_cycles \in Cycles
  /\ pc = "start" /\ i = 1 /\ asleep = FALSE /\ cfg = <<>>
  /\ s2h = <<>> /\ h2s = <<>> /\ cfgs = <<>>
  /\ regs \in [driver : {Real, Fake}, puppets : {Real, Fake},    \* mkRegU
               numPuppets : {8 % CountSize}, simCycles : {0}, waitCycles : {0}]
  /\ execPuppets = 8 % CountSize /\ failed = FALSE
  /\ txns = <<>> /\ started = FALSE /\ waitTimer = 0
  /\ out = [d \in {Real, Fake} |-> <<>>] /\ given = <<>>

-----------------------------------------------------------------------------
(* The host.                                                               *)

Send(msg) == Len(s2h) < PortalSize /\ s2h' = Append(s2h, msg)
Goto(from, to) == pc = from /\ pc' = to

\* Faulty variant: as much as the memory holds and one more.
FitsInMemory_Loose == num_txns <= FakeTxnBRAMSize + 1

\* ASSERT(wl->num_txns < 4096)
FitsInMemory == num_txns < FakeTxnBRAMSize

HostStart ==
  /\ pc = "start"
  /\ pc' = IF FitsInMemory THEN "reset" ELSE "aborted"
  /\ UNCHANGED <<args, i, asleep, cfg, cfgs, s2h, h2s, hwVars>>

\* The host only ever asks for the fake driver and the fake executor.
Asked(sim, wait) == [driver |-> Fake, puppets |-> Fake, numPuppets |-> NumPuppets,
                     simCycles |-> sim, waitCycles |-> wait]
InitConfig == Asked(0, 0)

\* pmhw_init, and the first half of pmhw_get_config
HostInit ==
  /\ \/ Goto("reset", "init") /\ Send([op |-> "systemReset"])
     \/ Goto("init", "fetch") /\ Send([op |-> "setConfig", cfg |-> InitConfig])
     \/ Goto("fetch", "wait") /\ Send([op |-> "fetchConfig"])
  /\ UNCHANGED <<args, i, asleep, cfg, cfgs, h2s, hwVars>>

\* cv.wait: the check of the predicate and falling asleep hold the mutex.
HostWait ==
  /\ pc = "wait" /\ ~ asleep /\ cfgs = <<>>
  /\ asleep' = TRUE
  /\ UNCHANGED <<args, pc, i, cfg, cfgs, s2h, h2s, hwVars>>

\* pm_config_t has no number of puppets.
HostGetConfig ==
  /\ ~ asleep /\ cfgs # <<>>
  /\ Goto("wait", "set")
  /\ cfg' = <<Restrict(Head(cfgs), DOMAIN Head(cfgs) \ {"numPuppets"})>>
  /\ cfgs' = Tail(cfgs)
  /\ UNCHANGED <<args, i, asleep, s2h, h2s, hwVars>>

\* pmhw_set_config: the number of puppets is the host's own.
HostSetConfig ==
  /\ Goto("set", "schedule")
  /\ Send([op |-> "setConfig",
           cfg |-> [driver |-> Head(cfg).driver, puppets |-> Head(cfg).puppets,
                    numPuppets |-> NumPuppets,
                    simCycles |-> sim_cycles, waitCycles |-> txn_cycles]])
  /\ UNCHANGED <<args, i, asleep, cfg, cfgs, h2s, hwVars>>

\* pmhw_schedule
HostSchedule ==
  /\ pc = "schedule" /\ i <= num_txns
  /\ Send([op |-> "addTransaction", txn |-> i])
  /\ i' = i + 1
  /\ UNCHANGED <<args, pc, asleep, cfg, cfgs, h2s, hwVars>>

\* pmhw_trigger_input_driver; main then sleeps and ends.
HostTrigger ==
  /\ i > num_txns
  /\ Goto("schedule", "end")
  /\ Send([op |-> "triggerDriver"])
  /\ UNCHANGED <<args, i, asleep, cfg, cfgs, h2s, hwVars>>

\* Faulty variant: nobody is notified.
configData_Silent ==
  /\ h2s # <<>>
  /\ cfgs' = Append(cfgs, Head(h2s)) /\ h2s' = Tail(h2s)
  /\ UNCHANGED <<args, pc, i, asleep, cfg, s2h, hwVars>>

\* The portal's thread.
configData ==
  /\ h2s # <<>>
  /\ cfgs' = Append(cfgs, Head(h2s)) /\ h2s' = Tail(h2s)
  /\ asleep' = FALSE
  /\ UNCHANGED <<args, pc, i, cfg, s2h, hwVars>>

-----------------------------------------------------------------------------
(* The methods of S2HMessage.  One that is not ready holds up the portal.  *)

Receive(op) ==
  /\ ~ failed
  /\ s2h # <<>> /\ Head(s2h).op = op
  /\ s2h' = Tail(s2h)

systemReset ==
  /\ Receive("systemReset")
  /\ UNCHANGED <<hostVars, h2s, hwVars>>

fetchConfig ==
  /\ Receive("fetchConfig")
  /\ Len(h2s) < PortalSize /\ h2s' = Append(h2s, regs)
  /\ UNCHANGED <<hostVars, hwVars>>

truncate(n) == n % CountSize

\* Faulty variants: the executor's mux is not set; nor is its own count.
setConfig_NotMux ==
  /\ Receive("setConfig")
  /\ LET c == Head(s2h).cfg
     IN /\ failed' = ~ (c.numPuppets < MaxNumPuppets)
        /\ regs' = [c EXCEPT !.numPuppets = truncate(@),
                             !.puppets = regs.puppets]
        /\ execPuppets' = truncate(c.numPuppets)
  /\ UNCHANGED <<hostVars, h2s, driverVars>>

setConfig_NotExecutor ==
  /\ Receive("setConfig")
  /\ LET c == Head(s2h).cfg
     IN /\ failed' = ~ (c.numPuppets < MaxNumPuppets)
        /\ regs' = [c EXCEPT !.numPuppets = truncate(@)]
  /\ UNCHANGED <<hostVars, h2s, execPuppets, driverVars>>

setConfig ==
  /\ Receive("setConfig")
  /\ LET c == Head(s2h).cfg
     IN /\ failed' = ~ (c.numPuppets < MaxNumPuppets)
        /\ regs' = [c EXCEPT !.numPuppets = truncate(@)]
        /\ execPuppets' = truncate(c.numPuppets)
  /\ UNCHANGED <<hostVars, h2s, driverVars>>

\* The host only ever selects the fake driver.
addTransaction ==
  /\ Receive("addTransaction")
  /\ regs.driver = Fake /\ Len(txns) < FakeTxnBRAMSize
  /\ txns' = Append(txns, Head(s2h).txn)
  /\ UNCHANGED <<hostVars, h2s, regs, execPuppets, failed, started, waitTimer,
                 out, given>>

triggerDriver ==
  /\ Receive("triggerDriver")
  /\ started' = TRUE
  /\ UNCHANGED <<hostVars, h2s, regs, execPuppets, failed, txns, waitTimer,
                 out, given>>

-----------------------------------------------------------------------------
(* The fake driver, and Puppetmaster at its output.                        *)

\* Faulty variant: whether or not the last one was taken.
populate_txn_Unguarded ==
  /\ ~ failed /\ started
  /\ IF waitTimer >= regs.waitCycles
     THEN /\ txns # <<>>
          /\ out' = [out EXCEPT ![Fake] = <<Head(txns)>>]
          /\ txns' = Tail(txns) /\ waitTimer' = 0
     ELSE waitTimer' = waitTimer + 1 /\ UNCHANGED <<txns, out>>
  /\ UNCHANGED <<hostVars, s2h, h2s, regs, execPuppets, failed, started,
                 given>>

populate_txn ==
  /\ ~ failed /\ started
  /\ IF waitTimer >= regs.waitCycles
     THEN /\ txns # <<>> /\ out[Fake] = <<>>
          /\ out' = [out EXCEPT ![Fake] = <<Head(txns)>>]
          /\ txns' = Tail(txns) /\ waitTimer' = 0
     ELSE waitTimer' = waitTimer + 1 /\ UNCHANGED <<txns, out>>
  /\ UNCHANGED <<hostVars, s2h, h2s, regs, execPuppets, failed, started,
                 given>>

\* mkConnection(txnDriverMux.txnDriver.transactions, pm.transactions)
GiveTxn ==
  /\ ~ failed
  /\ LET q == out[regs.driver]
     IN /\ q # <<>>
        /\ given' = Append(given, Head(q))
        /\ out' = [out EXCEPT ![regs.driver] = Tail(q)]
  /\ UNCHANGED <<hostVars, s2h, h2s, regs, execPuppets, failed, txns, started,
                 waitTimer>>

Host == HostStart \/ HostInit \/ HostWait \/ HostGetConfig \/ HostSetConfig
          \/ HostSchedule \/ HostTrigger
Portal == systemReset \/ fetchConfig \/ setConfig \/ addTransaction
            \/ triggerDriver
Next == Host \/ configData \/ Portal \/ populate_txn \/ GiveTxn

\* The threads run, the portal delivers, the rules fire when they are ready
\* and Puppetmaster takes transactions again and again.
Spec ==
  /\ Init /\ [][Next]_vars
  /\ WF_vars(Host) /\ WF_vars(configData) /\ WF_vars(Portal)
  /\ WF_vars(populate_txn) /\ WF_vars(GiveTxn)

-----------------------------------------------------------------------------
(***************************************************************************)
(* Although setConfig is not answered, the host is told the configuration  *)
(* it has just set (pmhw.cpp:78), undefined registers and all.             *)
(***************************************************************************)
ToldWhatWasSet ==
  \A k \in DOMAIN cfg : \A r \in DOMAIN cfg[k] : cfg[k][r] = InitConfig[r]

(***************************************************************************)
(* No transaction runs under an old configuration: from the trigger on all *)
(* registers, both counts of puppets too, hold what the host asked for.    *)
(***************************************************************************)
RunsAsConfigured ==
  started => /\ regs = Asked(sim_cycles, txn_cycles)
             /\ execPuppets = regs.numPuppets

(***************************************************************************)
(* Puppetmaster is given the transactions in the order of the workload,    *)
(* none is lost or doubled between the host's loop and its input, and none *)
(* comes before the trigger.                                               *)
(***************************************************************************)
Added == {k \in DOMAIN s2h : s2h[k].op = "addTransaction"}
InOrderOnceTriggered ==
  /\ given \o out[Fake] \o txns = [k \in 1..(i - 1 - Cardinality(Added)) |-> k]
  /\ given # <<>> => pc = "end"

(***************************************************************************)
(* The scheduler is given the transactions once, in order and under the    *)
(* configuration that the host has set and was told.                       *)
(***************************************************************************)
GivenAsAsked == ToldWhatWasSet /\ RunsAsConfigured /\ InOrderOnceTriggered

(***************************************************************************)
(* Unless the workload is refused, all of it gets there.  A transaction    *)
(* that does not fit in the driver's memory would hold up the trigger that *)
(* follows it: "FakeTxnDriver Memory limit" (hw_test.c:23).                *)
(***************************************************************************)
AllGiven == <>(pc = "aborted" \/ Len(given) = num_txns)
=============================================================================
