----------------------------- MODULE HostProofs ------------------------------
(***************************************************************************)
(* The host's side of the hardware, for every workload, memory, portal and *)
(* number of puppets.  The argument counts: the calls of the host are a    *)
(* list that is known in advance, a prefix of it has been sent, and how    *)
(* much of the prefix has been handled tells the state of the hardware.    *)
(***************************************************************************)
EXTENDS HostInterface, SequenceTheorems, FiniteSetTheorems, TLAPS

\* The k-th call, with n transactions.
Call(k, n, s, w) ==
  CASE k = 1 -> [op |-> "systemReset"]
    [] k = 2 -> [op |-> "setConfig", cfg |-> InitConfig]
    [] k = 3 -> [op |-> "fetchConfig"]
    [] k = 4 -> [op |-> "setConfig", cfg |-> Asked(s, w)]
    [] k \in 5..(4 + n) -> [op |-> "addTransaction", txn |-> k - 4]
    [] OTHER -> [op |-> "triggerDriver"]

Sent == CASE pc \in {"start", "aborted", "reset"} -> 0
          [] pc = "init"           -> 1
          [] pc = "fetch"          -> 2
          [] pc \in {"wait", "set"} -> 3
          [] pc = "schedule"       -> 3 + i
          [] pc = "end"            -> 5 + num_txns

Handled == Sent - Len(s2h)

HostAt ==
  /\ num_txns \in Nat /\ sim_cycles \in Nat /\ txn_cycles \in Nat
  /\ pc \in {"start", "aborted", "reset", "init", "fetch", "wait", "set",
             "schedule", "end"}
  /\ i \in 1..(num_txns + 1)
  /\ pc = "end" => i = num_txns + 1
  /\ pc \notin {"schedule", "end"} => i = 1

\* What is in the portal are the calls after those that have been handled.
Underway ==
  /\ s2h \in Seq({Call(k, num_txns, sim_cycles, txn_cycles) : k \in Nat})
  /\ Handled \in Nat
  /\ \A k \in 1..Len(s2h) :
       s2h[k] = Call(Handled + k, num_txns, sim_cycles, txn_cycles)

Cut(c) == [c EXCEPT !.numPuppets = truncate(@)]

Registers ==
  /\ failed \in BOOLEAN /\ regs.driver \in {Real, Fake}
  /\ failed <=> Handled >= 2 /\ ~ (NumPuppets < MaxNumPuppets)
  /\ failed => Handled = 2
  /\ Handled >= 2 => execPuppets = truncate(NumPuppets)
  /\ Handled \in {2, 3} => regs = Cut(InitConfig)
  /\ Handled >= 4 => regs = Cut(Asked(sim_cycles, txn_cycles))

Told == <<Restrict(InitConfig, DOMAIN InitConfig \ {"numPuppets"})>>

\* One answer is on its way, has come, or has been taken.
Answer ==
  /\ Handled < 3 => h2s = <<>> /\ cfgs = <<>>
  /\ pc \in {"set", "schedule", "end"}
       => Handled >= 3 /\ h2s = <<>> /\ cfgs = <<>> /\ cfg = Told
  /\ pc \notin {"set", "schedule", "end"} => cfg = <<>>
  /\ pc = "wait" /\ Handled = 3
       => \/ h2s = <<InitConfig>> /\ cfgs = <<>>
          \/ h2s = <<>> /\ cfgs = <<InitConfig>>

\* The transactions that the driver has been given.
Delivered == IF Handled < 4 THEN 0
             ELSE IF Handled <= 4 + num_txns THEN Handled - 4 ELSE num_txns

Driver ==
  /\ given \in Seq(Nat) /\ txns \in Seq(Nat)
  /\ out \in [{Real, Fake} -> Seq(Nat)] /\ out[Real] = <<>>
  /\ out[Fake] = <<>> \/ \E t \in Nat : out[Fake] = <<t>>
  /\ given \o out[Fake] \o txns = [k \in 1..Delivered |-> k]
  /\ started \in BOOLEAN
  /\ started => Handled = 5 + num_txns
  /\ ~ started => given = <<>> /\ out[Fake] = <<>>

HInv == HostAt /\ Underway /\ Registers /\ Answer /\ Driver

-----------------------------------------------------------------------------
(* The calls.                                                              *)

LEMMA CallOps ==
  ASSUME NEW n \in Nat, NEW s, NEW w, NEW k \in Nat \ {0}
  PROVE  /\ k = 1 => Call(k, n, s, w) = [op |-> "systemReset"]
         /\ k = 2 => Call(k, n, s, w) = [op |-> "setConfig", cfg |-> InitConfig]
         /\ k = 3 => Call(k, n, s, w) = [op |-> "fetchConfig"]
         /\ k = 4 => Call(k, n, s, w) = [op |-> "setConfig", cfg |-> Asked(s, w)]
         /\ k \in 5..(4 + n) => Call(k, n, s, w) = [op |-> "addTransaction", txn |-> k - 4]
         /\ k > 4 + n => Call(k, n, s, w) = [op |-> "triggerDriver"]
  BY DEF Call

LEMMA OpOf ==
  ASSUME NEW n \in Nat, NEW s, NEW w, NEW k \in Nat \ {0}
  PROVE  /\ Call(k, n, s, w).op = "systemReset" <=> k = 1
         /\ Call(k, n, s, w).op = "setConfig" <=> k \in {2, 4}
         /\ Call(k, n, s, w).op = "fetchConfig" <=> k = 3
         /\ Call(k, n, s, w).op = "addTransaction" <=> k \in 5..(4 + n)
         /\ Call(k, n, s, w).op = "triggerDriver" <=> k > 4 + n
<1>1. CASE k \in 1..4
  <2>1. k \notin 5..(4 + n) /\ ~ (k > 4 + n)
    BY <1>1
  <2>2. CASE k = 1
    <3>1. Call(k, n, s, w).op = "systemReset"
      BY <2>2, CallOps
    <3> QED BY <2>1, <2>2, <3>1
  <2>3. CASE k = 2
    BY <2>1, <2>3, CallOps
  <2>4. CASE k = 3
    BY <2>1, <2>4, CallOps
  <2>5. CASE k = 4
    BY <2>1, <2>5, CallOps
  <2> QED BY <1>1, <2>2, <2>3, <2>4, <2>5
<1>2. CASE k \in 5..(4 + n)
  <2>1. k \notin 1..4 /\ ~ (k > 4 + n)
    BY <1>2
  <2> QED BY <1>2, <2>1, CallOps
<1>3. CASE k > 4 + n
  <2>1. k \notin 1..4 /\ k \notin 5..(4 + n)
    BY <1>3
  <2> QED BY <1>3, <2>1, CallOps
<1> QED BY <1>1, <1>2, <1>3

\* No puppet is cut off when the assertion of setConfig holds.
LEMMA CutKeeps ==
  ASSUME NumPuppets < MaxNumPuppets
  PROVE  /\ truncate(NumPuppets) = NumPuppets
         /\ Cut(InitConfig) = InitConfig
         /\ \A s, w : Cut(Asked(s, w)) = Asked(s, w)
<1>1. NumPuppets \in Nat /\ CountSize \in Nat /\ NumPuppets < CountSize
  BY HostAssumption
<1>2. truncate(NumPuppets) = NumPuppets
  BY <1>1 DEF truncate
<1>3. Cut(InitConfig) = InitConfig
  BY <1>2 DEF Cut, InitConfig, Asked
<1>4. ASSUME NEW s, NEW w PROVE Cut(Asked(s, w)) = Asked(s, w)
  BY <1>2 DEF Cut, Asked
<1> QED BY <1>2, <1>3, <1>4

\* What pmhw_set_config makes of the answer and its arguments.
LEMMA SetAsAsked ==
  ASSUME NEW s, NEW w
  PROVE  [driver |-> Head(Told).driver, puppets |-> Head(Told).puppets,
          numPuppets |-> NumPuppets, simCycles |-> s, waitCycles |-> w] = Asked(s, w)
<1>1. Head(Told) = Restrict(InitConfig, DOMAIN InitConfig \ {"numPuppets"})
  BY DEF Told
<1>2. /\ DOMAIN InitConfig = {"driver", "puppets", "numPuppets", "simCycles", "waitCycles"}
      /\ InitConfig["driver"] = Fake /\ InitConfig["puppets"] = Fake
  BY DEF InitConfig, Asked
<1>3. Head(Told)["driver"] = Fake /\ Head(Told)["puppets"] = Fake
  BY <1>1, <1>2 DEF Restrict
<1> QED BY <1>3 DEF Asked

-----------------------------------------------------------------------------
(* The portal.                                                             *)

LEMMA SentIs ==
  ASSUME HostAt
  PROVE  /\ Sent \in Nat /\ Sent <= 5 + num_txns
         /\ pc \in {"start", "aborted", "reset"} => Sent = 0
         /\ pc = "init" => Sent = 1
         /\ pc = "fetch" => Sent = 2
         /\ pc \in {"wait", "set"} => Sent = 3
         /\ pc = "schedule" => Sent = 3 + i
         /\ pc = "end" => Sent = 5 + num_txns
<1>1. CASE pc \in {"start", "aborted", "reset"}
  BY <1>1 DEF HostAt, Sent
<1>2. CASE pc = "init"
  BY <1>2 DEF HostAt, Sent
<1>3. CASE pc = "fetch"
  BY <1>3 DEF HostAt, Sent
<1>4. CASE pc \in {"wait", "set"}
  BY <1>4 DEF HostAt, Sent
<1>5. CASE pc = "schedule"
  BY <1>5 DEF HostAt, Sent
<1>6. CASE pc = "end"
  BY <1>6 DEF HostAt, Sent
<1> QED BY <1>1, <1>2, <1>3, <1>4, <1>5, <1>6 DEF HostAt

Calls(n, s, w) == {Call(k, n, s, w) : k \in Nat}

\* A call is added behind those that are under way.
LEMMA SendNext ==
  ASSUME HInv, NEW m, Send(m), UNCHANGED args, Sent' = Sent + 1,
         m = Call(Sent + 1, num_txns, sim_cycles, txn_cycles)
  PROVE  Underway' /\ Handled' = Handled
<1> DEFINE n == num_txns  a == sim_cycles  w == txn_cycles
<1>1. /\ s2h \in Seq(Calls(n, a, w)) /\ Len(s2h) \in Nat /\ Handled \in Nat /\ Sent \in Nat
      /\ \A k \in 1..Len(s2h) : s2h[k] = Call(Handled + k, n, a, w)
  BY SentIs, LenProperties DEF HInv, Underway, Calls
<1>2. m \in Calls(n, a, w)
  BY <1>1 DEF Calls
<1>3. /\ s2h' \in Seq(Calls(n, a, w)) /\ Len(s2h') = Len(s2h) + 1
      /\ \A k \in 1..Len(s2h) : s2h'[k] = s2h[k]
      /\ s2h'[Len(s2h) + 1] = m
  BY <1>1, <1>2, AppendProperties DEF Send
<1>4. Handled' = Handled
  BY <1>1, <1>3 DEF Handled
<1>5. Sent + 1 = Handled + (Len(s2h) + 1)
  BY <1>1 DEF Handled
<1>6. \A k \in 1..Len(s2h') : s2h'[k] = Call(Handled + k, n, a, w)
  BY SMTT(30), <1>1, <1>3, <1>5
<1> HIDE DEF n, a, w
<1>7. UNCHANGED <<num_txns, sim_cycles, txn_cycles>>
  BY DEF args
<1> QED BY <1>1, <1>3, <1>4, <1>6, <1>7 DEF Underway, Calls, n, a, w

\* The next call is taken.
LEMMA ReceiveNext ==
  ASSUME HInv, NEW op, Receive(op), UNCHANGED <<args, pc, i>>
  PROVE  /\ Underway' /\ Handled' = Handled + 1
         /\ Head(s2h) = Call(Handled + 1, num_txns, sim_cycles, txn_cycles)
         /\ Head(s2h).op = op
         /\ Handled \in Nat /\ Handled + 1 <= Sent /\ ~ failed
<1> DEFINE n == num_txns  a == sim_cycles  w == txn_cycles
<1>1. /\ s2h \in Seq(Calls(n, a, w)) /\ Handled \in Nat /\ Sent \in Nat
      /\ \A k \in 1..Len(s2h) : s2h[k] = Call(Handled + k, n, a, w)
  BY SentIs DEF HInv, Underway, Calls
<1>2. /\ s2h # <<>> /\ s2h' = Tail(s2h) /\ Head(s2h).op = op /\ ~ failed
  BY DEF Receive
<1>3. /\ s2h' \in Seq(Calls(n, a, w)) /\ Len(s2h) \in Nat /\ Len(s2h) >= 1
      /\ Len(s2h') = Len(s2h) - 1
      /\ \A k \in 1..Len(s2h') : s2h'[k] = s2h[k + 1]
      /\ Head(s2h) = s2h[1]
  BY <1>1, <1>2, HeadTailProperties, EmptySeq, LenProperties
<1>4. UNCHANGED <<num_txns, sim_cycles, txn_cycles>> /\ Sent' = Sent
  BY DEF args, Sent
<1>5. Handled' = Handled + 1 /\ Handled + 1 <= Sent
  BY <1>1, <1>3, <1>4 DEF Handled
<1>6. \A k \in 1..Len(s2h') : s2h'[k] = Call(Handled + 1 + k, n, a, w)
  <2> SUFFICES ASSUME NEW k \in 1..Len(s2h') PROVE s2h'[k] = Call(Handled + 1 + k, n, a, w)
    OBVIOUS
  <2>1. k + 1 \in 1..Len(s2h) /\ Handled + (k + 1) = Handled + 1 + k
    BY <1>1, <1>3
  <2> QED BY <1>1, <1>3, <2>1
<1> HIDE DEF n, a, w
<1>7. Underway'
  BY <1>1, <1>3, <1>4, <1>5, <1>6 DEF Underway, Calls, n, a, w
<1>8. Head(s2h) = Call(Handled + 1, n, a, w)
  BY <1>1, <1>3
<1> QED BY <1>1, <1>2, <1>5, <1>7, <1>8 DEF n, a, w

\* What the state of the hardware says of itself depends on how much has been
\* handled.
LEMMA SameHw ==
  ASSUME HInv, UNCHANGED <<hwVars, args>>, Handled' = Handled
  PROVE  Registers' /\ Driver'
<1>1. UNCHANGED <<regs, execPuppets, failed, txns, started, out, given, num_txns,
                  sim_cycles, txn_cycles>>
  BY DEF hwVars, driverVars, args
<1>2. Registers'
  BY <1>1 DEF HInv, Registers
<1>3. Driver'
  BY <1>1 DEF HInv, Driver, Delivered
<1> QED BY <1>2, <1>3

-----------------------------------------------------------------------------
(* The host's steps.                                                       *)

LEMMA QuietHost ==
  ASSUME HInv, UNCHANGED <<args, s2h, hwVars>>, HostAt', Sent' = Sent, Answer'
  PROVE  HInv'
<1>1. Handled' = Handled
  BY DEF Handled
<1>2. UNCHANGED <<num_txns, sim_cycles, txn_cycles>>
  BY DEF args
<1>3. Underway'
  BY <1>1, <1>2 DEF HInv, Underway
<1> QED BY <1>1, <1>3, SameHw DEF HInv

LEMMA HandledAtMost == ASSUME HInv PROVE Handled \in Nat /\ Handled <= Sent
<1>1. Len(s2h) \in Nat /\ Sent \in Nat /\ Handled \in Nat
  BY SentIs, LenProperties DEF HInv, Underway
<1> QED BY <1>1 DEF Handled

LEMMA HostStartInv == HInv /\ HostStart => HInv'
<1> SUFFICES ASSUME HInv, HostStart PROVE HInv'
  OBVIOUS
<1>1. /\ pc = "start" /\ pc' \in {"reset", "aborted"}
      /\ UNCHANGED <<args, i, asleep, cfg, cfgs, s2h, h2s, hwVars>>
  BY DEF HostStart
<1>2. HostAt'
  BY <1>1 DEF HInv, HostAt, args
<1>3. Sent' = Sent /\ Sent = 0
  BY <1>1 DEF Sent
<1>4. Handled < 3 /\ Handled' = Handled
  BY <1>1, <1>3, HandledAtMost DEF Handled
<1>5. Answer'
  BY <1>1, <1>4 DEF HInv, Answer
<1> QED BY <1>1, <1>2, <1>3, <1>5, QuietHost

LEMMA HostWaitInv == HInv /\ (HostWait \/ HostGetConfig) => HInv'
<1> SUFFICES ASSUME HInv, HostWait \/ HostGetConfig PROVE HInv'
  OBVIOUS
<1>1. /\ pc = "wait" /\ UNCHANGED <<args, i, s2h, h2s, hwVars>>
      /\ pc' \in {"wait", "set"}
  BY DEF HostWait, HostGetConfig, Goto
<1>2. HostAt'
  BY <1>1 DEF HInv, HostAt, args
<1>3. Sent' = Sent /\ Sent = 3
  BY <1>1 DEF Sent
<1>4. Handled' = Handled /\ Handled \in 0..3
  <2>1. Handled' = Handled
    BY <1>1, <1>3 DEF Handled
  <2>2. Handled \in 0..3
    BY <1>3, HandledAtMost
  <2> QED BY <2>1, <2>2
<1>5. CASE HostWait
  <2>1. UNCHANGED <<pc, cfg, cfgs>>
    BY <1>5 DEF HostWait
  <2>2. Answer'
    BY <1>1, <1>4, <2>1 DEF HInv, Answer
  <2> QED BY <1>1, <1>2, <1>3, <2>2, QuietHost
<1>6. CASE HostGetConfig
  <2>1. /\ cfgs # <<>> /\ pc' = "set" /\ cfgs' = Tail(cfgs)
        /\ cfg' = <<Restrict(Head(cfgs), DOMAIN Head(cfgs) \ {"numPuppets"})>>
    BY <1>6 DEF HostGetConfig, Goto
  <2>2. Handled = 3 /\ h2s = <<>> /\ cfgs = <<InitConfig>>
    BY <1>1, <1>4, <2>1 DEF HInv, Answer
  <2>3. Head(cfgs) = InitConfig /\ Tail(cfgs) = <<>>
    BY <2>2
  <2>4. Answer'
    BY <1>1, <1>4, <2>1, <2>2, <2>3 DEF Answer, Told
  <2> QED BY <1>1, <1>2, <1>3, <2>4, QuietHost
<1> QED BY <1>5, <1>6

\* A step that sends the next call.
LEMMA SendingHost ==
  ASSUME HInv, NEW m, Send(m), UNCHANGED <<args, cfg, cfgs, h2s, hwVars>>,
         Sent' = Sent + 1, HostAt',
         m = Call(Sent + 1, num_txns, sim_cycles, txn_cycles),
         /\ pc' \in {"set", "schedule", "end"} => pc \in {"set", "schedule", "end"}
         /\ pc \in {"set", "schedule", "end"} => pc' \in {"set", "schedule", "end"}
         /\ pc # "wait" /\ (pc' = "wait" => Handled < 3)
  PROVE  HInv'
<1>1. Underway' /\ Handled' = Handled
  BY SendNext
<1>2. Registers' /\ Driver'
  BY <1>1, SameHw
<1>3. Handled \in Nat
  BY HandledAtMost
<1>4. Answer'
  BY <1>1, <1>3 DEF HInv, Answer
<1> QED BY <1>1, <1>2, <1>4 DEF HInv

LEMMA HostInitInv == HInv /\ HostInit => HInv'
<1> SUFFICES ASSUME HInv, HostInit PROVE HInv'
  OBVIOUS
<1>1. UNCHANGED <<args, i, asleep, cfg, cfgs, h2s, hwVars>>
  BY DEF HostInit
<1>2. Handled \in Nat /\ Handled <= Sent /\ num_txns \in Nat
  BY HandledAtMost DEF HInv, HostAt
<1>3. CASE Goto("reset", "init") /\ Send([op |-> "systemReset"])
  <2>1. pc = "reset" /\ pc' = "init" /\ HostAt'
    BY <1>1, <1>3 DEF Goto, HInv, HostAt, args
  <2>2. Sent = 0 /\ Sent' = Sent + 1
    BY <2>1 DEF Sent
  <2>3. Call(1, num_txns, sim_cycles, txn_cycles) = [op |-> "systemReset"]
    BY <1>2, CallOps
  <2> QED BY <1>1, <1>3, <2>1, <2>2, <2>3, SendingHost
<1>4. CASE Goto("init", "fetch") /\ Send([op |-> "setConfig", cfg |-> InitConfig])
  <2>1. pc = "init" /\ pc' = "fetch" /\ HostAt'
    BY <1>1, <1>4 DEF Goto, HInv, HostAt, args
  <2>2. Sent = 1 /\ Sent' = Sent + 1
    BY <2>1 DEF Sent
  <2>3. Call(2, num_txns, sim_cycles, txn_cycles) = [op |-> "setConfig", cfg |-> InitConfig]
    BY <1>2, CallOps
  <2> QED BY <1>1, <1>4, <2>1, <2>2, <2>3, SendingHost
<1>5. CASE Goto("fetch", "wait") /\ Send([op |-> "fetchConfig"])
  <2>1. pc = "fetch" /\ pc' = "wait" /\ HostAt'
    BY <1>1, <1>5 DEF Goto, HInv, HostAt, args
  <2>2. Sent = 2 /\ Sent' = Sent + 1
    BY <2>1 DEF Sent
  <2>3. Call(3, num_txns, sim_cycles, txn_cycles) = [op |-> "fetchConfig"]
    BY <1>2, CallOps
  <2>4. Handled < 3
    BY <1>2, <2>2
  <2> QED BY <1>1, <1>5, <2>1, <2>2, <2>3, <2>4, SendingHost
<1> QED BY <1>3, <1>4, <1>5 DEF HostInit

LEMMA HostSetConfigInv == HInv /\ HostSetConfig => HInv'
<1> SUFFICES ASSUME HInv, HostSetConfig PROVE HInv'
  OBVIOUS
<1> DEFINE m == [op |-> "setConfig",
                 cfg |-> [driver |-> Head(cfg).driver, puppets |-> Head(cfg).puppets,
                          numPuppets |-> NumPuppets,
                          simCycles |-> sim_cycles, waitCycles |-> txn_cycles]]
<1>1. /\ pc = "set" /\ pc' = "schedule" /\ Send(m)
      /\ UNCHANGED <<args, i, asleep, cfg, cfgs, h2s, hwVars>>
  BY DEF HostSetConfig, Goto
<1>2. cfg = Told
  BY <1>1 DEF HInv, Answer
<1>3. m = [op |-> "setConfig", cfg |-> Asked(sim_cycles, txn_cycles)]
  BY <1>2, SetAsAsked
<1>4. i = 1 /\ num_txns \in Nat /\ HostAt'
  BY <1>1 DEF HInv, HostAt, args
<1> HIDE DEF m
<1>5. Sent = 3 /\ Sent' = Sent + 1
  BY <1>1, <1>4 DEF Sent
<1>6. m = Call(4, num_txns, sim_cycles, txn_cycles)
  BY <1>3, <1>4, CallOps
<1> QED BY <1>1, <1>4, <1>5, <1>6, SendingHost

LEMMA HostScheduleInv == HInv /\ (HostSchedule \/ HostTrigger) => HInv'
<1> SUFFICES ASSUME HInv, HostSchedule \/ HostTrigger PROVE HInv'
  OBVIOUS
<1>1. /\ pc = "schedule" /\ num_txns \in Nat /\ i \in 1..(num_txns + 1)
      /\ UNCHANGED <<args, asleep, cfg, cfgs, h2s, hwVars>>
  BY DEF HostSchedule, HostTrigger, Goto, HInv, HostAt
<1>2. Sent = 3 + i
  BY <1>1 DEF Sent
<1>3. CASE HostSchedule
  <2>1. /\ pc' = pc /\ i <= num_txns /\ i' = i + 1
        /\ Send([op |-> "addTransaction", txn |-> i])
    BY <1>3 DEF HostSchedule
  <2>2. HostAt'
    BY <1>1, <2>1 DEF HInv, HostAt, args
  <2>3. Sent' = Sent + 1
    BY <1>1, <1>2, <2>1 DEF Sent
  <2>4. /\ 4 + i \in Nat \ {0} /\ 4 + i \in 5..(4 + num_txns) /\ (4 + i) - 4 = i
        /\ Sent + 1 = 4 + i
    BY <1>1, <1>2, <2>1
  <2>5. Call(4 + i, num_txns, sim_cycles, txn_cycles)
          = [op |-> "addTransaction", txn |-> i]
    BY <1>1, <2>4, CallOps
  <2> QED BY <1>1, <2>1, <2>2, <2>3, <2>4, <2>5, SendingHost
<1>4. CASE HostTrigger
  <2>1. /\ i = num_txns + 1 /\ pc' = "end" /\ UNCHANGED i
        /\ Send([op |-> "triggerDriver"])
    BY <1>1, <1>4 DEF HostTrigger, Goto
  <2>2. HostAt'
    BY <1>1, <2>1 DEF HInv, HostAt, args
  <2>3. Sent' = Sent + 1 /\ Sent + 1 \in Nat \ {0} /\ Sent + 1 > 4 + num_txns
    BY <1>1, <1>2, <2>1 DEF Sent, args
  <2>4. Call(Sent + 1, num_txns, sim_cycles, txn_cycles) = [op |-> "triggerDriver"]
    BY <1>1, <2>3, CallOps
  <2> QED BY <1>1, <2>1, <2>2, <2>3, <2>4, SendingHost
<1> QED BY <1>3, <1>4

-----------------------------------------------------------------------------
(* The portal's thread and the methods.                                    *)

LEMMA configDataInv == HInv /\ configData => HInv'
<1> SUFFICES ASSUME HInv, configData PROVE HInv'
  OBVIOUS
<1>1. /\ h2s # <<>> /\ cfgs' = Append(cfgs, Head(h2s)) /\ h2s' = Tail(h2s)
      /\ UNCHANGED <<args, pc, i, cfg, s2h, hwVars>>
  BY DEF configData
<1>2. HostAt' /\ Sent' = Sent
  BY <1>1 DEF HInv, HostAt, Sent, args
<1>3. Handled' = Handled /\ Handled \in Nat /\ Handled <= Sent
  <2>1. Handled' = Handled
    BY <1>1, <1>2 DEF Handled
  <2> QED BY <2>1, HandledAtMost
<1>4. pc = "wait" /\ Handled = 3
  <2>1. pc \notin {"set", "schedule", "end"} /\ ~ (Handled < 3)
    BY <1>1 DEF HInv, Answer
  <2>2. HostAt
    BY DEF HInv
  <2>3. pc \in {"start", "aborted", "reset", "init", "fetch", "wait"}
    BY <2>1, <2>2 DEF HostAt
  <2> QED BY <1>3, <2>1, <2>2, <2>3, SentIs
<1>5. h2s = <<InitConfig>> /\ cfgs = <<>>
  BY <1>1, <1>4 DEF HInv, Answer
<1>6. h2s' = <<>> /\ cfgs' = <<InitConfig>>
  BY <1>1, <1>5
<1>7. Answer'
  BY <1>1, <1>3, <1>4, <1>6 DEF HInv, Answer
<1> QED BY <1>1, <1>2, <1>7, QuietHost

\* A method that neither answers nor delivers.
LEMMA HandledNext ==
  ASSUME HInv, UNCHANGED hostVars
  PROVE  HostAt' /\ UNCHANGED <<num_txns, sim_cycles, txn_cycles, args, pc, i, cfg, cfgs>>
  BY DEF HInv, HostAt, hostVars, args

\* The answer is on its way only while the third call is the last.
LEMMA AnswerLater ==
  ASSUME HInv, UNCHANGED <<hostVars, h2s>>, Handled' = Handled + 1, Handled + 1 <= Sent,
         Handled # 2
  PROVE  Answer'
<1>1. UNCHANGED <<pc, cfg, cfgs>> /\ HostAt
  BY DEF hostVars, HInv
<1>2. Handled \in Nat
  BY HandledAtMost
<1>3. ~ (pc = "wait" /\ Handled' = 3)
  BY <1>2
<1> QED BY <1>1, <1>2, <1>3 DEF HInv, Answer

LEMMA systemResetInv == HInv /\ systemReset => HInv'
<1> SUFFICES ASSUME HInv, systemReset PROVE HInv'
  OBVIOUS
<1>1. Receive("systemReset") /\ UNCHANGED <<hostVars, h2s, hwVars>>
  BY DEF systemReset
<1>2. HostAt' /\ UNCHANGED <<num_txns, sim_cycles, txn_cycles, args, pc, i, cfg, cfgs>>
  BY <1>1, HandledNext
<1>3. /\ Underway' /\ Handled' = Handled + 1 /\ Handled \in Nat /\ Handled + 1 <= Sent
      /\ Call(Handled + 1, num_txns, sim_cycles, txn_cycles).op = "systemReset"
  BY <1>1, <1>2, ReceiveNext
<1>4. Handled = 0
  BY <1>3, OpOf DEF HInv, HostAt
<1>5. Answer'
  BY <1>1, <1>3, <1>4, AnswerLater
<1>6. UNCHANGED <<regs, execPuppets, failed, txns, started, out, given>>
  BY <1>1 DEF hwVars, driverVars
<1>7. Registers'
  BY <1>2, <1>3, <1>4, <1>6 DEF HInv, Registers
<1>8. Delivered' = Delivered
  BY <1>2, <1>3, <1>4 DEF Delivered
<1>9. ~ started
  BY <1>4 DEF HInv, HostAt, Driver
<1>10. Driver'
  BY <1>2, <1>6, <1>8, <1>9 DEF HInv, Driver
<1> QED BY <1>2, <1>3, <1>5, <1>7, <1>10 DEF HInv

LEMMA fetchConfigInv == HInv /\ fetchConfig => HInv'
<1> SUFFICES ASSUME HInv, fetchConfig PROVE HInv'
  OBVIOUS
<1>1. /\ Receive("fetchConfig") /\ h2s' = Append(h2s, regs)
      /\ UNCHANGED <<hostVars, hwVars>>
  BY DEF fetchConfig
<1>2. HostAt' /\ UNCHANGED <<num_txns, sim_cycles, txn_cycles, args, pc, i, cfg, cfgs>>
  BY <1>1, HandledNext
<1>3. /\ Underway' /\ Handled' = Handled + 1 /\ Handled \in Nat /\ Handled + 1 <= Sent
      /\ Call(Handled + 1, num_txns, sim_cycles, txn_cycles).op = "fetchConfig"
      /\ ~ failed
  BY <1>1, <1>2, ReceiveNext
<1>4. Handled = 2
  BY <1>3, OpOf DEF HInv, HostAt
<1>5. NumPuppets < MaxNumPuppets /\ regs = Cut(InitConfig)
  BY <1>3, <1>4 DEF HInv, Registers
<1>6. h2s' = <<InitConfig>> /\ cfgs' = <<>>
  <2>1. h2s = <<>> /\ cfgs = <<>>
    BY <1>4 DEF HInv, Answer
  <2> QED BY <1>1, <1>2, <1>5, <2>1, CutKeeps
<1>7. pc \notin {"set", "schedule", "end"}
  BY <1>4 DEF HInv, Answer
<1>8. Answer'
  BY <1>2, <1>3, <1>4, <1>6, <1>7 DEF HInv, Answer
<1>9. UNCHANGED <<regs, execPuppets, failed, txns, started, out, given>>
  BY <1>1 DEF hwVars, driverVars
<1>10. Registers'
  BY <1>2, <1>3, <1>4, <1>9 DEF HInv, Registers
<1>11. Delivered' = Delivered
  BY <1>2, <1>3, <1>4 DEF Delivered
<1>12. Driver'
  BY SMTT(30), <1>2, <1>3, <1>4, <1>9, <1>11 DEF HInv, HostAt, Driver
<1> QED BY <1>2, <1>3, <1>8, <1>10, <1>12 DEF HInv

LEMMA setConfigInv == HInv /\ setConfig => HInv'
<1> SUFFICES ASSUME HInv, setConfig PROVE HInv'
  OBVIOUS
<1> DEFINE c == Head(s2h).cfg
<1>1. /\ Receive("setConfig") /\ UNCHANGED <<hostVars, h2s, driverVars>>
      /\ failed' = ~ (c.numPuppets < MaxNumPuppets) /\ regs' = Cut(c)
      /\ execPuppets' = truncate(c.numPuppets)
  BY DEF setConfig, Cut
<1>2. HostAt' /\ UNCHANGED <<num_txns, sim_cycles, txn_cycles, args, pc, i, cfg, cfgs>>
  BY <1>1, HandledNext
<1>3. /\ Underway' /\ Handled' = Handled + 1 /\ Handled \in Nat /\ Handled + 1 <= Sent
      /\ Call(Handled + 1, num_txns, sim_cycles, txn_cycles).op = "setConfig"
      /\ Head(s2h) = Call(Handled + 1, num_txns, sim_cycles, txn_cycles)
      /\ ~ failed
  BY <1>1, <1>2, ReceiveNext
<1>4. Handled \in {1, 3}
  BY <1>3, OpOf DEF HInv, HostAt
<1>5. Answer'
  BY <1>1, <1>3, <1>4, AnswerLater
<1>6. c = IF Handled = 1 THEN InitConfig ELSE Asked(sim_cycles, txn_cycles)
  BY <1>3, <1>4, CallOps DEF HInv, HostAt
<1>7. c.numPuppets = NumPuppets
  BY <1>6 DEF InitConfig, Asked
<1>8. Handled = 3 => NumPuppets < MaxNumPuppets
  BY <1>3 DEF HInv, Registers
<1> HIDE DEF c
<1>9. Registers'
  <2>1. Handled' \in {2, 4} /\ (Handled' = 4 => NumPuppets < MaxNumPuppets)
    BY <1>3, <1>4, <1>8
  <2>2. failed' \in BOOLEAN /\ (failed' <=> ~ (NumPuppets < MaxNumPuppets))
    BY <1>1, <1>7
  <2>3. execPuppets' = truncate(NumPuppets)
    BY <1>1, <1>7
  <2>4. regs' = IF Handled' = 2 THEN Cut(InitConfig) ELSE Cut(Asked(sim_cycles', txn_cycles'))
    BY <1>1, <1>2, <1>3, <1>4, <1>6
  <2>5. regs'.driver = Fake
    BY <2>4 DEF Cut, Asked, InitConfig
  <2> QED BY <2>1, <2>2, <2>3, <2>4, <2>5 DEF Registers
<1>10. Delivered' = Delivered
  BY <1>2, <1>3, <1>4 DEF HInv, HostAt, Delivered
<1>11. Driver'
  BY SMTT(30), <1>1, <1>2, <1>3, <1>4, <1>10 DEF HInv, HostAt, Driver, driverVars
<1> QED BY <1>2, <1>3, <1>5, <1>9, <1>11 DEF HInv

-----------------------------------------------------------------------------
(* The driver.                                                             *)

LEMMA ConcatAppend ==
  ASSUME NEW s \in Seq(Nat), NEW t \in Seq(Nat), NEW x \in Nat
  PROVE  s \o Append(t, x) = Append(s \o t, x)
<1>1. <<x>> \in Seq(Nat)
  OBVIOUS
<1>2. s \o t \in Seq(Nat)
  BY ConcatProperties
<1>3. s \o Append(t, x) = s \o (t \o <<x>>)
  BY AppendIsConcat
<1>4. s \o (t \o <<x>>) = (s \o t) \o <<x>>
  BY <1>1, ConcatAssociative
<1>5. (s \o t) \o <<x>> = Append(s \o t, x)
  BY <1>2, AppendIsConcat
<1> QED BY <1>3, <1>4, <1>5

\* A transaction moves from the memory to the FIFO, and from there on.
LEMMA MovedOut ==
  ASSUME NEW g \in Seq(Nat), NEW x \in Nat
  PROVE  Append(g, x) \o <<>> = g \o <<x>>
<1>1. Append(g, x) \in Seq(Nat) /\ Append(g, x) = g \o <<x>>
  BY AppendProperties, AppendIsConcat
<1> QED BY <1>1, ConcatEmptySeq

LEMMA MovedIn ==
  ASSUME NEW g \in Seq(Nat), NEW t \in Seq(Nat), t # <<>>
  PROVE  /\ Head(t) \in Nat /\ Tail(t) \in Seq(Nat)
         /\ (g \o <<Head(t)>>) \o Tail(t) = (g \o <<>>) \o t
<1>1. Head(t) \in Nat /\ Tail(t) \in Seq(Nat)
  BY HeadTailProperties
<1>2. <<Head(t)>> \in Seq(Nat) /\ <<Head(t)>> \o Tail(t) = t
  BY <1>1
<1>3. (g \o <<Head(t)>>) \o Tail(t) = g \o (<<Head(t)>> \o Tail(t))
  BY SMTT(30), <1>1, <1>2, ConcatAssociative
<1>4. g \o <<>> = g
  BY ConcatEmptySeq
<1> QED BY <1>1, <1>2, <1>3, <1>4

\* One more transaction in the driver's memory.
LEMMA addTransactionInv == HInv /\ addTransaction => HInv'
<1> SUFFICES ASSUME HInv, addTransaction PROVE HInv'
  OBVIOUS
<1>1. /\ Receive("addTransaction") /\ txns' = Append(txns, Head(s2h).txn)
      /\ UNCHANGED <<hostVars, h2s, regs, execPuppets, failed, started, waitTimer,
                     out, given>>
  BY DEF addTransaction
<1>2. HostAt' /\ UNCHANGED <<num_txns, sim_cycles, txn_cycles, args, pc, i, cfg, cfgs>>
  BY <1>1, HandledNext
<1>3. /\ Underway' /\ Handled' = Handled + 1 /\ Handled \in Nat /\ Handled + 1 <= Sent
      /\ Call(Handled + 1, num_txns, sim_cycles, txn_cycles).op = "addTransaction"
      /\ Head(s2h) = Call(Handled + 1, num_txns, sim_cycles, txn_cycles)
      /\ ~ failed
  BY <1>1, <1>2, ReceiveNext
<1>4. num_txns \in Nat /\ Handled + 1 \in 5..(4 + num_txns)
  BY <1>3, OpOf DEF HInv, HostAt
<1>5. Answer'
  BY <1>1, <1>3, <1>4, AnswerLater
<1>6. Registers'
  BY <1>1, <1>2, <1>3, <1>4 DEF HInv, Registers
<1>7. /\ Delivered = Handled - 4 /\ Delivered' = Delivered + 1 /\ Delivered \in Nat
  BY <1>2, <1>3, <1>4 DEF Delivered
<1>8. Head(s2h).txn = Delivered + 1
  BY <1>3, <1>4, <1>7, CallOps
<1>9. given \in Seq(Nat) /\ out[Fake] = <<>> /\ given = <<>> /\ ~ started /\ txns \in Seq(Nat)
  BY <1>4 DEF HInv, Driver
<1>10. Driver'
  <2>1. given \o out[Fake] \in Seq(Nat)
    BY <1>9
  <2>2. given \o out[Fake] \o txns' = Append(given \o out[Fake] \o txns, Delivered + 1)
    BY <1>1, <1>7, <1>8, <1>9, <2>1, ConcatAppend
  <2>3. given \o out[Fake] \o txns = [k \in 1..Delivered |-> k]
    BY DEF HInv, Driver
  <2>4. Append([k \in 1..Delivered |-> k], Delivered + 1) = [k \in 1..(Delivered + 1) |-> k]
    BY <1>7
  <2>5. txns' \in Seq(Nat)
    BY <1>1, <1>7, <1>8, <1>9
  <2> QED BY <1>1, <1>2, <1>7, <1>9, <2>2, <2>3, <2>4, <2>5 DEF HInv, Driver
<1> QED BY <1>2, <1>3, <1>5, <1>6, <1>10 DEF HInv

LEMMA triggerDriverInv == HInv /\ triggerDriver => HInv'
<1> SUFFICES ASSUME HInv, triggerDriver PROVE HInv'
  OBVIOUS
<1>1. /\ Receive("triggerDriver") /\ started' = TRUE
      /\ UNCHANGED <<hostVars, h2s, regs, execPuppets, failed, txns, out, given>>
  BY DEF triggerDriver
<1>2. HostAt' /\ UNCHANGED <<num_txns, sim_cycles, txn_cycles, args, pc, i, cfg, cfgs>>
  BY <1>1, HandledNext
<1>3. /\ Underway' /\ Handled' = Handled + 1 /\ Handled \in Nat /\ Handled + 1 <= Sent
      /\ Call(Handled + 1, num_txns, sim_cycles, txn_cycles).op = "triggerDriver"
      /\ ~ failed
  BY <1>1, <1>2, ReceiveNext
<1>4. num_txns \in Nat /\ Handled + 1 > 4 + num_txns
  BY <1>3, OpOf DEF HInv, HostAt
<1>5. Handled = 4 + num_txns
  BY <1>3, <1>4, SentIs DEF HInv
<1>6. Answer'
  BY <1>1, <1>3, <1>4, AnswerLater
<1>7. Registers'
  BY <1>1, <1>2, <1>3, <1>4 DEF HInv, Registers
<1>8. Delivered' = Delivered
  BY <1>2, <1>3, <1>4, <1>5 DEF Delivered
<1>9. Driver'
  BY SMTT(30), <1>1, <1>2, <1>3, <1>4, <1>5, <1>8 DEF HInv, Driver
<1> QED BY <1>2, <1>3, <1>6, <1>7, <1>9 DEF HInv

\* What the driver does on its own.
LEMMA QuietPortal ==
  ASSUME HInv, UNCHANGED <<hostVars, s2h, h2s, regs, execPuppets, failed, started>>
  PROVE  /\ HostAt' /\ Underway' /\ Registers' /\ Answer'
         /\ UNCHANGED num_txns /\ Handled' = Handled /\ Delivered' = Delivered
<1>1. HostAt' /\ UNCHANGED <<num_txns, sim_cycles, txn_cycles, args, pc, i, cfg, cfgs>>
  BY HandledNext
<1>2. Sent' = Sent
  BY <1>1 DEF Sent
<1>3. Handled' = Handled
  BY <1>2 DEF Handled
<1>4. Delivered' = Delivered
  BY <1>1, <1>3 DEF Delivered
<1>5. Underway'
  BY <1>1, <1>3 DEF HInv, Underway
<1>6. Registers'
  BY <1>1, <1>3 DEF HInv, Registers
<1>7. Answer'
  BY <1>1, <1>3 DEF HInv, Answer
<1> QED BY <1>1, <1>3, <1>4, <1>5, <1>6, <1>7

LEMMA populateInv == HInv /\ populate_txn => HInv'
<1> SUFFICES ASSUME HInv, populate_txn PROVE HInv'
  OBVIOUS
<1>1. /\ started /\ UNCHANGED <<hostVars, s2h, h2s, regs, execPuppets, failed, started, given>>
      /\ \/ UNCHANGED <<txns, out>>
         \/ /\ txns # <<>> /\ out[Fake] = <<>> /\ txns' = Tail(txns)
            /\ out' = [out EXCEPT ![Fake] = <<Head(txns)>>]
  BY DEF populate_txn
<1>2. /\ HostAt' /\ Underway' /\ Registers' /\ Answer'
      /\ UNCHANGED num_txns /\ Handled' = Handled /\ Delivered' = Delivered
  BY <1>1, QuietPortal
<1>3. CASE UNCHANGED <<txns, out>>
  BY <1>1, <1>2, <1>3 DEF HInv, Driver
<1>4. CASE txns # <<>> /\ out[Fake] = <<>> /\ txns' = Tail(txns)
           /\ out' = [out EXCEPT ![Fake] = <<Head(txns)>>]
  <2>1. given \in Seq(Nat) /\ txns \in Seq(Nat) /\ out \in [{Real, Fake} -> Seq(Nat)]
    BY DEF HInv, Driver
  <2>2. /\ Head(txns) \in Nat /\ txns' \in Seq(Nat)
        /\ (given \o <<Head(txns)>>) \o txns' = (given \o out[Fake]) \o txns
    <3>1. /\ Head(txns) \in Nat /\ Tail(txns) \in Seq(Nat)
          /\ (given \o <<Head(txns)>>) \o Tail(txns) = (given \o <<>>) \o txns
      BY <1>4, <2>1, MovedIn
    <3> QED BY <1>4, <3>1
  <2>3. /\ out' \in [{Real, Fake} -> Seq(Nat)] /\ out'[Fake] = <<Head(txns)>>
        /\ out'[Real] = out[Real]
    BY <1>4, <2>1, <2>2 DEF Real, Fake
  <2>4. Driver'
    BY <1>1, <1>2, <2>1, <2>2, <2>3 DEF HInv, Driver
  <2> QED BY <1>2, <2>4 DEF HInv
<1> QED BY <1>1, <1>3, <1>4

LEMMA GiveTxnInv == HInv /\ GiveTxn => HInv'
<1> SUFFICES ASSUME HInv, GiveTxn PROVE HInv'
  OBVIOUS
<1> DEFINE d == regs.driver
<1>1. /\ UNCHANGED <<hostVars, s2h, h2s, regs, execPuppets, failed, txns, started>>
      /\ out[d] # <<>> /\ given' = Append(given, Head(out[d]))
      /\ out' = [out EXCEPT ![d] = Tail(out[d])]
  BY DEF GiveTxn
<1>2. /\ HostAt' /\ Underway' /\ Registers' /\ Answer'
      /\ UNCHANGED num_txns /\ Handled' = Handled /\ Delivered' = Delivered
  BY <1>1, QuietPortal
<1>3. /\ given \in Seq(Nat) /\ txns \in Seq(Nat) /\ out \in [{Real, Fake} -> Seq(Nat)]
      /\ out[Real] = <<>> /\ d \in {Real, Fake}
  BY DEF HInv, Driver, Registers
<1>4. d = Fake
  BY <1>1, <1>3
<1>5. PICK t \in Nat : out[Fake] = <<t>>
  BY <1>1, <1>4 DEF HInv, Driver
<1>6. Head(out[Fake]) = t /\ Tail(out[Fake]) = <<>>
  BY <1>5
<1> HIDE DEF d
<1>7. /\ out' \in [{Real, Fake} -> Seq(Nat)] /\ out'[Fake] = <<>>
      /\ out'[Real] = out[Real]
  BY <1>1, <1>3, <1>4, <1>6 DEF Real, Fake
<1>8. given' = Append(given, t) /\ given' \in Seq(Nat)
  BY <1>1, <1>3, <1>4, <1>5, <1>6, AppendProperties
<1>9. (given' \o out'[Fake]) \o txns' = (given \o out[Fake]) \o txns
  <2>1. Append(given, t) \o <<>> = given \o <<t>>
    BY <1>3, MovedOut
  <2> QED BY <1>1, <1>5, <1>7, <1>8, <2>1
<1>10. started
  BY <1>5 DEF HInv, Driver
<1>11. Driver'
  BY <1>1, <1>2, <1>3, <1>7, <1>8, <1>9, <1>10 DEF HInv, Driver
<1> QED BY <1>2, <1>11 DEF HInv

-----------------------------------------------------------------------------
(* The theorems.                                                           *)

LEMMA HostStart0 == Init => HInv
<1> SUFFICES ASSUME Init PROVE HInv
  OBVIOUS
<1>1. HostAt
  BY HostAssumption DEF Init, HostAt
<1>2. Sent = 0 /\ Handled = 0 /\ Delivered = 0
  BY DEF Init, Sent, Handled, Delivered
<1>3. Underway
  BY <1>2 DEF Init, Underway
<1>4. Registers
  <2>1. failed \in BOOLEAN /\ ~ failed /\ regs.driver \in {Real, Fake}
    BY DEF Init
  <2>2. ~ (Handled >= 2) /\ Handled \notin {2, 3} /\ ~ (Handled >= 4)
    BY <1>2
  <2> QED BY <2>1, <2>2 DEF Registers
<1>5. Answer
  BY <1>2 DEF Init, Answer
<1>6. Driver
  BY <1>2 DEF Init, Driver, Real, Fake
<1> QED BY <1>1, <1>3, <1>4, <1>5, <1>6 DEF HInv

LEMMA HostNext == HInv /\ [Next]_vars => HInv'
<1> SUFFICES ASSUME HInv, [Next]_vars PROVE HInv'
  OBVIOUS
<1>1. CASE Host
  BY <1>1, HostStartInv, HostInitInv, HostWaitInv, HostSetConfigInv, HostScheduleInv
     DEF Host
<1>2. CASE configData
  BY <1>2, configDataInv
<1>3. CASE Portal
  BY <1>3, systemResetInv, fetchConfigInv, setConfigInv, addTransactionInv,
     triggerDriverInv DEF Portal
<1>4. CASE populate_txn
  BY <1>4, populateInv
<1>5. CASE GiveTxn
  BY <1>5, GiveTxnInv
<1>6. CASE UNCHANGED vars
  <2>1. UNCHANGED <<args, s2h, hwVars, pc, i, cfg, cfgs, h2s>>
    BY <1>6 DEF vars, hostVars
  <2>2. HostAt' /\ Sent' = Sent
    BY <2>1 DEF HInv, HostAt, Sent, args
  <2>3. Handled' = Handled
    BY <2>1, <2>2 DEF Handled
  <2>4. Answer'
    BY <2>1, <2>3 DEF HInv, Answer
  <2> QED BY <2>1, <2>2, <2>4, QuietHost
<1> QED BY <1>1, <1>2, <1>3, <1>4, <1>5, <1>6 DEF Next

\* The inductive invariant: what is in the portal are the calls after those
\* handled, and their number tells the registers, the answer and the driver.
THEOREM HostInvariant == Spec => []HInv
BY HostStart0, HostNext, PTL DEF Spec

\* The additions under way are those of the calls not handled yet.
LEMMA AddedUnderway ==
  ASSUME HInv
  PROVE  i - 1 - Cardinality(Added) = Delivered
<1>1. /\ Handled \in Nat /\ Handled <= Sent /\ Sent = Handled + Len(s2h)
      /\ num_txns \in Nat /\ i \in 1..(num_txns + 1) /\ Len(s2h) \in Nat
      /\ s2h \in Seq(Calls(num_txns, sim_cycles, txn_cycles))
  BY HandledAtMost, SentIs, LenProperties DEF HInv, HostAt, Underway, Handled, Calls
<1> DEFINE first == IF Handled < 4 THEN 5 - Handled ELSE 1
           last  == IF pc = "end" THEN 4 + num_txns - Handled ELSE Len(s2h)
<1>2. Added = {k \in 1..Len(s2h) : Handled + k \in 5..(4 + num_txns)}
  <2>1. DOMAIN s2h = 1..Len(s2h)
    BY <1>1, LenProperties
  <2>2. ASSUME NEW k \in 1..Len(s2h)
        PROVE  s2h[k].op = "addTransaction" <=> Handled + k \in 5..(4 + num_txns)
    <3>1. s2h[k] = Call(Handled + k, num_txns, sim_cycles, txn_cycles)
      BY DEF HInv, Underway
    <3> QED BY SMTT(30), <1>1, <3>1, OpOf
  <2> QED BY <2>1, <2>2 DEF Added
<1>3. \/ pc = "end" /\ Sent = 5 + num_txns /\ i = num_txns + 1
      \/ pc = "schedule" /\ Sent = 3 + i
      \/ pc \notin {"schedule", "end"} /\ Sent <= 3 /\ i = 1
  <2>1. HostAt
    BY DEF HInv
  <2> QED BY <2>1, SentIs DEF HostAt
<1>4. Added = first..last
  BY <1>1, <1>2, <1>3
<1>5. first \in Int /\ last \in Int
  BY <1>1
<1>6. Cardinality(Added) = IF first > last THEN 0 ELSE last - first + 1
  <2> HIDE DEF first, last
  <2> QED BY <1>4, <1>5, FS_Interval
<1>7. CASE Handled < 4
  BY <1>1, <1>3, <1>6, <1>7 DEF Delivered
<1>8. CASE Handled \in 4..(4 + num_txns)
  <2>1. first = 1 /\ Delivered = Handled - 4
    BY <1>1, <1>8 DEF Delivered
  <2>2. CASE pc = "end"
    BY <1>1, <1>3, <1>6, <1>8, <2>1, <2>2
  <2>3. CASE pc = "schedule"
    BY <1>1, <1>3, <1>6, <1>8, <2>1, <2>3
  <2> QED BY <1>1, <1>3, <1>8, <2>2, <2>3
<1>9. CASE Handled > 4 + num_txns
  <2>1. Delivered = num_txns /\ pc = "end" /\ first = 1 /\ last < 1
    BY <1>1, <1>3, <1>9 DEF Delivered
  <2> QED BY <1>1, <1>3, <1>6, <2>1
<1> QED BY <1>1, <1>7, <1>8, <1>9

\* The scheduler is given the transactions once and in order, not before the
\* trigger, and under the configuration that the host has set and was told.
THEOREM AsAsked == Spec => []GivenAsAsked
<1>1. HInv => GivenAsAsked
  <2> SUFFICES ASSUME HInv PROVE GivenAsAsked
    OBVIOUS
  <2>1. ToldWhatWasSet
    <3>1. cfg = <<>> \/ cfg = Told
      BY DEF HInv, Answer
    <3>2. ASSUME NEW k \in DOMAIN Told, NEW r \in DOMAIN Told[k]
          PROVE  Told[k][r] = InitConfig[r]
      BY DEF Told, Restrict
    <3> QED BY <3>1, <3>2 DEF ToldWhatWasSet
  <2>2. RunsAsConfigured
    <3> SUFFICES ASSUME started
                 PROVE  /\ regs = Asked(sim_cycles, txn_cycles)
                        /\ execPuppets = regs.numPuppets
      BY DEF RunsAsConfigured
    <3>1. Handled = 5 + num_txns /\ num_txns \in Nat
      BY DEF HInv, HostAt, Driver
    <3>2. /\ NumPuppets < MaxNumPuppets /\ execPuppets = truncate(NumPuppets)
          /\ regs = Cut(Asked(sim_cycles, txn_cycles))
      BY <3>1 DEF HInv, Registers
    <3>3. regs = Asked(sim_cycles, txn_cycles) /\ execPuppets = NumPuppets
      BY <3>2, CutKeeps
    <3>4. Asked(sim_cycles, txn_cycles).numPuppets = NumPuppets
      BY DEF Asked
    <3> QED BY <3>3, <3>4
  <2>3. InOrderOnceTriggered
    <3>1. given \o out[Fake] \o txns = [k \in 1..Delivered |-> k]
      BY DEF HInv, Driver
    <3>2. given # <<>> => pc = "end"
      <4> SUFFICES ASSUME given # <<>> PROVE pc = "end"
        OBVIOUS
      <4>1. Handled = 5 + num_txns /\ HostAt
        BY DEF HInv, Driver
      <4>2. pc \in {"set", "schedule", "end"} \/ Sent <= 3
        BY <4>1, SentIs DEF HostAt
      <4> QED BY <4>1, <4>2, HandledAtMost, SentIs DEF HostAt
    <3> QED BY <3>1, <3>2, AddedUnderway DEF InOrderOnceTriggered
  <2> QED BY <2>1, <2>2, <2>3 DEF GivenAsAsked
<1> QED BY <1>1, HostInvariant, PTL
=============================================================================
