--------------------------- MODULE PipelineProofs ---------------------------
(***************************************************************************)
(* Proofs about the pipeline for any set of goroutines and instruments,    *)
(* any batches, any subset of the gates and any portfolio values: its      *)
(* types and gates, that it implements PositionBook, and that every order  *)
(* the market takes is handed to the recorder exactly once; and about a    *)
(* bot that runs it under RunLifecycle, whose steps are the pipeline's and *)
(* whose stop leaves nothing behind.                                       *)
(***************************************************************************)
EXTENDS TradingBot, PipelineBook, SequenceTheorems, FiniteSetTheorems, TLAPS

LEMMA SignalOfBatch ==
  ASSUME NEW s \in Seq(Instruments), s # <<>>
  PROVE  Head(s) \in Instruments /\ Tail(s) \in Seq(Instruments)
  BY HeadTailProperties

-----------------------------------------------------------------------------
(* Type correctness.                                                       *)

LEMMA InitType == Init => TypeOK
  <1> SUFFICES ASSUME Init PROVE TypeOK
    OBVIOUS
  <1>1. startOfDayValue \in Int /\ currentValue \in Int /\ triggered \in BOOLEAN
    BY PipelineAssumption DEF Init, NewKillSwitch
  <1>2. batch \in [Workers -> Seq(Instruments)]
    BY EmptySeq DEF Init
  <1>3. cfg \in ConfigType /\ positions \subseteq Instruments /\ settled \subseteq Instruments
    BY PipelineAssumption DEF Init, NewPositionGuard
  <1>4. /\ order \in [Workers -> Instruments \union {None}]
        /\ reply \in [Workers -> Refusal \union {Live, None}]
        /\ late \in [Workers -> Nat]
        /\ exposure \in [Instruments -> Nat]
        /\ unbooked \in [Instruments -> Int]
        /\ adrift \in [Instruments -> Nat]
        /\ strays \in [Instruments -> Nat]
    BY DEF Init
  <1>5. pc \in [Workers -> Labels] /\ \A w \in Workers : pc[w] = "select"
    BY DEF Init, Labels
  <1>6. QED
    <2>1. ctxDone \in BOOLEAN
      BY DEF Init
    <2>2. QED
      BY <1>1, <1>2, <1>3, <1>4, <1>5, <2>1 DEF TypeOK, InSignal

LEMMA ProceedType ==
  ASSUME TypeOK, NEW w \in Workers, NEW from, NEW to \in Labels,
         Proceed(w, from, to),
         to \in InSignal => batch[w] # <<>>,
         to \in {"execute", "sent", "returned", "settle"} => order[w] \in Instruments
  PROVE  TypeOK'
  BY SMT DEF TypeOK, Proceed, Jump, ksVars, marketVars

LEMMA FinishType ==
  ASSUME TypeOK, NEW w \in Workers, NEW from \in InSignal,
         Finish(w, from), positions' \subseteq Instruments
  PROVE  TypeOK'
  <1>1. Tail(batch[w]) \in Seq(Instruments)
    BY SignalOfBatch DEF TypeOK, Finish, Jump
  <1>2. pc' = [pc EXCEPT ![w] = "next"]
    BY DEF Finish, Jump
  <1>3. pc' \in [Workers -> Labels]
    BY <1>2 DEF TypeOK, Labels
  <1>4. QED
    BY <1>1, <1>2, <1>3, SMT DEF TypeOK, Finish, ksVars, marketVars, InSignal, Labels

LEMMA LoopType ==
  ASSUME TypeOK, NEW w \in Workers, NEW b \in Batches,
         Receive(w, b) \/ Generated(w, b)
  PROVE  TypeOK'
  <1>1. b \in Seq(Instruments)
    BY PipelineAssumption
  <1>2. pc' = [pc EXCEPT ![w] = "next"] /\ batch' = [batch EXCEPT ![w] = b]
    BY DEF Receive, Generated, Jump
  <1>3. UNCHANGED <<ksVars, positions, cfg, ctxDone, order, reply, late, marketVars>>
    BY DEF Receive, Generated
  <1>4. QED
    BY <1>1, <1>2, <1>3, SMT DEF TypeOK, ksVars, marketVars, InSignal, Labels

LEMMA TradeType ==
  ASSUME TypeOK, NEW w \in Workers,
         \/ GuardGrants(w)
         \/ \E i \in Instruments : Approved(w, i)
         \/ NotSent(w) \/ OrderTaken(w) \/ CutOff(w)
         \/ \E r \in Refusals : OrderRefused(w, r)
         \/ RecordTrade(w)
  PROVE  TypeOK'
  <1>1. CASE GuardGrants(w)
    <2>1. Sig(w) \in Instruments
      BY <1>1, SignalOfBatch DEF GuardGrants, Jump, TypeOK, InSignal, Labels, Sig
    <2>2. positions' \subseteq Instruments
      BY <1>1, <2>1 DEF GuardGrants, Acquire, TypeOK
    <2>3. PICK l \in {"dryrun", "evaluate"} : pc' = [pc EXCEPT ![w] = l]
      BY <1>1 DEF GuardGrants, Jump
    <2>4. pc[w] = "acquire"
      BY <1>1 DEF GuardGrants, Jump
    <2>5. UNCHANGED <<ksVars, cfg, ctxDone, batch, order, reply, late, marketVars>>
      BY <1>1 DEF GuardGrants
    <2>6. QED
      BY <2>2, <2>3, <2>4, <2>5, SMTT(30) DEF TypeOK, ksVars, marketVars, InSignal, Labels
  <1>2. CASE \E i \in Instruments : Approved(w, i)
    BY <1>2, SMT DEF Approved, Jump, TypeOK, ksVars, marketVars, InSignal, Labels
  <1>3. CASE OrderTaken(w)
    <2>1. /\ pc[w] = "sent" /\ pc' = [pc EXCEPT ![w] = "returned"]
          /\ exposure' = [exposure EXCEPT ![order[w]] = @ + 1]
          /\ unbooked' = [unbooked EXCEPT ![order[w]] = @ + 1]
          /\ \E r \in {Live, "error"} : reply' = [reply EXCEPT ![w] = r]
          /\ UNCHANGED <<ksVars, positions, cfg, ctxDone, batch, order, late, adrift, strays,
                         settled>>
      BY <1>3 DEF OrderTaken, Jump
    <2>2. /\ reply' \in [Workers -> Refusal \union {Live, None}]
          /\ exposure' \in [Instruments -> Nat] /\ unbooked' \in [Instruments -> Int]
      BY <2>1 DEF TypeOK, Refusal
    <2>3. pc' \in [Workers -> Labels] /\ pc'[w] = "returned" /\ order[w] \in Instruments
      BY <2>1 DEF TypeOK, Labels
    <2>4. \A v \in Workers :
             /\ pc'[v] \in InSignal => batch'[v] # <<>>
             /\ pc'[v] \in {"execute", "sent", "returned", "settle"} => order'[v] \in Instruments
      BY <2>1, <2>3 DEF TypeOK, InSignal, Labels
    <2>5. QED
      BY <2>1, <2>2, <2>3, <2>4 DEF TypeOK, ksVars
  <1>4. CASE \E r \in Refusals : OrderRefused(w, r)
    BY <1>4, PipelineAssumption, SMTT(30)
       DEF OrderRefused, Jump, TypeOK, ksVars, marketVars, InSignal, Labels, Refusal
  <1>5. CASE RecordTrade(w)
    <2>1. Sig(w) \in Instruments
      BY <1>5, SignalOfBatch DEF RecordTrade, Jump, TypeOK, InSignal, Labels, Sig
    <2>2. QED
      BY <1>5, <2>1, SMT DEF RecordTrade, Jump, TypeOK, ksVars, marketVars, InSignal, Labels
  <1>6. CASE NotSent(w)
    BY <1>6, SMT DEF NotSent, Jump, TypeOK, ksVars, marketVars, InSignal, Labels, Refusal
  <1>7. CASE CutOff(w)
    <2>1. /\ pc[w] = "sent" /\ pc' = [pc EXCEPT ![w] = "returned"]
          /\ adrift' = [adrift EXCEPT ![order[w]] = @ + 1]
          /\ reply' = [reply EXCEPT ![w] = "error"]
          /\ UNCHANGED <<ksVars, positions, cfg, ctxDone, batch, order, late, exposure,
                         unbooked, strays, settled>>
      BY <1>7 DEF CutOff, Jump
    <2>2. QED
      BY <2>1, SMTT(60) DEF TypeOK, ksVars, InSignal, Labels, Refusal
  <1>8. QED
    BY <1>1, <1>2, <1>3, <1>4, <1>5, <1>6, <1>7

LEMMA WorkerType ==
  ASSUME TypeOK, NEW w \in Workers, Worker(w)
  PROVE  TypeOK'
  <1> USE DEF InSignal, Labels
  <1>1. CASE \E b \in Batches : Receive(w, b) \/ Generated(w, b)
    BY <1>1, LoopType
  <1>2. CASE ChannelClosed(w) \/ Tick(w) \/ Done(w) \/ GenerateFails(w) \/ BatchEnd(w)
    BY <1>2, ProceedType DEF ChannelClosed, Tick, Done, GenerateFails, BatchEnd
  <1>3. CASE NextSignal(w)
    BY <1>3, ProceedType DEF NextSignal
  <1>4. CASE KillSwitchPasses(w) \/ RecordDryRun(w) \/ Rejected(w)
             \/ Send(w) \/ ExecuteFailed(w) \/ FailedStatus(w)
    <2>1. batch[w] # <<>> /\ (Send(w) => order[w] \in Instruments)
      BY <1>4 DEF KillSwitchPasses, RecordDryRun, Rejected, Send, ExecuteFailed, FailedStatus,
                  Proceed, Jump, TypeOK
    <2>2. QED
      BY <1>4, <2>1, ProceedType
         DEF KillSwitchPasses, RecordDryRun, Rejected, Send, ExecuteFailed, FailedStatus
  <1>5. CASE KillSwitchSkips(w) \/ GuardRefuses(w) \/ KeepPosition(w)
    BY <1>5, FinishType DEF KillSwitchSkips, GuardRefuses, KeepPosition, TypeOK
  <1>6. CASE ReleaseGuard(w)
    <2>1. positions' \subseteq Instruments
      BY <1>6 DEF ReleaseGuard, Release, TypeOK
    <2>2. QED
      BY <1>6, <2>1, FinishType DEF ReleaseGuard
  <1>7. CASE \/ GuardGrants(w)
             \/ \E i \in Instruments : Approved(w, i)
             \/ NotSent(w) \/ OrderTaken(w) \/ CutOff(w)
             \/ \E r \in Refusals : OrderRefused(w, r)
             \/ RecordTrade(w)
    BY <1>7, TradeType
  <1>8. QED
    BY <1>1, <1>2, <1>3, <1>4, <1>5, <1>6, <1>7 DEF Worker, Progress

LEMMA EnvironmentType ==
  ASSUME TypeOK,
         \/ Cancel
         \/ Monitor
         \/ \E i \in Instruments : PositionEnds(i) \/ BotReleases(i) \/ StrayTaken(i)
  PROVE  TypeOK'
  <1>1. CASE Cancel
    BY <1>1, SMT DEF Cancel, TypeOK, ksVars, workerVars, marketVars
  <1>2. CASE Monitor
    <2>1. /\ startOfDayValue' \in Int /\ currentValue' \in Int /\ triggered' \in BOOLEAN
          /\ late' \in [Workers -> Nat]
      <3>1. CASE \E v \in PortfolioValues : UpdatePortfolioValue(v) /\ UNCHANGED late
        <4>1. PICK v \in PortfolioValues : UpdatePortfolioValue(v) /\ UNCHANGED late
          BY <3>1
        <4>2. triggered' \in BOOLEAN
          BY <4>1 DEF UpdatePortfolioValue, TypeOK, Breached
        <4>3. QED
          BY <4>1, <4>2, PipelineAssumption DEF UpdatePortfolioValue, TypeOK
      <3>2. CASE TriggerSilently /\ UNCHANGED late
        BY <3>2 DEF TriggerSilently, TypeOK
      <3>3. CASE \E v \in PortfolioValues : ResetDaily(v) /\ late' = [w \in Workers |-> 0]
        <4>1. startOfDayValue' \in Int /\ currentValue' \in Int
          BY <3>3, PipelineAssumption DEF ResetDaily
        <4>2. late' \in [Workers -> Nat]
          BY <3>3
        <4>3. triggered' \in BOOLEAN
          BY <3>3 DEF ResetDaily
        <4>4. QED
          BY <4>1, <4>2, <4>3
      <3>4. QED
        BY <1>2, <3>1, <3>2, <3>3 DEF Monitor
    <2>2. UNCHANGED <<positions, cfg, ctxDone, pc, batch, order, reply, marketVars>>
      BY <1>2 DEF Monitor
    <2>3. QED
      BY <2>1, <2>2, SMT DEF TypeOK, marketVars
  <1>3. CASE \E i \in Instruments : PositionEnds(i)
    BY <1>3, SMT DEF PositionEnds, TypeOK, ksVars, workerVars
  <1>4. CASE \E i \in Instruments : BotReleases(i)
    BY <1>4, SMT DEF BotReleases, Release, TypeOK, ksVars, workerVars
  <1>5. CASE \E i \in Instruments : StrayTaken(i)
    BY <1>5, SMT DEF StrayTaken, TypeOK, ksVars, workerVars
  <1>6. QED
    BY <1>1, <1>2, <1>3, <1>4, <1>5

LEMMA StutterType == ASSUME TypeOK, UNCHANGED vars PROVE TypeOK'
  BY DEF TypeOK, vars, ksVars, workerVars, marketVars

LEMMA NextType == TypeOK /\ [Next]_vars => TypeOK'
  BY WorkerType, EnvironmentType, StutterType DEF Next, Terminated

\* Every variable stays in its type whatever the workers, the market, the
\* monitor and the lifecycle do; in particular a worker inside processSignal
\* always has the signal it is processing.
THEOREM TypeCorrect == Spec => []TypeOK
  BY InitType, NextType, PTL DEF Spec

-----------------------------------------------------------------------------
(* Mutual exclusion and no double entry.  NoDoubleEntry is not inductive:  *)
(* that an order finds nothing at the market depends on who holds the      *)
(* guard, and that a Release frees nobody else's claim depends on which    *)
(* positions have ended.                                                   *)

\* What the guard's set means: a live or ended position is in it, a live one
\* is single and has not ended.
PositionsGuarded ==
    \A i \in Instruments :
        /\ exposure[i] <= 1
        /\ exposure[i] > 0 => i \in positions /\ i \notin settled
        /\ i \in settled => i \in positions

OrderIsSignal ==
    \A w \in Workers : pc[w] \in {"execute", "sent", "returned", "settle"} => order[w] = Sig(w)

Claimed(w) ==
    /\ Sig(w) \in positions
    /\ exposure[Sig(w)] = 0
    /\ Sig(w) \notin settled

ClaimsDisjoint ==
    \A w \in Workers : HoldsClaim(w) =>
        /\ Claimed(w)
        /\ \A v \in Workers \ {w} : HoldsClaim(v) => Sig(v) # Sig(w)

GuardInv == TypeOK /\ (cfg.guard => PositionsGuarded /\ OrderIsSignal /\ ClaimsDisjoint)

LateInv ==
    \A w \in Workers :
        /\ late[w] <= 1
        /\ late[w] = 1 => /\ cfg.killSwitch
                          /\ triggered
                          /\ pc[w] \notin {"acquire", "dryrun", "evaluate"}

OthersUnchanged(w) ==
    \A v \in Workers \ {w} : /\ pc'[v] = pc[v]
                             /\ batch'[v] = batch[v]
                             /\ order'[v] = order[v]
                             /\ reply'[v] = reply[v]

LEMMA WorkerStepIsLocal ==
  ASSUME TypeOK, NEW w \in Workers, Worker(w)
  PROVE  OthersUnchanged(w) /\ UNCHANGED cfg
  BY SMT DEF TypeOK, OthersUnchanged, Worker, Progress, Receive, ChannelClosed, Tick, Done,
     GenerateFails, NextSignal, BatchEnd, Generated, KillSwitchSkips, KillSwitchPasses,
     GuardRefuses, GuardGrants, RecordDryRun, Rejected, Approved, NotSent, Send, OrderTaken, OrderRefused, CutOff,
     ExecuteFailed, RecordTrade, FailedStatus, KeepPosition, ReleaseGuard,
     Proceed, Finish, Jump

LEMMA OthersKeepClaims ==
  ASSUME NEW w \in Workers, OthersUnchanged(w), NEW v \in Workers \ {w}
  PROVE  /\ HoldsClaim(v)' <=> HoldsClaim(v)
         /\ Sig(v)' = Sig(v)
         /\ pc'[v] = pc[v] /\ order'[v] = order[v]
  BY DEF OthersUnchanged, HoldsClaim, Sig

\* A step that touches neither the guard nor the market, and by which the
\* worker acquires no claim.
LEMMA QuietStep ==
  ASSUME GuardInv, TypeOK', cfg.guard, NEW w \in Workers, OthersUnchanged(w),
         UNCHANGED <<cfg, positions, exposure, settled>>,
         HoldsClaim(w)' => HoldsClaim(w) /\ Sig(w)' = Sig(w),
         pc'[w] \in {"execute", "sent", "returned", "settle"} => order'[w] = Sig(w)'
  PROVE  GuardInv'
  <1>1. PositionsGuarded'
    BY DEF GuardInv, PositionsGuarded
  <1>2. OrderIsSignal'
    BY OthersKeepClaims DEF GuardInv, OrderIsSignal
  <1>3. ASSUME NEW v \in Workers, HoldsClaim(v)'
        PROVE  HoldsClaim(v) /\ Sig(v)' = Sig(v)
    BY <1>3, OthersKeepClaims
  <1>4. ClaimsDisjoint'
    BY <1>3 DEF GuardInv, ClaimsDisjoint, Claimed
  <1>5. QED
    BY <1>1, <1>2, <1>4 DEF GuardInv

\* The steps of a worker that QuietStep covers.
LEMMA QuietWorker ==
  ASSUME GuardInv, TypeOK', cfg.guard, KeepsInstrument, NEW w \in Workers, Worker(w),
         ~GuardGrants(w), ~OrderTaken(w), ~ReleaseGuard(w)
  PROVE  GuardInv'
  <1>1. OthersUnchanged(w) /\ UNCHANGED cfg
    BY WorkerStepIsLocal DEF GuardInv
  <1> DEFINE Quiet == /\ UNCHANGED <<positions, exposure, settled>>
                      /\ HoldsClaim(w)' => HoldsClaim(w) /\ Sig(w)' = Sig(w)
                      /\ pc'[w] \in {"execute", "sent", "returned", "settle"} => order'[w] = Sig(w)'
  <1>2. CASE \/ \E b \in Batches : Receive(w, b) \/ Generated(w, b)
             \/ KillSwitchSkips(w) \/ GuardRefuses(w) \/ KeepPosition(w)
    <2>1. pc'[w] = "next" /\ UNCHANGED <<positions, exposure, settled>>
      BY <1>2 DEF Receive, Generated, KillSwitchSkips, GuardRefuses, KeepPosition,
                  Finish, Jump, marketVars, GuardInv, TypeOK
    <2>2. Quiet
      BY <2>1 DEF HoldsClaim
    <2>3. QED
      BY <1>1, <2>2, QuietStep
  <1>3. CASE \/ ChannelClosed(w) \/ Tick(w) \/ Done(w) \/ GenerateFails(w) \/ BatchEnd(w)
             \/ NextSignal(w) \/ KillSwitchPasses(w)
    <2>1. pc'[w] \in {"stopped", "generate", "select", "gate", "acquire"}
      BY <1>3 DEF ChannelClosed, Tick, Done, GenerateFails, BatchEnd, NextSignal,
                  KillSwitchPasses, Proceed, Jump, GuardInv, TypeOK
    <2>2. UNCHANGED <<positions, exposure, settled>>
      BY <1>3 DEF ChannelClosed, Tick, Done, GenerateFails, BatchEnd, NextSignal,
                  KillSwitchPasses, Proceed, marketVars
    <2>3. Quiet
      BY <2>1, <2>2 DEF HoldsClaim
    <2>4. QED
      BY <1>1, <2>3, QuietStep
  <1>4. CASE RecordDryRun(w) \/ Rejected(w) \/ ExecuteFailed(w) \/ FailedStatus(w)
    <2>1. pc'[w] = "release" /\ UNCHANGED <<batch, positions, exposure, settled>>
      BY <1>4 DEF RecordDryRun, Rejected, ExecuteFailed, FailedStatus,
                  Proceed, Jump, marketVars, GuardInv, TypeOK
    <2>2. HoldsClaim(w)
      BY <1>4 DEF RecordDryRun, Rejected, ExecuteFailed, FailedStatus,
                  Proceed, Jump, HoldsClaim
    <2>3. Quiet
      BY <2>1, <2>2 DEF Sig
    <2>4. QED
      BY <1>1, <2>3, QuietStep
  <1>5. CASE \E i \in Instruments : Approved(w, i)
    <2>1. PICK i \in Instruments : Approved(w, i)
      BY <1>5
    <2>2. Sig(w) \in Instruments
      BY <2>1, SignalOfBatch DEF Approved, Jump, GuardInv, TypeOK, InSignal, Labels, Sig
    <2>3. i = Sig(w)
      BY <2>1, <2>2 DEF Approved, KeepsInstrument
    <2>4. order'[w] = i /\ UNCHANGED <<batch, positions, exposure, settled>>
      BY <2>1 DEF Approved, marketVars, GuardInv, TypeOK
    <2>5. HoldsClaim(w)
      BY <2>1 DEF Approved, Jump, HoldsClaim
    <2>6. Quiet
      BY <2>3, <2>4, <2>5 DEF Sig
    <2>7. QED
      BY <1>1, <2>6, QuietStep
  <1>6. CASE \/ NotSent(w) \/ Send(w) \/ CutOff(w) \/ RecordTrade(w)
             \/ \E r \in Refusals : OrderRefused(w, r)
    <2>1. /\ UNCHANGED <<batch, order, positions, exposure, settled>>
          /\ pc[w] \in {"execute", "sent", "returned"}
      BY <1>6 DEF NotSent, Send, CutOff, OrderRefused, RecordTrade, Proceed, marketVars, Jump
    <2>2. order'[w] = Sig(w)'
      BY <2>1 DEF GuardInv, OrderIsSignal, Sig
    <2>3. HoldsClaim(w)' => HoldsClaim(w)
      BY <1>6 DEF NotSent, Send, CutOff, OrderRefused, RecordTrade, Proceed, Jump, HoldsClaim,
                  GuardInv, TypeOK
    <2>4. Quiet
      BY <2>1, <2>2, <2>3 DEF Sig
    <2>5. QED
      BY <1>1, <2>4, QuietStep
  <1>7. QED
    BY <1>2, <1>3, <1>4, <1>5, <1>6 DEF Worker, Progress

LEMMA GrantStep ==
  ASSUME GuardInv, TypeOK', cfg.guard, NEW w \in Workers, GuardGrants(w), OthersUnchanged(w)
  PROVE  GuardInv'
  <1>1. /\ Sig(w) \notin positions
        /\ positions' = positions \union {Sig(w)}
        /\ UNCHANGED <<cfg, batch, order, exposure, settled>>
        /\ pc'[w] \in {"dryrun", "evaluate"}
    BY DEF GuardGrants, Acquire, IsActive, Jump, marketVars, GuardInv, TypeOK
  <1>2. Sig(w) \in Instruments /\ Sig(w)' = Sig(w)
    BY <1>1, SignalOfBatch DEF GuardGrants, Jump, GuardInv, TypeOK, InSignal, Labels, Sig
  <1>3. exposure[Sig(w)] = 0 /\ Sig(w) \notin settled
    BY <1>1, <1>2 DEF GuardInv, PositionsGuarded, TypeOK
  <1>4. PositionsGuarded'
    BY <1>1 DEF GuardInv, PositionsGuarded
  <1>5. OrderIsSignal'
    BY <1>1, OthersKeepClaims DEF GuardInv, OrderIsSignal
  <1>6. \A v \in Workers \ {w} : HoldsClaim(v) => Sig(v) # Sig(w)
    BY <1>1 DEF GuardInv, ClaimsDisjoint, Claimed
  <1>7. ASSUME NEW v \in Workers, HoldsClaim(v)' PROVE Claimed(v)'
    BY <1>1, <1>2, <1>3, <1>7, OthersKeepClaims DEF GuardInv, ClaimsDisjoint, Claimed
  <1>8. ClaimsDisjoint'
    BY <1>2, <1>6, <1>7, OthersKeepClaims DEF GuardInv, ClaimsDisjoint
  <1>9. QED
    BY <1>1, <1>4, <1>5, <1>8 DEF GuardInv

LEMMA TakenStep ==
  ASSUME GuardInv, TypeOK', cfg.guard, ~LostReplies, NEW w \in Workers, OrderTaken(w),
         OthersUnchanged(w)
  PROVE  GuardInv'
  <1>1. HoldsClaim(w) /\ order[w] = Sig(w) /\ Claimed(w)
    BY DEF OrderTaken, Jump, HoldsClaim, GuardInv, OrderIsSignal, ClaimsDisjoint
  <1>2. /\ exposure' = [exposure EXCEPT ![Sig(w)] = 1]
        /\ UNCHANGED <<cfg, positions, batch, order, settled>>
        /\ pc'[w] = "returned" /\ reply'[w] = Live
    BY <1>1 DEF OrderTaken, Jump, Claimed, GuardInv, TypeOK
  <1>3. ~HoldsClaim(w)'
    BY <1>2 DEF HoldsClaim, Live
  <1>4. PositionsGuarded'
    <2>1. PositionsGuarded /\ exposure \in [Instruments -> Nat]
      BY DEF GuardInv, TypeOK
    <2>2. Sig(w) \in positions /\ Sig(w) \notin settled
      BY <1>1 DEF Claimed
    <2>3. \A i \in Instruments : exposure'[i] = IF i = Sig(w) THEN 1 ELSE exposure[i]
      BY <1>2, <2>1
    <2>4. QED
      BY <1>2, <2>1, <2>2, <2>3 DEF PositionsGuarded
  <1>5. OrderIsSignal'
    BY <1>1, <1>2, OthersKeepClaims DEF GuardInv, OrderIsSignal, Sig
  <1>6. ASSUME NEW v \in Workers, HoldsClaim(v)'
        PROVE  v # w /\ HoldsClaim(v) /\ Sig(v)' = Sig(v) /\ Sig(v) # Sig(w)
    BY <1>1, <1>3, <1>6, OthersKeepClaims DEF GuardInv, ClaimsDisjoint
  <1>7. ASSUME NEW v \in Workers, HoldsClaim(v)' PROVE Claimed(v)'
    BY <1>2, <1>6, <1>7 DEF GuardInv, ClaimsDisjoint, Claimed, TypeOK
  <1>8. ClaimsDisjoint'
    BY <1>6, <1>7 DEF GuardInv, ClaimsDisjoint
  <1>9. QED
    BY <1>2, <1>4, <1>5, <1>8 DEF GuardInv

LEMMA ReleaseStep ==
  ASSUME GuardInv, TypeOK', cfg.guard, NEW w \in Workers, ReleaseGuard(w), OthersUnchanged(w)
  PROVE  GuardInv'
  <1>1. HoldsClaim(w) /\ Claimed(w)
    BY DEF ReleaseGuard, Finish, Jump, HoldsClaim, GuardInv, ClaimsDisjoint
  <1>2. /\ positions' = positions \ {Sig(w)}
        /\ UNCHANGED <<cfg, exposure, settled>>
        /\ pc'[w] = "next"
    BY DEF ReleaseGuard, Release, Finish, Jump, marketVars, GuardInv, TypeOK
  <1>3. ~HoldsClaim(w)'
    BY <1>2 DEF HoldsClaim
  <1>4. PositionsGuarded'
    BY <1>1, <1>2 DEF GuardInv, PositionsGuarded, Claimed
  <1>5. OrderIsSignal'
    BY <1>2, OthersKeepClaims DEF GuardInv, OrderIsSignal
  <1>6. ASSUME NEW v \in Workers, HoldsClaim(v)'
        PROVE  v # w /\ HoldsClaim(v) /\ Sig(v)' = Sig(v) /\ Sig(v) # Sig(w)
    BY <1>1, <1>3, <1>6, OthersKeepClaims DEF GuardInv, ClaimsDisjoint
  <1>7. ClaimsDisjoint'
    BY <1>2, <1>6 DEF GuardInv, ClaimsDisjoint, Claimed
  <1>8. QED
    BY <1>2, <1>4, <1>5, <1>7 DEF GuardInv

\* A step of the lifecycle, the monitor, the market or the bot moves no worker.
LEMMA EnvironmentGuard ==
  ASSUME GuardInv, TypeOK', cfg.guard,
         \/ Cancel
         \/ Monitor
         \/ \E i \in Instruments : PositionEnds(i) \/ BotReleases(i) \/ StrayTaken(i)
  PROVE  GuardInv'
  <1>1. UNCHANGED <<cfg, pc, batch, order, reply>>
    BY DEF Cancel, Monitor, PositionEnds, BotReleases, StrayTaken, workerVars
  <1>2. OrderIsSignal'
    BY <1>1 DEF GuardInv, OrderIsSignal, Sig
  <1>3. ASSUME NEW v \in Workers PROVE (HoldsClaim(v)' <=> HoldsClaim(v)) /\ Sig(v)' = Sig(v)
    BY <1>1 DEF HoldsClaim, Sig
  <1>4. CASE Cancel \/ Monitor \/ \E i \in Instruments : StrayTaken(i)
    <2>1. UNCHANGED <<positions, exposure, settled>>
      BY <1>4 DEF Cancel, Monitor, StrayTaken, marketVars
    <2>2. PositionsGuarded' /\ ClaimsDisjoint'
      BY <2>1, <1>3 DEF GuardInv, PositionsGuarded, ClaimsDisjoint, Claimed
    <2>3. QED
      BY <1>1, <1>2, <2>2 DEF GuardInv
  <1>5. CASE \E i \in Instruments : PositionEnds(i)
    <2>1. PICK i \in Instruments : PositionEnds(i)
      BY <1>5
    <2>2. /\ exposure[i] = 1
          /\ exposure' = [exposure EXCEPT ![i] = 0]
          /\ settled' = settled \union {i}
          /\ UNCHANGED positions
      <3>1. exposure[i] = 1
        BY <2>1 DEF PositionEnds, GuardInv, PositionsGuarded, TypeOK
      <3>2. exposure' = [exposure EXCEPT ![i] = exposure[i] - 1]
        BY <2>1 DEF PositionEnds
      <3>3. QED
        BY <2>1, <3>1, <3>2 DEF PositionEnds
    <2>3. PositionsGuarded'
      BY <2>2 DEF GuardInv, PositionsGuarded, TypeOK
    <2>4. \A v \in Workers : HoldsClaim(v) => Sig(v) # i
      BY <2>2 DEF GuardInv, ClaimsDisjoint, Claimed
    <2>5. ClaimsDisjoint'
      BY <1>3, <2>2, <2>4 DEF GuardInv, ClaimsDisjoint, Claimed, TypeOK
    <2>6. QED
      BY <1>1, <1>2, <2>3, <2>5 DEF GuardInv
  <1>6. CASE \E i \in Instruments : BotReleases(i)
    <2>1. PICK i \in Instruments : BotReleases(i)
      BY <1>6
    <2>2. /\ i \in settled
          /\ settled' = settled \ {i}
          /\ positions' = positions \ {i}
          /\ UNCHANGED exposure
      BY <2>1 DEF BotReleases, Release
    <2>3. PositionsGuarded'
      BY <2>2 DEF GuardInv, PositionsGuarded
    <2>4. \A v \in Workers : HoldsClaim(v) => Sig(v) # i
      BY <2>2 DEF GuardInv, ClaimsDisjoint, Claimed
    <2>5. ClaimsDisjoint'
      BY <1>3, <2>2, <2>4 DEF GuardInv, ClaimsDisjoint, Claimed
    <2>6. QED
      BY <1>1, <1>2, <2>3, <2>5 DEF GuardInv
  <1>7. QED
    BY <1>4, <1>5, <1>6

LEMMA InitGuard == Init => GuardInv
  <1> SUFFICES ASSUME Init PROVE GuardInv
    OBVIOUS
  <1>1. PositionsGuarded
    BY DEF Init, PositionsGuarded
  <1>2. OrderIsSignal /\ ClaimsDisjoint
    BY DEF Init, OrderIsSignal, ClaimsDisjoint, HoldsClaim
  <1>3. QED
    BY <1>1, <1>2, InitType DEF GuardInv

LEMMA NextGuard ==
  ASSUME KeepsInstrument, ~LostReplies, GuardInv, [Next]_vars
  PROVE  GuardInv'
  <1>1. TypeOK'
    BY NextType DEF GuardInv
  <1>2. ASSUME NEW w \in Workers, Worker(w) PROVE GuardInv'
    <2>1. OthersUnchanged(w) /\ UNCHANGED cfg
      BY <1>2, WorkerStepIsLocal DEF GuardInv
    <2>2. CASE cfg.guard
      BY <1>1, <1>2, <2>1, <2>2, QuietWorker, GrantStep, TakenStep, ReleaseStep
    <2>3. CASE ~cfg.guard
      BY <1>1, <2>1, <2>3 DEF GuardInv
    <2>4. QED
      BY <2>2, <2>3
  <1>3. ASSUME \/ Cancel
               \/ Monitor
               \/ \E i \in Instruments : PositionEnds(i) \/ BotReleases(i) \/ StrayTaken(i)
        PROVE  GuardInv'
    <2>1. UNCHANGED cfg
      BY <1>3 DEF Cancel, Monitor, PositionEnds, BotReleases, StrayTaken
    <2>2. CASE cfg.guard
      BY <1>1, <1>3, <2>2, EnvironmentGuard
    <2>3. CASE ~cfg.guard
      BY <1>1, <2>1, <2>3 DEF GuardInv
    <2>4. QED
      BY <2>2, <2>3
  <1>4. CASE UNCHANGED vars
    BY <1>4, <1>1 DEF vars, workerVars, marketVars, GuardInv, PositionsGuarded,
       OrderIsSignal, ClaimsDisjoint, Claimed, HoldsClaim, Sig
  <1>5. QED
    BY <1>2, <1>3, <1>4 DEF Next, Terminated

(* Requests adrift.  The guard is given back for them, so that nothing else *)
(* is sent on their instrument depends on why they are adrift: the context  *)
(* is done and the executor looks at it.                                    *)

AdriftInv ==
    \A i \in Instruments : adrift[i] + strays[i] > 0 =>
        /\ adrift[i] + strays[i] = 1
        /\ exposure[i] = 0
        /\ cfg.aborts /\ ctxDone
        /\ \A w \in Workers : pc[w] = "sent" => order[w] # i

\* A step by which nothing goes adrift or becomes live, and no request is sent.
LEMMA AdriftKept ==
  ASSUME AdriftInv, TypeOK, TypeOK', UNCHANGED <<cfg, adrift, strays>>, ctxDone => ctxDone',
         \A i \in Instruments : exposure[i] = 0 => exposure'[i] = 0,
         \A w \in Workers : pc'[w] = "sent" => pc[w] = "sent" /\ order'[w] = order[w]
  PROVE  AdriftInv'
  BY DEF AdriftInv, TypeOK

LEMMA WorkerAdrift ==
  ASSUME GuardInv, AdriftInv, TypeOK', cfg.guard, NEW w \in Workers, Worker(w)
  PROVE  AdriftInv'
  <1>1. OthersUnchanged(w) /\ UNCHANGED <<cfg, ctxDone>>
    BY WorkerStepIsLocal
       DEF GuardInv, Worker, Progress, Receive, ChannelClosed, Tick, Done,
           GenerateFails, NextSignal, BatchEnd, Generated, KillSwitchSkips, KillSwitchPasses,
           GuardRefuses, GuardGrants, RecordDryRun, Rejected, Approved, NotSent, Send, OrderTaken,
           OrderRefused, CutOff, ExecuteFailed, RecordTrade, FailedStatus, KeepPosition,
           ReleaseGuard, Proceed, Finish
  <1>2. CASE Send(w)
    <2>1. pc' = [pc EXCEPT ![w] = "sent"] /\ UNCHANGED <<order, exposure, adrift, strays>>
      BY <1>2 DEF Send, Proceed, Jump, marketVars
    <2>2. \A i \in Instruments : ~(adrift[i] + strays[i] > 0) \/ ~(cfg.aborts => ~ctxDone)
      BY DEF AdriftInv
    <2>3. cfg.aborts => ~ctxDone
      BY <1>2 DEF Send
    <2>4. QED
      BY <2>1, <2>2, <2>3 DEF AdriftInv
  <1>3. CASE CutOff(w)
    <2>1. PICK o \in Instruments : o = order[w]
      BY <1>3 DEF CutOff, Jump, GuardInv, TypeOK
    <2>2. /\ pc[w] = "sent" /\ pc' = [pc EXCEPT ![w] = "returned"]
          /\ adrift' = [adrift EXCEPT ![o] = @ + 1]
          /\ cfg.aborts /\ ctxDone
          /\ UNCHANGED <<order, exposure, strays>>
      BY <1>3, <2>1 DEF CutOff, Jump
    <2>3. ~(adrift[o] + strays[o] > 0)
      BY <2>1, <2>2 DEF AdriftInv
    <2>4. HoldsClaim(w) /\ Sig(w) = o
      BY <2>1, <2>2 DEF HoldsClaim, GuardInv, OrderIsSignal
    <2>5. exposure[o] = 0
      BY <2>4 DEF GuardInv, ClaimsDisjoint, Claimed
    <2>6. \A v \in Workers \ {w} : pc[v] = "sent" => order[v] # o
      BY <2>4 DEF HoldsClaim, GuardInv, ClaimsDisjoint, OrderIsSignal
    <2>7. \A v \in Workers : pc'[v] = "sent" => v # w /\ pc[v] = "sent"
      BY <2>2 DEF GuardInv, TypeOK
    <2>8. adrift'[o] + strays'[o] = 1
      <3>1. adrift \in [Instruments -> Nat] /\ strays \in [Instruments -> Nat]
        BY DEF GuardInv, TypeOK
      <3>2. adrift[o] = 0 /\ strays[o] = 0
        BY <2>3, <3>1
      <3>3. QED
        BY <2>2, <3>1, <3>2
    <2>9. \A i \in Instruments \ {o} : adrift'[i] = adrift[i]
      BY <2>2 DEF GuardInv, TypeOK
    <2>10. QED
      BY <1>1, <2>2, <2>5, <2>6, <2>7, <2>8, <2>9 DEF AdriftInv
  <1>4. CASE OrderTaken(w)
    <2>1. PICK o \in Instruments : o = order[w]
      BY <1>4 DEF OrderTaken, Jump, GuardInv, TypeOK
    <2>2. /\ pc[w] = "sent" /\ pc' = [pc EXCEPT ![w] = "returned"]
          /\ exposure' = [exposure EXCEPT ![o] = @ + 1]
          /\ UNCHANGED <<order, adrift, strays>>
      BY <1>4, <2>1 DEF OrderTaken, Jump
    <2>3. ~(adrift[o] + strays[o] > 0)
      BY <2>1, <2>2 DEF AdriftInv
    <2>4. \A i \in Instruments \ {o} : exposure'[i] = exposure[i]
      BY <2>2 DEF GuardInv, TypeOK
    <2>5. \A v \in Workers : pc'[v] = "sent" => pc[v] = "sent"
      BY <2>2 DEF GuardInv, TypeOK
    <2>6. QED
      BY <1>1, <2>2, <2>3, <2>4, <2>5 DEF AdriftInv
  <1>5. CASE ~(Send(w) \/ CutOff(w) \/ OrderTaken(w))
    <2>1. UNCHANGED <<exposure, adrift, strays>> /\ pc'[w] # "sent"
      BY <1>5 DEF Worker, Progress, Receive, ChannelClosed, Tick, Done,
           GenerateFails, NextSignal, BatchEnd, Generated, KillSwitchSkips, KillSwitchPasses,
           GuardRefuses, GuardGrants, RecordDryRun, Rejected, Approved, NotSent, OrderRefused,
           ExecuteFailed, RecordTrade, FailedStatus, KeepPosition, ReleaseGuard,
           Proceed, Finish, Jump, marketVars, GuardInv, TypeOK
    <2>2. QED
      BY <1>1, <2>1, AdriftKept DEF OthersUnchanged, GuardInv
  <1>6. QED
    BY <1>2, <1>3, <1>4, <1>5

LEMMA EnvironmentAdrift ==
  ASSUME GuardInv, AdriftInv, TypeOK',
         \/ Cancel
         \/ Monitor
         \/ \E i \in Instruments : PositionEnds(i) \/ BotReleases(i) \/ StrayTaken(i)
  PROVE  AdriftInv'
  <1>1. UNCHANGED <<cfg, pc, order>> /\ (ctxDone => ctxDone')
    BY DEF Cancel, Monitor, PositionEnds, BotReleases, StrayTaken, workerVars
  <1>2. CASE Cancel \/ Monitor \/ \E i \in Instruments : BotReleases(i)
    <2>1. UNCHANGED <<exposure, adrift, strays>>
      BY <1>2 DEF Cancel, Monitor, BotReleases, marketVars
    <2>2. QED
      BY <1>1, <2>1, AdriftKept DEF GuardInv
  <1>3. ASSUME NEW i \in Instruments, PositionEnds(i) PROVE AdriftInv'
    <2>1. /\ exposure[i] > 0 /\ exposure' = [exposure EXCEPT ![i] = @ - 1]
          /\ UNCHANGED <<adrift, strays>>
      BY <1>3 DEF PositionEnds
    <2>2. \A j \in Instruments : exposure[j] = 0 => exposure'[j] = 0
      BY <2>1 DEF GuardInv, TypeOK
    <2>3. QED
      BY <1>1, <2>1, <2>2, AdriftKept DEF GuardInv
  <1>4. ASSUME NEW i \in Instruments, StrayTaken(i) PROVE AdriftInv'
    <2>1. /\ adrift' = [adrift EXCEPT ![i] = @ - 1]
          /\ strays' = [strays EXCEPT ![i] = @ + 1]
          /\ UNCHANGED <<exposure, ctxDone>>
      BY <1>4 DEF StrayTaken
    <2>2. \A j \in Instruments : adrift'[j] + strays'[j] = adrift[j] + strays[j]
      BY <2>1 DEF GuardInv, TypeOK
    <2>3. QED
      BY <1>1, <2>1, <2>2 DEF AdriftInv
  <1>5. QED
    BY <1>2, <1>3, <1>4

EntryInv == GuardInv /\ (cfg.guard => AdriftInv)

LEMMA InitEntry == Init => EntryInv
  BY InitGuard DEF Init, EntryInv, AdriftInv

LEMMA NextEntry ==
  ASSUME KeepsInstrument, ~LostReplies, EntryInv, [Next]_vars
  PROVE  EntryInv'
  <1>1. GuardInv'
    BY NextGuard DEF EntryInv
  <1>2. TypeOK'
    BY <1>1 DEF GuardInv
  <1>3. ASSUME NEW w \in Workers, Worker(w), cfg'.guard PROVE AdriftInv'
    BY <1>2, <1>3, WorkerAdrift, WorkerStepIsLocal DEF EntryInv, GuardInv
  <1>4. ASSUME \/ Cancel
               \/ Monitor
               \/ \E i \in Instruments : PositionEnds(i) \/ BotReleases(i) \/ StrayTaken(i),
               cfg'.guard
        PROVE  AdriftInv'
    <2>1. UNCHANGED cfg
      BY <1>4 DEF Cancel, Monitor, PositionEnds, BotReleases, StrayTaken
    <2>2. QED
      BY <1>2, <1>4, <2>1, EnvironmentAdrift DEF EntryInv
  <1>5. CASE UNCHANGED vars
    BY <1>1, <1>5 DEF vars, workerVars, marketVars, EntryInv, AdriftInv
  <1>6. QED
    BY <1>1, <1>3, <1>4, <1>5 DEF Next, Terminated, EntryInv

LEMMA EntryInvSuffices == EntryInv => ClaimsExclusive /\ NoDoubleEntry
  <1>1. EntryInv => ClaimsExclusive
    BY DEF EntryInv, GuardInv, ClaimsDisjoint, Claimed, ClaimsExclusive, IsActive
  <1>2. EntryInv => NoDoubleEntry
    <2> SUFFICES ASSUME EntryInv, cfg.guard, NEW i \in Instruments
                 PROVE  exposure[i] + strays[i] + adrift[i] <= 1
      BY DEF NoDoubleEntry
    <2>1. exposure[i] \in Nat /\ adrift[i] \in Nat /\ strays[i] \in Nat
      BY DEF EntryInv, GuardInv, TypeOK
    <2>2. /\ exposure[i] <= 1
          /\ adrift[i] + strays[i] > 0 => adrift[i] + strays[i] = 1 /\ exposure[i] = 0
      BY DEF EntryInv, GuardInv, PositionsGuarded, AdriftInv
    <2>3. QED
      BY <2>1, <2>2
  <1>3. QED
    BY <1>1, <1>2

\* With the guard in place, an evaluator that keeps the signal's instrument
\* and an Execute whose error means that the order was not taken unless the
\* call was cut off, no two signals ever hold the same instrument and no
\* instrument is entered twice, orders of calls that were cut off included,
\* however many goroutines share the guard.
THEOREM GuardExcludes ==
  ASSUME KeepsInstrument, ~LostReplies
  PROVE  Spec => [](ClaimsExclusive /\ NoDoubleEntry)
  <1>1. EntryInv /\ [Next]_vars => EntryInv'
    BY NextEntry
  <1>2. QED
    BY <1>1, InitEntry, EntryInvSuffices, PTL DEF Spec

-----------------------------------------------------------------------------
(* Late orders.  A worker that has sent one while the switch is triggered  *)
(* is past the evaluator, and the gate lets it no further signal through.  *)

LEMMA InitLate == Init => LateInv
  BY DEF Init, LateInv

LEMMA WorkerLate ==
  ASSUME TypeOK, LateInv, NEW w \in Workers, Worker(w)
  PROVE  LateInv'
  <1>1. OthersUnchanged(w) /\ UNCHANGED <<cfg, triggered>>
    BY WorkerStepIsLocal
       DEF Worker, Progress, Receive, ChannelClosed, Tick, Done,
           GenerateFails, NextSignal, BatchEnd, Generated, KillSwitchSkips, KillSwitchPasses,
           GuardRefuses, GuardGrants, RecordDryRun, Rejected, Approved, NotSent, Send, OrderTaken, OrderRefused, CutOff,
           ExecuteFailed, RecordTrade, FailedStatus, KeepPosition, ReleaseGuard,
           Proceed, Finish, ksVars
  <1>2. CASE \E i \in Instruments : Approved(w, i)
    <2>1. PICK i \in Instruments : Approved(w, i)
      BY <1>2
    <2>2. late[w] = 0
      <3>1. pc[w] = "evaluate" /\ late[w] \in Nat
        BY <2>1 DEF Approved, Jump, TypeOK
      <3>2. late[w] <= 1 /\ late[w] # 1
        BY <3>1 DEF LateInv
      <3>3. QED
        BY <3>1, <3>2
    <2>3. pc' = [pc EXCEPT ![w] = "execute"]
      BY <2>1 DEF Approved, Jump
    <2>4. CASE cfg.killSwitch /\ triggered
      BY <1>1, <2>1, <2>2, <2>3, <2>4 DEF Approved, LateInv, TypeOK
    <2>5. CASE ~(cfg.killSwitch /\ triggered)
      BY <1>1, <2>1, <2>3, <2>5 DEF Approved, LateInv, TypeOK
    <2>6. QED
      BY <2>4, <2>5
  <1>3. CASE ~ \E i \in Instruments : Approved(w, i)
    <2>1. UNCHANGED late
      BY <1>3 DEF Worker, Progress, Receive, ChannelClosed, Tick, Done,
           GenerateFails, NextSignal, BatchEnd, Generated, KillSwitchSkips, KillSwitchPasses,
           GuardRefuses, GuardGrants, RecordDryRun, Rejected, NotSent, Send, OrderTaken, OrderRefused, CutOff,
           ExecuteFailed, RecordTrade, FailedStatus, KeepPosition, ReleaseGuard,
           Proceed, Finish
    <2>2. late[w] = 1 => pc'[w] \notin {"acquire", "dryrun", "evaluate"}
      BY <1>3 DEF Worker, Progress, Receive, ChannelClosed, Tick, Done,
           GenerateFails, NextSignal, BatchEnd, Generated, KillSwitchSkips, KillSwitchPasses,
           GuardRefuses, GuardGrants, RecordDryRun, Rejected, NotSent, Send, OrderTaken, OrderRefused, CutOff,
           ExecuteFailed, RecordTrade, FailedStatus, KeepPosition, ReleaseGuard,
           Proceed, Finish, Jump, LateInv, TypeOK
    <2>3. QED
      BY <1>1, <2>1, <2>2 DEF LateInv, OthersUnchanged
  <1>4. QED
    BY <1>2, <1>3

LEMMA NextLate == TypeOK /\ LateInv /\ [Next]_vars => LateInv'
  <1> SUFFICES ASSUME TypeOK, LateInv, [Next]_vars PROVE LateInv'
    OBVIOUS
  <1>1. ASSUME NEW w \in Workers, Worker(w) PROVE LateInv'
    BY <1>1, WorkerLate
  <1>2. CASE Monitor
    <2>1. UNCHANGED <<cfg, pc>>
      BY <1>2 DEF Monitor
    <2>2. CASE \E v \in PortfolioValues : UpdatePortfolioValue(v) /\ UNCHANGED late
      BY <2>1, <2>2 DEF UpdatePortfolioValue, LateInv
    <2>3. CASE TriggerSilently /\ UNCHANGED late
      BY <2>1, <2>3 DEF TriggerSilently, LateInv
    <2>4. CASE \E v \in PortfolioValues : ResetDaily(v) /\ late' = [w \in Workers |-> 0]
      BY <2>4 DEF LateInv
    <2>5. QED
      BY <1>2, <2>2, <2>3, <2>4 DEF Monitor
  <1>3. CASE \/ Cancel
             \/ \E i \in Instruments : PositionEnds(i) \/ BotReleases(i) \/ StrayTaken(i)
             \/ UNCHANGED vars
    BY <1>3 DEF Cancel, PositionEnds, BotReleases, StrayTaken, vars, ksVars, workerVars, LateInv
  <1>4. QED
    BY <1>1, <1>2, <1>3 DEF Next, Terminated

\* After the kill switch trips each worker sends at most one more order,
\* whatever interleaving of the monitor and the workers led there.
THEOREM LateOrderBound == Spec => []OneLateOrder
  <1>1. LateInv => OneLateOrder
    BY DEF LateInv, OneLateOrder
  <1>2. QED
    BY <1>1, InitType, NextType, InitLate, NextLate, PTL DEF Spec

-----------------------------------------------------------------------------
(* The pipeline implements PositionBook: each of its steps is one move of  *)
(* one instrument's entry, or leaves the book as it is.                    *)

HasClaim(i) == \E w \in Workers : HoldsClaim(w) /\ Sig(w) = i

BookStep == [Book!BookNext]_([i \in Instruments |-> Entry(i)])

\* What an entry says, read in a state ...
LEMMA EntryNow ==
  ASSUME NEW i
  PROVE  /\ ~cfg.guard => Entry(i) = "free"
         /\ cfg.guard /\ i \notin positions => Entry(i) = "free"
         /\ cfg.guard /\ i \in positions /\ exposure[i] > 0 => Entry(i) = "open"
         /\ cfg.guard /\ i \in positions /\ ~(exposure[i] > 0) =>
                Entry(i) = IF HasClaim(i) THEN "claimed" ELSE "held"
  BY DEF Entry, HasClaim, IsActive

\* ... and after a step.
LEMMA EntryNext ==
  ASSUME NEW i
  PROVE  /\ ~cfg'.guard => Entry(i)' = "free"
         /\ cfg'.guard /\ i \notin positions' => Entry(i)' = "free"
         /\ cfg'.guard /\ i \in positions' /\ exposure'[i] > 0 => Entry(i)' = "open"
         /\ cfg'.guard /\ i \in positions' /\ ~(exposure'[i] > 0) =>
                Entry(i)' = IF HasClaim(i)' THEN "claimed" ELSE "held"
  BY DEF Entry, HasClaim, IsActive

SameEntry(i) ==
    /\ i \in positions' <=> i \in positions
    /\ exposure'[i] = exposure[i]
    /\ HasClaim(i)' <=> HasClaim(i)

LEMMA EntryKept ==
  ASSUME UNCHANGED cfg, NEW i \in Instruments, SameEntry(i)
  PROVE  Entry(i)' = Entry(i)
  BY EntryNow, EntryNext DEF SameEntry

LEMMA BookKept ==
  ASSUME \A i \in Instruments : Entry(i)' = Entry(i)
  PROVE  BookStep
  BY DEF BookStep

\* One entry moves, the others stay.
LEMMA BookMoves ==
  ASSUME UNCHANGED cfg, NEW i \in Instruments,
         \A j \in Instruments \ {i} : SameEntry(j),
         NEW from, NEW to, Entry(i) = from, Entry(i)' = to,
         <<from, to>> \in {<<"free", "claimed">>, <<"claimed", "free">>, <<"claimed", "open">>,
                           <<"claimed", "held">>, <<"open", "held">>, <<"held", "free">>}
  PROVE  BookStep
  <1>1. \A j \in Instruments \ {i} : Entry(j)' = Entry(j)
    BY EntryKept
  <1>2. Book!Move(i, from, to)
    BY <1>1 DEF Book!Move
  <1>3. Book!BookNext
    BY <1>2 DEF Book!BookNext, Book!Claim, Book!Drop, Book!Enter, Book!Keep, Book!Close, Book!Free
  <1>4. QED
    BY <1>3 DEF BookStep

-----------------------------------------------------------------------------
(* A goroutine's step.  Only its own claim can change.                     *)

\* The claims on an instrument the goroutine neither holds nor comes to hold.
LEMMA ClaimsOnOthers ==
  ASSUME NEW w \in Workers, OthersUnchanged(w), NEW i,
         ~(HoldsClaim(w) /\ Sig(w) = i), ~(HoldsClaim(w)' /\ Sig(w)' = i)
  PROVE  HasClaim(i)' <=> HasClaim(i)
  BY OthersKeepClaims DEF HasClaim

\* The goroutine keeps what it holds, or the lack of it.
LEMMA QuietBook ==
  ASSUME UNCHANGED <<cfg, positions, exposure>>, NEW w \in Workers, OthersUnchanged(w),
         HoldsClaim(w)' <=> HoldsClaim(w), HoldsClaim(w) => Sig(w)' = Sig(w)
  PROVE  BookStep
  <1>1. \A i \in Instruments : HasClaim(i)' <=> HasClaim(i)
    BY OthersKeepClaims DEF HasClaim
  <1>2. QED
    BY <1>1, EntryKept, BookKept DEF SameEntry

\* The goroutine's claim goes: nobody else has one on that instrument.
LEMMA ClaimGoes ==
  ASSUME GuardInv, cfg.guard, NEW w \in Workers, OthersUnchanged(w),
         HoldsClaim(w), ~HoldsClaim(w)', NEW s, s = Sig(w)
  PROVE  /\ Entry(s) = "claimed"
         /\ ~HasClaim(s)'
         /\ \A j : j # s => (HasClaim(j)' <=> HasClaim(j))
  <1>1. Claimed(w) /\ HasClaim(s)
    BY DEF GuardInv, ClaimsDisjoint, HasClaim
  <1>2. Entry(s) = "claimed"
    BY <1>1, EntryNow DEF Claimed
  <1>3. ASSUME NEW v \in Workers, HoldsClaim(v)' PROVE Sig(v)' # s
    BY <1>3, OthersKeepClaims DEF GuardInv, ClaimsDisjoint
  <1>4. ~HasClaim(s)'
    BY <1>3 DEF HasClaim
  <1>5. \A j : j # s => (HasClaim(j)' <=> HasClaim(j))
    BY ClaimsOnOthers
  <1>6. QED
    BY <1>2, <1>4, <1>5

LEMMA GrantBook ==
  ASSUME GuardInv, TypeOK', cfg.guard, NEW w \in Workers, GuardGrants(w), OthersUnchanged(w)
  PROVE  BookStep
  <1>1. PICK s \in Instruments : s = Sig(w)
    BY SignalOfBatch DEF GuardGrants, Jump, GuardInv, TypeOK, InSignal, Labels, Sig
  <1>2. /\ s \notin positions
        /\ positions' = positions \cup {s}
        /\ UNCHANGED <<cfg, batch, exposure>>
        /\ pc[w] = "acquire" /\ pc'[w] \in {"dryrun", "evaluate"}
    BY <1>1 DEF GuardGrants, Acquire, IsActive, Jump, marketVars, GuardInv, TypeOK
  <1>3. HoldsClaim(w)' /\ Sig(w)' = s /\ ~HoldsClaim(w)
    BY <1>1, <1>2 DEF HoldsClaim, Sig
  <1>4. Entry(s) = "free"
    BY <1>2, EntryNow
  <1>5. Entry(s)' = "claimed"
    <2>1. HasClaim(s)'
      BY <1>3 DEF HasClaim
    <2>2. ~(exposure'[s] > 0)
      BY <1>2 DEF GuardInv, PositionsGuarded
    <2>3. QED
      BY <1>2, <2>1, <2>2, EntryNext
  <1>6. \A j \in Instruments \ {s} : SameEntry(j)
    BY <1>2, <1>3, ClaimsOnOthers DEF SameEntry
  <1>7. QED
    BY <1>2, <1>4, <1>5, <1>6, BookMoves

LEMMA TakenBook ==
  ASSUME GuardInv, TypeOK', cfg.guard, ~LostReplies, NEW w \in Workers, OrderTaken(w),
         OthersUnchanged(w)
  PROVE  BookStep
  <1>1. HoldsClaim(w) /\ order[w] = Sig(w) /\ Claimed(w) /\ order[w] \in Instruments
    BY DEF OrderTaken, Jump, HoldsClaim, GuardInv, OrderIsSignal, ClaimsDisjoint, TypeOK
  <1>2. PICK s \in Instruments : s = Sig(w)
    BY <1>1
  <1>3. /\ exposure' = [exposure EXCEPT ![s] = 1]
        /\ UNCHANGED <<cfg, positions, batch>>
        /\ pc'[w] = "returned" /\ reply'[w] = Live
        /\ s \in positions
    BY <1>1, <1>2 DEF OrderTaken, Jump, Claimed, GuardInv, TypeOK
  <1>4. ~HoldsClaim(w)'
    BY <1>3 DEF HoldsClaim, Live
  <1>5. Entry(s) = "claimed" /\ \A j : j # s => (HasClaim(j)' <=> HasClaim(j))
    BY <1>1, <1>2, <1>4, ClaimGoes
  <1>6. Entry(s)' = "open"
    BY <1>3, EntryNext DEF GuardInv, TypeOK
  <1>7. \A j \in Instruments \ {s} : SameEntry(j)
    BY <1>3, <1>5 DEF SameEntry, GuardInv, TypeOK
  <1>8. QED
    BY <1>3, <1>5, <1>6, <1>7, BookMoves

LEMMA ReleaseBook ==
  ASSUME GuardInv, TypeOK', cfg.guard, NEW w \in Workers, ReleaseGuard(w), OthersUnchanged(w)
  PROVE  BookStep
  <1>1. PICK s \in Instruments : s = Sig(w)
    BY SignalOfBatch DEF ReleaseGuard, Finish, Jump, GuardInv, TypeOK, InSignal, Labels, Sig
  <1>2. /\ HoldsClaim(w)
        /\ positions' = positions \ {s}
        /\ UNCHANGED <<cfg, exposure>>
        /\ pc'[w] = "next"
    BY <1>1 DEF ReleaseGuard, Release, Finish, Jump, marketVars, HoldsClaim, GuardInv, TypeOK
  <1>3. ~HoldsClaim(w)'
    BY <1>2 DEF HoldsClaim
  <1>4. Entry(s) = "claimed" /\ \A j : j # s => (HasClaim(j)' <=> HasClaim(j))
    BY <1>1, <1>2, <1>3, ClaimGoes
  <1>5. Entry(s)' = "free"
    BY <1>2, EntryNext
  <1>6. \A j \in Instruments \ {s} : SameEntry(j)
    BY <1>2, <1>4 DEF SameEntry
  <1>7. QED
    BY <1>2, <1>4, <1>5, <1>6, BookMoves

\* A cancelled order keeps the guard: the claim becomes a position nobody has.
LEMMA RefusedBook ==
  ASSUME GuardInv, TypeOK', cfg.guard, NEW w \in Workers, NEW r \in Refusals,
         OrderRefused(w, r), OthersUnchanged(w)
  PROVE  BookStep
  <1>1. PICK s \in Instruments : s = Sig(w)
    BY SignalOfBatch DEF OrderRefused, Jump, GuardInv, TypeOK, InSignal, Labels, Sig
  <1>2. /\ UNCHANGED <<cfg, positions, exposure, batch>>
        /\ HoldsClaim(w)
        /\ pc'[w] = "returned" /\ reply'[w] = r
        /\ Sig(w)' = Sig(w)
    BY DEF OrderRefused, Jump, marketVars, HoldsClaim, GuardInv, TypeOK, Sig
  <1>3. CASE HoldsClaim(w)'
    BY <1>2, <1>3, QuietBook
  <1>4. CASE ~HoldsClaim(w)'
    <2>1. /\ Entry(s) = "claimed"
          /\ ~HasClaim(s)'
          /\ \A j : j # s => (HasClaim(j)' <=> HasClaim(j))
      BY <1>1, <1>2, <1>4, ClaimGoes
    <2>2. s \in positions /\ exposure[s] = 0
      BY <1>1, <1>2 DEF GuardInv, ClaimsDisjoint, Claimed
    <2>3. Entry(s)' = "held"
      BY <1>2, <2>1, <2>2, EntryNext
    <2>4. \A j \in Instruments \ {s} : SameEntry(j)
      BY <1>2, <2>1 DEF SameEntry
    <2>5. QED
      BY <1>2, <2>1, <2>3, <2>4, BookMoves
  <1>5. QED
    BY <1>3, <1>4

LEMMA WorkerBook ==
  ASSUME GuardInv, TypeOK', cfg.guard, ~LostReplies, NEW w \in Workers, Worker(w)
  PROVE  BookStep
  <1>1. OthersUnchanged(w) /\ UNCHANGED cfg
    BY WorkerStepIsLocal DEF GuardInv
  <1>2. CASE \/ GuardGrants(w) \/ OrderTaken(w) \/ ReleaseGuard(w)
             \/ \E r \in Refusals : OrderRefused(w, r)
    BY <1>1, <1>2, GrantBook, TakenBook, ReleaseBook, RefusedBook
  <1>3. CASE \/ \E b \in Batches : Receive(w, b) \/ Generated(w, b)
             \/ KillSwitchSkips(w) \/ GuardRefuses(w) \/ KeepPosition(w)
             \/ ChannelClosed(w) \/ Tick(w) \/ Done(w) \/ GenerateFails(w) \/ BatchEnd(w)
             \/ NextSignal(w) \/ KillSwitchPasses(w)
    <2> USE <1>3 DEF Receive, Generated, KillSwitchSkips, GuardRefuses, KeepPosition,
                  ChannelClosed, Tick, Done, GenerateFails, BatchEnd, NextSignal,
                  KillSwitchPasses, Proceed, Finish, Jump
    <2>1. /\ UNCHANGED <<positions, exposure>>
          /\ \/ pc[w] \in {"select", "generate", "next", "gate", "acquire"}
             \/ pc[w] = "settle" /\ reply[w] # "failed"
      BY DEF marketVars
    <2>2. pc'[w] \in {"select", "generate", "next", "gate", "acquire", "stopped"}
      BY DEF GuardInv, TypeOK
    <2>3. ~HoldsClaim(w) /\ ~HoldsClaim(w)'
      BY <2>1, <2>2 DEF HoldsClaim
    <2>4. QED
      BY <1>1, <2>1, <2>3, QuietBook
  <1>4. CASE \/ RecordDryRun(w) \/ Rejected(w) \/ ExecuteFailed(w) \/ FailedStatus(w)
             \/ NotSent(w) \/ Send(w) \/ CutOff(w)
             \/ \E i \in Instruments : Approved(w, i)
    <2>1. /\ UNCHANGED <<positions, exposure, batch>>
          /\ HoldsClaim(w)
          /\ \/ pc'[w] \in {"release", "execute", "sent"}
             \/ pc'[w] = "returned" /\ reply'[w] = "error"
      BY <1>4 DEF RecordDryRun, Rejected, ExecuteFailed, FailedStatus, Approved,
                  NotSent, Send, CutOff, Proceed, Jump, marketVars, HoldsClaim, GuardInv, TypeOK
    <2>2. HoldsClaim(w)' /\ Sig(w)' = Sig(w)
      BY <2>1 DEF HoldsClaim, Sig
    <2>3. QED
      BY <1>1, <2>1, <2>2, QuietBook
  <1>5. CASE RecordTrade(w)
    <2>1. /\ UNCHANGED <<positions, exposure, batch, reply>>
          /\ pc[w] = "returned" /\ reply[w] # "error" /\ pc'[w] = "settle"
      BY <1>5 DEF RecordTrade, Jump, GuardInv, TypeOK
    <2>2. (HoldsClaim(w)' <=> HoldsClaim(w)) /\ Sig(w)' = Sig(w)
      BY <2>1 DEF HoldsClaim, Sig
    <2>3. QED
      BY <1>1, <2>1, <2>2, QuietBook
  <1>6. QED
    BY <1>2, <1>3, <1>4, <1>5 DEF Worker, Progress

-----------------------------------------------------------------------------
(* The lifecycle, the monitor, the market and the bot.                     *)

LEMMA EnvironmentBook ==
  ASSUME GuardInv, cfg.guard,
         \/ Cancel
         \/ Monitor
         \/ \E i \in Instruments : PositionEnds(i) \/ BotReleases(i) \/ StrayTaken(i)
  PROVE  BookStep
  <1>1. UNCHANGED <<cfg, pc, batch, reply>>
    BY DEF Cancel, Monitor, PositionEnds, BotReleases, StrayTaken, workerVars
  <1>2. \A i : HasClaim(i)' <=> HasClaim(i)
    BY <1>1 DEF HasClaim, HoldsClaim, Sig
  <1>3. CASE Cancel \/ Monitor \/ \E i \in Instruments : StrayTaken(i)
    <2>1. UNCHANGED <<positions, exposure>>
      BY <1>3 DEF Cancel, Monitor, StrayTaken, marketVars
    <2>2. QED
      BY <1>1, <1>2, <2>1, EntryKept, BookKept DEF SameEntry
  <1>4. ASSUME NEW i \in Instruments, PositionEnds(i) PROVE BookStep
    <2>1. /\ i \in positions /\ exposure[i] = 1
          /\ exposure' = [exposure EXCEPT ![i] = 0]
          /\ UNCHANGED positions
      <3>1. exposure[i] = 1 /\ i \in positions
        BY <1>4 DEF PositionEnds, GuardInv, PositionsGuarded, TypeOK
      <3>2. exposure' = [exposure EXCEPT ![i] = exposure[i] - 1] /\ UNCHANGED positions
        BY <1>4 DEF PositionEnds
      <3>3. QED
        BY <3>1, <3>2
    <2>2. ~HasClaim(i)
      BY <2>1 DEF HasClaim, GuardInv, ClaimsDisjoint, Claimed
    <2>3. Entry(i) = "open"
      BY <2>1, EntryNow
    <2>4. Entry(i)' = "held"
      BY <1>1, <1>2, <2>1, <2>2, EntryNext DEF GuardInv, TypeOK
    <2>5. \A j \in Instruments \ {i} : SameEntry(j)
      BY <1>2, <2>1 DEF SameEntry, GuardInv, TypeOK
    <2>6. QED
      BY <1>1, <2>3, <2>4, <2>5, BookMoves
  <1>5. ASSUME NEW i \in Instruments, BotReleases(i) PROVE BookStep
    <2>1. /\ i \in settled
          /\ positions' = positions \ {i}
          /\ UNCHANGED exposure
      BY <1>5 DEF BotReleases, Release
    <2>2. i \in positions /\ ~(exposure[i] > 0)
      BY <2>1 DEF GuardInv, PositionsGuarded
    <2>3. ~HasClaim(i)
      BY <2>1 DEF HasClaim, GuardInv, ClaimsDisjoint, Claimed
    <2>4. Entry(i) = "held"
      BY <2>2, <2>3, EntryNow
    <2>5. Entry(i)' = "free"
      BY <1>1, <2>1, EntryNext
    <2>6. \A j \in Instruments \ {i} : SameEntry(j)
      BY <1>2, <2>1 DEF SameEntry
    <2>7. QED
      BY <1>1, <2>4, <2>5, <2>6, BookMoves
  <1>6. QED
    BY <1>3, <1>4, <1>5

LEMMA InitBook == Init => Book!BookInit
  BY EntryNow DEF Init, NewPositionGuard, Book!BookInit

LEMMA NextBook ==
  ASSUME KeepsInstrument, ~LostReplies, GuardInv, [Next]_vars
  PROVE  BookStep
  <1>1. CASE UNCHANGED vars
    <2>1. \A i \in Instruments : SameEntry(i)
      BY <1>1 DEF vars, workerVars, marketVars, SameEntry, HasClaim, HoldsClaim, Sig
    <2>2. QED
      BY <1>1, <2>1, EntryKept, BookKept DEF vars
  <1>2. CASE cfg.guard
    <2>1. TypeOK'
      BY NextType DEF GuardInv
    <2>2. QED
      BY <1>1, <1>2, <2>1, WorkerBook, EnvironmentBook DEF Next, Terminated
  <1>3. CASE ~cfg.guard
    <2>1. UNCHANGED cfg
      BY WorkerStepIsLocal DEF Next, Terminated, Cancel, Monitor, PositionEnds, BotReleases,
                               StrayTaken, vars, GuardInv
    <2>2. \A i \in Instruments : Entry(i) = "free" /\ Entry(i)' = "free"
      BY <1>3, <2>1, EntryNow, EntryNext
    <2>3. QED
      BY <2>2, BookKept
  <1>4. QED
    BY <1>2, <1>3

\* With an evaluator that keeps the signal's instrument and an Execute whose
\* error means that the order was not taken unless the call was cut off, each
\* instrument goes through claim, entry, close and release in that order, one
\* signal at a time.  A call that was cut off drops its claim.
THEOREM PipelineImplementsBook ==
  ASSUME KeepsInstrument, ~LostReplies
  PROVE  Spec => ImplementsBook
  <1>1. GuardInv /\ [Next]_vars => GuardInv'
    BY NextGuard
  <1>2. GuardInv /\ [Next]_vars => [Book!BookNext]_([i \in Instruments |-> Entry(i)])
    BY NextBook DEF BookStep
  <1>3. QED
    BY <1>1, <1>2, InitGuard, InitBook, PTL DEF Spec, ImplementsBook, Book!BookSpec

-----------------------------------------------------------------------------
(* Every order is recorded once: the orders without a row are as many as   *)
(* the goroutines that come back from Execute with one.                    *)

\* The goroutines about to insert the row of an order on i.
Pending(i) == {w \in Workers : pc[w] = "returned" /\ reply[w] = Live /\ order[w] = i}

Booked == \A i \in Instruments : unbooked[i] = Cardinality(Pending(i))

BookedInv == TypeOK /\ OrderIsSignal /\ Booked

LEMMA LiveIsNoRefusal == Live \notin Refusal
  BY DEF Live, Refusal

LEMMA InitBooked == Init => BookedInv
  <1> SUFFICES ASSUME Init PROVE BookedInv
    OBVIOUS
  <1>1. \A i \in Instruments : Pending(i) = {}
    BY DEF Init, Pending
  <1>2. Booked
    BY <1>1, FS_EmptySet DEF Init, Booked
  <1>3. QED
    BY <1>2, InitType DEF Init, BookedInv, OrderIsSignal

\* The request keeps naming the signal's instrument.
LEMMA WorkerKeepsOrder ==
  ASSUME TypeOK, OrderIsSignal, KeepsInstrument, NEW w \in Workers, Worker(w)
  PROVE  OrderIsSignal'
  <1>1. OthersUnchanged(w)
    BY WorkerStepIsLocal
  <1>2. pc'[w] \in {"execute", "sent", "returned", "settle"} => order'[w] = Sig(w)'
    <2>1. CASE \E i \in Instruments : Approved(w, i)
      <3>1. PICK i \in Instruments : Approved(w, i)
        BY <2>1
      <3>2. Sig(w) \in Instruments
        BY <3>1, SignalOfBatch DEF Approved, Jump, TypeOK, InSignal, Labels, Sig
      <3>3. i = Sig(w)
        BY <3>1, <3>2 DEF Approved, KeepsInstrument
      <3>4. QED
        BY <3>1, <3>3 DEF Approved, TypeOK, Sig
    <2>2. CASE \/ NotSent(w) \/ Send(w) \/ OrderTaken(w) \/ CutOff(w) \/ RecordTrade(w)
               \/ \E r \in Refusals : OrderRefused(w, r)
      BY <2>2 DEF NotSent, Send, OrderTaken, CutOff, OrderRefused, RecordTrade, Proceed, Jump,
                  OrderIsSignal, Sig
    <2>3. CASE ~ \/ \E i \in Instruments : Approved(w, i)
                 \/ NotSent(w) \/ Send(w) \/ OrderTaken(w) \/ CutOff(w)
                 \/ \E r \in Refusals : OrderRefused(w, r)
                 \/ RecordTrade(w)
      BY <2>3 DEF Worker, Progress, Receive, ChannelClosed, Tick, Done,
           GenerateFails, NextSignal, BatchEnd, Generated, KillSwitchSkips, KillSwitchPasses,
           GuardRefuses, GuardGrants, RecordDryRun, Rejected,
           ExecuteFailed, FailedStatus, KeepPosition, ReleaseGuard,
           Proceed, Finish, Jump, TypeOK
    <2>4. QED
      BY <2>1, <2>2, <2>3
  <1>3. QED
    BY <1>1, <1>2, OthersKeepClaims DEF OrderIsSignal

\* A step that neither brings a goroutine back from Execute with a live order
\* nor takes one past its insertion.
LEMMA BooksUntouched ==
  ASSUME Booked, UNCHANGED unbooked, NEW w \in Workers, OthersUnchanged(w),
         \A i \in Instruments : w \notin Pending(i) /\ w \notin Pending(i)'
  PROVE  Booked'
  <1>1. \A i \in Instruments : Pending(i)' = Pending(i)
    BY DEF Pending, OthersUnchanged
  <1>2. QED
    BY <1>1 DEF Booked

LEMMA TakenBooks ==
  ASSUME TypeOK, Booked, ~LostReplies, IsFiniteSet(Workers), NEW w \in Workers,
         OrderTaken(w), OthersUnchanged(w)
  PROVE  Booked'
  <1>0. PICK o \in Instruments : o = order[w]
    BY DEF OrderTaken, Jump, TypeOK
  <1>1. /\ pc[w] = "sent" /\ pc'[w] = "returned" /\ reply'[w] = Live /\ order'[w] = o
        /\ order[w] = o
        /\ unbooked' = [unbooked EXCEPT ![o] = @ + 1]
    BY <1>0 DEF OrderTaken, Jump, TypeOK
  <1>2. Pending(o)' = Pending(o) \union {w} /\ w \notin Pending(o)
    BY <1>1 DEF Pending, OthersUnchanged
  <1>3. \A i \in Instruments \ {o} : Pending(i)' = Pending(i)
    BY <1>1 DEF Pending, OthersUnchanged
  <1>4. Cardinality(Pending(o)') = Cardinality(Pending(o)) + 1
    <2>1. IsFiniteSet(Pending(o))
      BY FS_Subset DEF Pending
    <2>2. QED
      BY <2>1, <1>2, FS_AddElement
  <1>5. \A i \in Instruments : unbooked'[i] = IF i = o THEN unbooked[i] + 1 ELSE unbooked[i]
    BY <1>1 DEF TypeOK
  <1>6. QED
    BY <1>1, <1>3, <1>4, <1>5 DEF Booked

LEMMA RecordBooks ==
  ASSUME TypeOK, OrderIsSignal, Booked, IsFiniteSet(Workers), NEW w \in Workers,
         RecordTrade(w), OthersUnchanged(w)
  PROVE  Booked'
  <1>0. PICK o \in Instruments : o = order[w]
    BY DEF RecordTrade, Jump, TypeOK
  <1>1. /\ pc[w] = "returned" /\ pc'[w] = "settle" /\ o = order[w] /\ o = Sig(w)
        /\ \A i \in Instruments : w \notin Pending(i)'
    BY <1>0 DEF RecordTrade, Jump, TypeOK, OrderIsSignal, Pending
  <1>2. CASE reply[w] = Live
    <2>1. unbooked' = [unbooked EXCEPT ![o] = @ - 1]
      BY <1>1, <1>2 DEF RecordTrade
    <2>2. Pending(o)' = Pending(o) \ {w} /\ w \in Pending(o)
      BY <1>1, <1>2 DEF Pending, OthersUnchanged
    <2>3. \A i \in Instruments \ {o} : Pending(i)' = Pending(i)
      BY <1>1 DEF Pending, OthersUnchanged
    <2>4. Cardinality(Pending(o)') = Cardinality(Pending(o)) - 1
      <3>1. IsFiniteSet(Pending(o))
        BY FS_Subset DEF Pending
      <3>2. QED
        BY <3>1, <2>2, FS_RemoveElement
    <2>5. \A i \in Instruments : unbooked'[i] = IF i = o THEN unbooked[i] - 1 ELSE unbooked[i]
      BY <1>1, <2>1 DEF TypeOK
    <2>6. QED
      BY <1>1, <2>3, <2>4, <2>5 DEF Booked
  <1>3. CASE reply[w] # Live
    <2>1. UNCHANGED unbooked /\ \A i \in Instruments : w \notin Pending(i)
      BY <1>3 DEF RecordTrade, Pending
    <2>2. QED
      BY <1>1, <2>1, BooksUntouched
  <1>4. QED
    BY <1>2, <1>3

LEMMA WorkerBooks ==
  ASSUME BookedInv, KeepsInstrument, ~LostReplies, IsFiniteSet(Workers),
         NEW w \in Workers, Worker(w)
  PROVE  Booked'
  <1>1. OthersUnchanged(w)
    BY WorkerStepIsLocal DEF BookedInv
  <1>2. CASE OrderTaken(w) \/ RecordTrade(w)
    BY <1>1, <1>2, TakenBooks, RecordBooks DEF BookedInv
  <1>3. CASE \/ ExecuteFailed(w) \/ NotSent(w) \/ CutOff(w)
             \/ \E r \in Refusals : OrderRefused(w, r)
    <2>1. /\ UNCHANGED unbooked
          /\ ~(pc[w] = "returned" /\ reply[w] = Live)
          /\ ~(pc'[w] = "returned" /\ reply'[w] = Live)
      BY <1>3, LiveIsNoRefusal, PipelineAssumption
         DEF ExecuteFailed, NotSent, CutOff, OrderRefused, Proceed, Jump, marketVars, BookedInv,
             TypeOK, Live
    <2>2. QED
      BY <1>1, <2>1, BooksUntouched DEF BookedInv, Pending
  <1>4. CASE ~ \/ OrderTaken(w) \/ RecordTrade(w)
               \/ ExecuteFailed(w) \/ NotSent(w) \/ CutOff(w)
               \/ \E r \in Refusals : OrderRefused(w, r)
    <2>1. UNCHANGED unbooked /\ pc[w] # "returned" /\ pc'[w] # "returned"
      BY <1>4 DEF Worker, Progress, Receive, ChannelClosed, Tick, Done,
           GenerateFails, NextSignal, BatchEnd, Generated, KillSwitchSkips, KillSwitchPasses,
           GuardRefuses, GuardGrants, RecordDryRun, Rejected, Approved, Send,
           FailedStatus, KeepPosition, ReleaseGuard,
           Proceed, Finish, Jump, marketVars, BookedInv, TypeOK
    <2>2. QED
      BY <1>1, <2>1, BooksUntouched DEF BookedInv, Pending
  <1>5. QED
    BY <1>2, <1>3, <1>4

LEMMA NextBooked ==
  ASSUME KeepsInstrument, ~LostReplies, IsFiniteSet(Workers), BookedInv, [Next]_vars
  PROVE  BookedInv'
  <1>1. TypeOK'
    BY NextType DEF BookedInv
  <1>2. ASSUME NEW w \in Workers, Worker(w) PROVE BookedInv'
    BY <1>1, <1>2, WorkerKeepsOrder, WorkerBooks DEF BookedInv
  <1>3. CASE \/ Cancel
             \/ Monitor
             \/ \E i \in Instruments : PositionEnds(i) \/ BotReleases(i) \/ StrayTaken(i)
             \/ UNCHANGED vars
    <2>1. UNCHANGED <<pc, batch, order, reply, unbooked>>
      BY <1>3 DEF Cancel, Monitor, PositionEnds, BotReleases, StrayTaken, vars, workerVars,
                  marketVars
    <2>2. QED
      BY <1>1, <2>1 DEF BookedInv, OrderIsSignal, Sig, Booked, Pending
  <1>4. QED
    BY <1>2, <1>3 DEF Next, Terminated

\* pipeline.go:200-232: with an evaluator that keeps the signal's instrument
\* and an Execute whose error means that the order was not taken unless the
\* call was cut off, the orders Execute answered for that have no row yet are
\* exactly those some goroutine is about to insert: none is forgotten and none
\* is recorded twice.
THEOREM EveryOrderBooked ==
  ASSUME KeepsInstrument, ~LostReplies, IsFiniteSet(Workers)
  PROVE  Spec => []OrdersBooked
  <1>1. BookedInv /\ [Next]_vars => BookedInv'
    BY NextBooked
  <1>2. BookedInv => OrdersBooked
    BY DEF BookedInv, Booked, Pending, OrdersBooked
  <1>3. QED
    BY <1>1, <1>2, InitBooked, PTL DEF Spec

-----------------------------------------------------------------------------
(* The bot: its steps are the pipeline's, and what a stop leaves behind    *)
(* follows from the order in which RunLifecycle does things.               *)

LEMMA BotStepIsPipelineStep == TypeOK /\ [BotNext]_allVars => [Next]_vars
  <1> SUFFICES ASSUME TypeOK, [BotNext]_allVars PROVE [Next]_vars
    OBVIOUS
  <1> USE DEF vars, pipelineVars
  <1>1. CASE LifecycleStep(L!Main)
    <2>1. UNCHANGED pipelineVars /\ (UNCHANGED ctxDone \/ ctxDone' = TRUE)
      BY <1>1 DEF LifecycleStep, L!Main, L!InitFails, L!InitDone, L!StartRun, L!TakeSignal,
         L!TakeParentDone, L!TakeRunResult, L!CancelBot, L!Drained, L!DrainTimesOut,
         L!CallShutdown, L!Exit
    <2>2. CASE UNCHANGED ctxDone
      BY <2>1, <2>2
    <2>3. CASE ~ctxDone /\ ctxDone' = TRUE
      BY <2>1, <2>3 DEF Next, Cancel
    <2>4. QED
      BY <2>1, <2>2, <2>3 DEF TypeOK
  <1>2. CASE LifecycleStep(L!SendResult) \/ LifecycleStep(L!Signal) \/ RunReturns
    BY <1>2 DEF LifecycleStep, L!SendResult, L!Signal, RunReturns, L!RunReturns
  <1>3. CASE LifecycleStep(L!ParentCancels)
    <2>1. UNCHANGED pipelineVars /\ ctxDone' = TRUE
      BY <1>3 DEF LifecycleStep, L!ParentCancels
    <2>2. QED
      BY <2>1 DEF Next, Cancel, TypeOK
  <1>4. CASE \E w \in Workers : WorkerStep(Worker(w))
    BY <1>4 DEF WorkerStep, Next
  <1>5. CASE \E i \in Instruments : PositionEnded(i) \/ BotReleased(i) \/ LateTaken(i)
    BY <1>5 DEF PositionEnded, BotReleased, LateTaken, WorkerStep, Next
  <1>6. CASE UNCHANGED allVars
    BY <1>6 DEF allVars
  <1>7. QED
    BY <1>1, <1>2, <1>3, <1>4, <1>5, <1>6 DEF BotNext

\* Under RunLifecycle, with its stop requests, its errors and its end of the
\* process, the goroutines do nothing that Pipeline does not allow, so every
\* theorem about Spec holds of the bot.
THEOREM BotRunsPipeline == BotSpec => Spec
  <1>1. BotInit => Init
    BY DEF BotInit
  <1>2. QED
    BY <1>1, InitType, NextType, BotStepIsPipelineStep, PTL DEF BotSpec, Spec

-----------------------------------------------------------------------------
(* What RunLifecycle knows at each of its steps.                           *)

RunOver == bot \in {"sending", "ended"}

\* Run's result is sent after Run, and Run returns after its goroutines.
RunInv ==
    /\ bot \in {"none", "running", "sending", "ended"}
    /\ errCh \in Nat
    /\ errCh > 0 => bot = "ended"
    /\ RunOver => AllStopped
    /\ bot = "none" => \A w \in Workers : pc[w] = "select"

\* Up to Shutdown's call: nothing was reported, and RunLifecycle goes on only
\* when Run is over or the timeout has passed.
MainInv ==
    /\ main \in {"init", "start", "wait", "cancel", "stop", "drain", "shutdown", "alert", "exit"}
    /\ main \in {"init", "start"} => bot = "none"
    /\ main \in {"wait", "cancel", "drain"} => bot # "none"
    /\ main \in {"init", "start", "wait", "cancel", "drain", "stop", "shutdown"} => shutdowns = 0
    /\ main = "alert" => shutdowns = 1
    /\ main # "exit" => runErr # "init"
    /\ main \in {"stop", "shutdown", "alert"} => timedOut \/ RunOver
    /\ main = "exit" => \/ runErr = "init" /\ bot = "none" /\ shutdowns = 0
                        \/ runErr # "init" /\ shutdowns = 1 /\ (timedOut \/ RunOver)

\* An executor that does not look at the context leaves nothing adrift.
AbortInv == ~cfg.aborts => \A i \in Instruments : adrift[i] = 0 /\ strays[i] = 0

StopInv == EntryInv /\ BookedInv /\ AbortInv /\ RunInv /\ MainInv

LEMMA InitStop == BotInit => RunInv /\ MainInv
  BY DEF BotInit, L!Init, Init, RunInv, MainInv, RunOver

\* main's steps, the sender's and the requests: the goroutines stand still.
LEMMA LifecycleKeeps ==
  ASSUME RunInv, MainInv,
         \/ LifecycleStep(L!Main)
         \/ LifecycleStep(L!SendResult)
         \/ LifecycleStep(L!Signal)
         \/ LifecycleStep(L!ParentCancels)
  PROVE  RunInv' /\ MainInv'
  <1>1. UNCHANGED pc
    BY DEF LifecycleStep, pipelineVars, workerVars
  <1> USE <1>1 DEF LifecycleStep, RunInv, MainInv, RunOver, AllStopped
  <1>2. CASE L!InitFails \/ L!InitDone \/ L!StartRun
    BY <1>2 DEF L!InitFails, L!InitDone, L!StartRun, L!botVars
  <1>3. CASE L!TakeSignal \/ L!TakeParentDone \/ L!CancelBot \/ L!DrainTimesOut
    BY <1>3 DEF L!TakeSignal, L!TakeParentDone, L!CancelBot, L!DrainTimesOut, L!botVars
  <1>4. CASE L!TakeRunResult \/ L!Drained
    BY <1>4 DEF L!TakeRunResult, L!Drained, L!Receive
  <1>5. CASE L!CallShutdown \/ L!Exit
    BY <1>5 DEF L!CallShutdown, L!ShutdownError, L!Exit, L!botVars
  <1>6. CASE L!SendResult \/ L!Signal \/ L!ParentCancels
    BY <1>6 DEF L!SendResult, L!Signal, L!ParentCancels, L!botVars
  <1>7. QED
    BY <1>2, <1>3, <1>4, <1>5, <1>6 DEF L!Main

\* A goroutine moves only while Run has not returned.
LEMMA WorkerMovesWhileRunning ==
  ASSUME TypeOK, RunInv, NEW w \in Workers, WorkerStep(Worker(w))
  PROVE  bot = "running"
  <1>1. pc[w] # "stopped"
    BY DEF WorkerStep, Worker, Progress, Receive, ChannelClosed, Tick, Done,
           GenerateFails, NextSignal, BatchEnd, Generated, KillSwitchSkips, KillSwitchPasses,
           GuardRefuses, GuardGrants, RecordDryRun, Rejected, Approved, NotSent, Send, OrderTaken, OrderRefused, CutOff,
           ExecuteFailed, RecordTrade, FailedStatus, KeepPosition, ReleaseGuard,
           Proceed, Finish, Jump
  <1>2. QED
    BY <1>1 DEF WorkerStep, Alive, RunInv, RunOver, AllStopped

LEMMA NextRun ==
  ASSUME TypeOK, RunInv, MainInv, [BotNext]_allVars
  PROVE  RunInv' /\ MainInv'
  <1>1. CASE \/ LifecycleStep(L!Main)
             \/ LifecycleStep(L!SendResult)
             \/ LifecycleStep(L!Signal)
             \/ LifecycleStep(L!ParentCancels)
    BY <1>1, LifecycleKeeps
  <1>2. CASE RunReturns
    BY <1>2 DEF RunReturns, L!RunReturns, pipelineVars, workerVars,
                RunInv, MainInv, RunOver, AllStopped
  <1>3. ASSUME NEW w \in Workers, WorkerStep(Worker(w)) PROVE RunInv' /\ MainInv'
    <2>1. bot = "running"
      BY <1>3, WorkerMovesWhileRunning
    <2>2. UNCHANGED <<main, bot, errCh, timedOut, runErr, shutdowns>>
      BY <1>3 DEF WorkerStep, lifecycleVars
    <2>3. QED
      BY <2>1, <2>2 DEF RunInv, MainInv, RunOver
  <1>4. CASE \E i \in Instruments : PositionEnded(i) \/ BotReleased(i) \/ LateTaken(i)
    BY <1>4 DEF PositionEnded, BotReleased, LateTaken, WorkerStep, PositionEnds, BotReleases,
                StrayTaken,
                lifecycleVars, workerVars, RunInv, MainInv, RunOver, AllStopped
  <1>5. CASE UNCHANGED allVars
    BY <1>5 DEF allVars, pipelineVars, workerVars, lifecycleVars,
                RunInv, MainInv, RunOver, AllStopped
  <1>6. QED
    BY <1>1, <1>2, <1>3, <1>4, <1>5 DEF BotNext

LEMMA NextAbort == TypeOK /\ AbortInv /\ [Next]_vars => AbortInv'
  <1> SUFFICES ASSUME TypeOK, AbortInv, [Next]_vars, ~cfg'.aborts
               PROVE  \A i \in Instruments : adrift'[i] = 0 /\ strays'[i] = 0
    BY DEF AbortInv
  <1>1. UNCHANGED cfg
    BY WorkerStepIsLocal DEF Next, Terminated, Cancel, Monitor, PositionEnds, BotReleases,
                             StrayTaken, vars
  <1>2. \A w \in Workers : ~CutOff(w)
    BY <1>1 DEF CutOff
  <1>3. \A i \in Instruments : ~StrayTaken(i)
    BY <1>1 DEF StrayTaken, AbortInv
  <1>4. UNCHANGED <<adrift, strays>>
    <2>1. ASSUME NEW w \in Workers, Worker(w) PROVE UNCHANGED <<adrift, strays>>
      BY <1>2, <2>1 DEF Worker, Progress, Receive, ChannelClosed, Tick, Done,
           GenerateFails, NextSignal, BatchEnd, Generated, KillSwitchSkips, KillSwitchPasses,
           GuardRefuses, GuardGrants, RecordDryRun, Rejected, Approved, NotSent, Send, OrderTaken,
           OrderRefused, ExecuteFailed, RecordTrade, FailedStatus, KeepPosition,
           ReleaseGuard, Proceed, Finish, marketVars
    <2>2. CASE \/ Cancel \/ Monitor \/ UNCHANGED vars
               \/ \E i \in Instruments : PositionEnds(i) \/ BotReleases(i)
      BY <2>2 DEF Cancel, Monitor, PositionEnds, BotReleases, vars, marketVars
    <2>3. QED
      BY <1>3, <2>1, <2>2 DEF Next, Terminated
  <1>5. QED
    BY <1>1, <1>4 DEF AbortInv

LEMMA NextStop ==
  ASSUME KeepsInstrument, ~LostReplies, IsFiniteSet(Workers), StopInv, [BotNext]_allVars
  PROVE  StopInv'
  <1>1. [Next]_vars
    BY BotStepIsPipelineStep DEF StopInv, BookedInv
  <1>2. QED
    BY <1>1, NextEntry, NextBooked, NextAbort, NextRun DEF StopInv, BookedInv

LEMMA InitStopInv == BotInit => StopInv
  <1>1. BotInit => AbortInv
    BY DEF BotInit, Init, AbortInv
  <1>2. QED
    BY <1>1, InitStop, InitEntry, InitBooked DEF BotInit, StopInv

\* How many orders of an instrument the market has taken or may yet take.
Out(i) == exposure[i] + adrift[i] + strays[i]

\* Only a goroutine's step adds to them.
LEMMA OnlyWorkersSend ==
  ASSUME TypeOK, [BotNext]_allVars, NEW i \in Instruments, Out(i)' > Out(i)
  PROVE  \E w \in Workers : WorkerStep(Worker(w))
  <1>1. CASE \/ LifecycleStep(L!Main) \/ LifecycleStep(L!SendResult)
             \/ LifecycleStep(L!Signal) \/ LifecycleStep(L!ParentCancels)
             \/ RunReturns \/ UNCHANGED allVars
    <2>1. UNCHANGED <<exposure, adrift, strays>>
      BY <1>1 DEF LifecycleStep, RunReturns, allVars, pipelineVars, marketVars
    <2>2. QED
      BY <2>1 DEF TypeOK, Out
  <1>2. CASE \E j \in Instruments : PositionEnded(j) \/ BotReleased(j) \/ LateTaken(j)
    <2>1. PICK j \in Instruments : PositionEnds(j) \/ BotReleases(j) \/ StrayTaken(j)
      BY <1>2 DEF PositionEnded, BotReleased, LateTaken, WorkerStep
    <2>2. CASE PositionEnds(j)
      BY <2>2 DEF PositionEnds, TypeOK, Out
    <2>3. CASE BotReleases(j)
      BY <2>3 DEF BotReleases, TypeOK, Out
    <2>4. CASE StrayTaken(j)
      BY <2>4 DEF StrayTaken, TypeOK, Out
    <2>5. QED
      BY <2>1, <2>2, <2>3, <2>4
  <1>3. QED
    BY <1>1, <1>2 DEF BotNext

\* bot.go:137-153: once Shutdown was called no call of Execute makes an order
\* or leaves a request adrift, and so Shutdown's CancelAll misses only what
\* was adrift before, unless the wait for Run timed out; whatever requests,
\* errors and signals come, for any number of goroutines.
THEOREM ShutdownIsFinal == BotSpec => NoOrderAfterShutdown
  <1> DEFINE Moved == [BotNext]_allVars /\ TypeOK /\ RunInv /\ MainInv
  <1>1. Moved => TypeOK' /\ RunInv' /\ MainInv'
    BY NextType, NextRun, BotStepIsPipelineStep
  <1>2. ASSUME TypeOK, RunInv, MainInv, [BotNext]_allVars,
               NEW i \in Instruments, Out(i)' > Out(i)
        PROVE  shutdowns = 0 \/ timedOut
    <2>1. PICK w \in Workers : WorkerStep(Worker(w))
      BY <1>2, OnlyWorkersSend
    <2>2. bot = "running" /\ main # "exit"
      BY <1>2, <2>1, WorkerMovesWhileRunning DEF WorkerStep, Alive
    <2>3. QED
      BY <1>2, <2>2 DEF MainInv, RunOver
  <1>3. Moved => [(\E i \in Instruments : exposure'[i] + adrift'[i] + strays'[i]
                                           > exposure[i] + adrift[i] + strays[i])
                     => shutdowns = 0 \/ timedOut]_allVars
    BY <1>2 DEF Out
  <1>4. BotInit => TypeOK /\ RunInv /\ MainInv
    BY InitType, InitStop DEF BotInit
  <1>5. QED
    BY <1>1, <1>3, <1>4, PTL DEF BotSpec, NoOrderAfterShutdown

\* bot.go:143-153: when the process ends and the wait did not time out, no
\* goroutine was cut off with a claim, an initialised bot was shut down once,
\* and the orders without a row are those of calls the end of the context cut
\* off: none for an executor that does not look at it, and with the guard at
\* most one on each instrument.  Evaluators keep the signal's instrument, and
\* an error of a call that was not cut off means that no order was taken.
THEOREM ExitIsClean ==
  ASSUME KeepsInstrument, ~LostReplies, IsFiniteSet(Workers)
  PROVE  BotSpec => []CleanExit
  <1>1. StopInv /\ [BotNext]_allVars => StopInv'
    BY NextStop
  <1>2. ASSUME StopInv, main = "exit", ~timedOut
        PROVE  /\ \A w \in Workers : ~HoldsClaim(w)
               /\ shutdowns = IF runErr = "init" THEN 0 ELSE 1
               /\ \A i \in Instruments :
                     /\ unbooked[i] = 0
                     /\ ~cfg.aborts => adrift[i] + strays[i] = 0
                     /\ cfg.guard => adrift[i] + strays[i] <= 1
    <2>1. \A w \in Workers : pc[w] \in {"select", "stopped"}
      BY <1>2 DEF StopInv, RunInv, MainInv, RunOver, AllStopped
    <2>2. \A i \in Instruments : Pending(i) = {}
      BY <2>1 DEF Pending
    <2>3. \A i \in Instruments : unbooked[i] = 0
      BY <1>2, <2>2, FS_EmptySet DEF StopInv, BookedInv, Booked
    <2>4. \A i \in Instruments : ~cfg.aborts => adrift[i] + strays[i] = 0
      BY <1>2 DEF StopInv, AbortInv
    <2>5. \A i \in Instruments : cfg.guard => adrift[i] + strays[i] <= 1
      <3> SUFFICES ASSUME NEW i \in Instruments, cfg.guard
                   PROVE  adrift[i] + strays[i] <= 1
        OBVIOUS
      <3>1. adrift[i] \in Nat /\ strays[i] \in Nat
        BY <1>2 DEF StopInv, EntryInv, GuardInv, TypeOK
      <3>2. adrift[i] + strays[i] > 0 => adrift[i] + strays[i] = 1
        BY <1>2 DEF StopInv, EntryInv, AdriftInv
      <3>3. QED
        BY <3>1, <3>2
    <2>6. QED
      BY <1>2, <2>1, <2>3, <2>4, <2>5 DEF HoldsClaim, StopInv, MainInv
  <1>3. StopInv => CleanExit
    BY <1>2 DEF CleanExit
  <1>4. QED
    BY <1>1, <1>3, InitStopInv, PTL DEF BotSpec

-----------------------------------------------------------------------------
(* Which error RunLifecycle returns.  That main's answer is right at the   *)
(* end depends on how it got there: without a stop request only by taking  *)
(* Run's result, which is then final.                                      *)

ErrorInv ==
    /\ bot \in {"none", "running"} => botErr = "nil"
    /\ main \in {"init", "start", "wait", "cancel", "drain"} => runErr = "nil"
    /\ main \in {"init", "start", "wait"} /\ ~asked => ~stopCh /\ ~parentDone
    /\ main \in {"cancel", "drain"} => asked
    /\ main \in {"stop", "shutdown", "alert", "exit"} /\ ~asked /\ runErr # "init"
         => RunOver /\ (runErr = "run" <=> botErr = "failed")
    /\ runErr # "canceled"

LEMMA InitError == BotInit => ErrorInv
  BY DEF BotInit, L!Init, ErrorInv

LEMMA LifecycleKeepsError ==
  ASSUME RunInv, MainInv, ErrorInv,
         \/ LifecycleStep(L!Main)
         \/ LifecycleStep(L!SendResult)
         \/ LifecycleStep(L!Signal)
         \/ LifecycleStep(L!ParentCancels)
  PROVE  ErrorInv'
  <1> USE DEF LifecycleStep, RunInv, MainInv, ErrorInv, RunOver
  <1>1. CASE L!InitFails \/ L!InitDone \/ L!StartRun
    BY <1>1 DEF L!InitFails, L!InitDone, L!StartRun, L!botVars, L!requests
  <1>2. CASE L!TakeSignal \/ L!TakeParentDone \/ L!CancelBot \/ L!DrainTimesOut
    BY <1>2 DEF L!TakeSignal, L!TakeParentDone, L!CancelBot, L!DrainTimesOut, L!botVars,
                L!requests
  <1>3. CASE L!TakeRunResult \/ L!Drained
    BY <1>3 DEF L!TakeRunResult, L!Drained, L!Receive, L!requests
  <1>4. CASE L!CallShutdown \/ L!Exit
    BY <1>4 DEF L!CallShutdown, L!ShutdownError, L!Exit, L!botVars, L!requests
  <1>5. CASE L!SendResult
    BY <1>5 DEF L!SendResult, L!requests
  <1>6. CASE L!Signal \/ L!ParentCancels
    BY <1>6 DEF L!Signal, L!ParentCancels, L!Waiting, L!botVars, L!requests
  <1>7. QED
    BY <1>1, <1>2, <1>3, <1>4, <1>5, <1>6 DEF L!Main

LEMMA NextError ==
  ASSUME TypeOK, RunInv, MainInv, ErrorInv, [BotNext]_allVars
  PROVE  RunInv' /\ MainInv' /\ ErrorInv'
  <1>1. RunInv' /\ MainInv'
    BY NextRun
  <1>2. CASE \/ LifecycleStep(L!Main)
             \/ LifecycleStep(L!SendResult)
             \/ LifecycleStep(L!Signal)
             \/ LifecycleStep(L!ParentCancels)
    BY <1>1, <1>2, LifecycleKeepsError
  <1>3. CASE RunReturns
    BY <1>1, <1>3 DEF RunReturns, L!RunReturns, L!requests, L!Errors, RunInv, MainInv,
                      ErrorInv, RunOver
  <1>4. CASE UNCHANGED lifecycleVars
    BY <1>1, <1>4 DEF lifecycleVars, ErrorInv, RunOver
  <1>5. QED
    BY <1>2, <1>3, <1>4 DEF BotNext, WorkerStep, PositionEnded, BotReleased, LateTaken, allVars

\* bot.go:123-157: an error that stopped the bot is what RunLifecycle returns,
\* whatever Shutdown returns; only a stop request may come first and hide it.
\* For every bot, any number of goroutines and any capacity of errCh.
THEOREM ErrorIsReported == BotSpec => []RunErrorReported
  <1>1. ErrorInv => RunErrorReported
    BY DEF ErrorInv, RunErrorReported, L!RunErrorReported
  <1>2. TypeOK /\ [BotNext]_allVars => TypeOK'
    BY NextType, BotStepIsPipelineStep
  <1>3. BotInit => TypeOK
    BY InitType DEF BotInit
  <1>4. QED
    BY <1>1, <1>2, <1>3, InitStop, InitError, NextError, PTL DEF BotSpec
=============================================================================
