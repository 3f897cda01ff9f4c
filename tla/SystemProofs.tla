------------------------------ MODULE SystemProofs ------------------------------
(***************************************************************************)
(* The engine keeps its promises among the parts added to it, and theirs    *)
(* hold for any callers, bucket, bounds and feature flags.                  *)
(***************************************************************************)
EXTENDS System, EngineProofs

-----------------------------------------------------------------------------
(* The system's steps are the engine's steps or leave the engine alone.     *)

\* The engine moves in the system as it does alone.
LEMMA EngineMovesAre == EngineMoves => Next /\ UNCHANGED moves
  BY DEF EngineMoves, Next, Step, BridgeStep

\* A call moves the engine by issuing a token, if at all.
LEMMA CallMovesAre == CallMoves => Next \/ UNCHANGED vars
  <1>1. ASSUME NEW c \in Caller, Issued(c)
        PROVE  Next
    BY <1>1 DEF Issued, Next, Step, BridgeStep, BridgeAlone
  <1>2. CASE Tick
    BY <1>2 DEF Tick
  <1>3. ASSUME NEW c \in Caller,
               \/ Waits(c) \/ Granted(c) \/ TakesLock(c) \/ OtherAsks(c) \/ Cancelled(c)
               \/ Answered(c) \/ IssueFails(c) \/ CallFails(c)
        PROVE  UNCHANGED vars
    BY <1>3 DEF Waits, Granted, TakesLock, OtherAsks, Cancelled, Answered, IssueFails, CallFails
  <1> QED
    BY <1>1, <1>2, <1>3 DEF CallMoves

\* The cache leaves the engine alone.
LEMMA CapitalMovesAre == CapitalMoves => UNCHANGED vars
  BY DEF CapitalMoves, CapitalRead, CapitalAges, RefreshAnswered, RefreshFails, Answered, IssueFails, CallFails

\* The bot moves the engine by its commands, if at all.
LEMMA BotStepIs == BotStep => Next \/ UNCHANGED vars
  <1>1. CASE RunsUpdate
    BY <1>1 DEF RunsUpdate, Handled, Next, Step, BridgeStep, Commanded
  <1> QED
    BY <1>1 DEF BotStep, Sends, Polls, PollFails, Replied

\* The schedulers leave the engine alone.
LEMMA DigestStepIs == DigestStep => UNCHANGED vars
  BY DEF DigestStep, TimePasses, Wakes, DigestSent, DigestFails, Rested

\* Whatever Engine's theorems say of Spec holds of the system.
THEOREM SystemIsEngine == SysSpec => Spec
  <1>1. SysInit => Init
    BY DEF SysInit
  <1>2. [SysNext]_sysVars => [Next]_vars
    <2>1. CASE SysNext
      BY <2>1, EngineMovesAre, CallMovesAre, CapitalMovesAre, BotStepIs, DigestStepIs DEF SysNext
    <2>2. CASE UNCHANGED sysVars
      BY <2>2 DEF sysVars
    <2> QED
      BY <2>1, <2>2
  <1> QED
    BY <1>1, <1>2, PTL DEF SysSpec, Spec

-----------------------------------------------------------------------------
(* The gateway.                                                             *)

Steps == {"idle", "waits", "locks", "issues", "sends"}

\* The bucket holds what it may, and what is owed is what it lacks.
BucketInv ==
    /\ bucket.level \in 0 .. Capacity /\ bucket.age \in Nat
    /\ bucket = [level |-> bucket.level, age |-> bucket.age]
    /\ owed \in Nat
    /\ owed <= Capacity - Refilled

\* One coroutine at a time is behind the lock of the token manager.
LockInv ==
    /\ calls \in [Caller -> Steps]
    /\ \A c, d \in Caller : At(c, "issues") /\ At(d, "issues") => c = d
    /\ TokenIssuedOnce

\* What the assumptions say of the bucket.
LEMMA CapacityIs == Capacity \in Nat /\ Cost \in Nat /\ Cost > 0
  BY GatewayAssumption DEF Capacity

\* A new client has a full bucket.
LEMMA FullIs ==
    ASSUME bucket' = FullBucket, owed' = 0
    PROVE  BucketInv'
  BY CapacityIs DEF BucketInv, FullBucket, Refilled

\* A refill never takes from the bucket, nor runs it over.
LEMMA RefilledIs ==
    ASSUME BucketInv
    PROVE  Refilled \in 0 .. Capacity /\ bucket.level <= Refilled
  BY CapacityIs DEF BucketInv, Refilled

\* Time passes.
LEMMA TickKeeps ==
    ASSUME BucketInv, Tick
    PROVE  BucketInv'
  <1>1. /\ bucket' = [level |-> bucket.level, age |-> bucket.age + 1]
        /\ owed' = IF owed > 0 THEN owed - 1 ELSE 0
    BY DEF Tick, BucketInv
  <1>2. /\ bucket'.level = bucket.level /\ bucket'.age = bucket.age + 1
        /\ bucket' = [level |-> bucket'.level, age |-> bucket'.age]
    BY <1>1
  <1> QED
    BY <1>1, <1>2, CapacityIs DEF BucketInv, Refilled

\* The bucket is too low.
LEMMA WaitsKeeps ==
    ASSUME BucketInv, NEW c \in Caller, Waits(c)
    PROVE  BucketInv'
  <1>1. bucket' = [level |-> Refilled, age |-> 0] /\ owed' = owed
    BY DEF Waits, Refill
  <1>2. /\ bucket'.level = Refilled /\ bucket'.age = 0
        /\ bucket' = [level |-> bucket'.level, age |-> bucket'.age]
    BY <1>1
  <1>3. Refilled' = Refilled
    BY <1>2, RefilledIs, CapacityIs DEF Refilled
  <1> QED
    BY <1>1, <1>2, <1>3, RefilledIs DEF BucketInv

\* A caller is granted a token of the bucket.
LEMMA GrantKeeps ==
    ASSUME BucketInv, NEW c \in Caller, Granted(c)
    PROVE  BucketInv'
  <1>1. /\ bucket' = [level |-> Refilled - Cost, age |-> 0]
        /\ owed' = owed + Cost
        /\ Refilled >= Cost
    BY DEF Granted, Refill
  <1>2. /\ bucket'.level = Refilled - Cost /\ bucket'.age = 0
        /\ bucket' = [level |-> bucket'.level, age |-> bucket'.age]
    BY <1>1
  <1>3. Refilled' = Refilled - Cost
    BY <1>1, <1>2, RefilledIs, CapacityIs DEF Refilled
  <1> QED
    BY <1>1, <1>2, <1>3, RefilledIs, CapacityIs DEF BucketInv

\* Every step keeps the bucket and what is owed.
LEMMA BucketStep == BucketInv /\ [SysNext]_sysVars => BucketInv'
  <1> SUFFICES ASSUME BucketInv, [SysNext]_sysVars
               PROVE  BucketInv'
    OBVIOUS
  <1>1. CASE UNCHANGED <<bucket, owed>>
    BY <1>1 DEF BucketInv, Refilled
  <1>2. CASE EngineMoves
    BY <1>1, <1>2, FullIs DEF EngineMoves, GatewayFollows
  <1>3. CASE CallMoves
    <2>1. ASSUME NEW c \in Caller,
                 \/ TakesLock(c) \/ Issued(c) \/ OtherAsks(c) \/ Cancelled(c)
                 \/ Answered(c) \/ IssueFails(c) \/ CallFails(c)
          PROVE  UNCHANGED <<bucket, owed>>
      BY <2>1 DEF TakesLock, Issued, OtherAsks, Asks, Cancelled, Answered, IssueFails, CallFails
    <2> QED
      BY <1>1, <1>3, <2>1, TickKeeps, WaitsKeeps, GrantKeeps DEF CallMoves
  <1>4. CASE CapitalMoves
    BY <1>1, <1>4 DEF CapitalMoves, CapitalRead, Asks, CapitalAges, RefreshAnswered, RefreshFails,
                      Answered, IssueFails, CallFails, gateVars
  <1>5. CASE BotStep \/ DigestStep \/ UNCHANGED sysVars
    BY <1>1, <1>5 DEF BotStep, Sends, Polls, PollFails, RunsUpdate, Handled, Replied, KeepsOthers, KeepsRest,
                      DigestStep, TimePasses, Wakes, DigestSent, DigestFails, Rested, sysVars, gateVars
  <1> QED
    BY <1>2, <1>3, <1>4, <1>5 DEF SysNext

(* rate_limiter.py: over any stretch of time the callers are granted no     *)
(* more than burst_capacity and what rate_per_second gives meanwhile.       *)
THEOREM RateIsKept == SysSpec => []GrantsWithinRate
  <1>1. SysInit => BucketInv
    BY CapacityIs DEF SysInit, GatewayInit, FullBucket, BucketInv, Refilled
  <1>2. BucketInv => GrantsWithinRate
    BY RefilledIs, CapacityIs DEF BucketInv, GrantsWithinRate
  <1> QED
    BY <1>1, <1>2, BucketStep, PTL DEF SysSpec

-----------------------------------------------------------------------------
(* The lock of the token manager.                                           *)

\* A caller goes a step, to "issues" when nobody is there and no token is fresh.
LEMMA LockedSteps ==
    ASSUME LockInv, NEW c \in Caller, NEW step \in Steps, Goes(c, step),
           step = "issues" => ~Issuing /\ ~Fresh,
           token' = token \/ (At(c, "issues") /\ step # "issues")
    PROVE  LockInv'
  <1>1. calls' \in [Caller -> Steps]
    BY DEF Goes, LockInv
  <1>2. \A d \in Caller : calls'[d] = IF d = c THEN step ELSE calls[d]
    BY DEF Goes, LockInv
  <1>3. ASSUME NEW d \in Caller, NEW e \in Caller, At(d, "issues")', At(e, "issues")'
        PROVE  d = e
    <2>1. CASE step = "issues"
      BY <1>2, <1>3, <2>1 DEF At, Issuing
    <2>2. CASE step # "issues"
      BY <1>2, <1>3, <2>2 DEF At, LockInv
    <2> QED
      BY <2>1, <2>2
  <1>4. ASSUME NEW d \in Caller, At(d, "issues")'
        PROVE  ~Fresh'
    <2>1. CASE d = c
      BY <1>2, <1>4, <2>1 DEF At, Fresh
    <2>2. CASE d # c
      <3>1. At(d, "issues")
        BY <1>2, <1>4, <2>2 DEF At
      <3>2. ~Fresh
        BY <3>1 DEF LockInv, TokenIssuedOnce, Issuing
      <3>3. ~At(c, "issues")
        BY <2>2, <3>1 DEF LockInv
      <3> QED
        BY <3>2, <3>3 DEF Fresh
    <2> QED
      BY <2>1, <2>2
  <1> QED
    BY <1>1, <1>3, <1>4 DEF LockInv, TokenIssuedOnce, Issuing

\* Every step keeps one coroutine behind the lock.
LEMMA LockStep == LockInv /\ [SysNext]_sysVars => LockInv'
  <1> SUFFICES ASSUME LockInv, [SysNext]_sysVars
               PROVE  LockInv'
    OBVIOUS
  <1>1. CASE UNCHANGED <<calls, token>>
    BY <1>1 DEF LockInv, At, TokenIssuedOnce, Issuing, Fresh
  <1>2. CASE EngineMoves
    <2>1. CASE calls' = NoCalls
      BY <2>1 DEF LockInv, NoCalls, At, TokenIssuedOnce, Issuing, Steps
    <2>2. CASE calls' # NoCalls
      <3>1. calls' = [calls EXCEPT !["capital"] = @] \/ calls' = [calls EXCEPT !["capital"] = "waits"]
        BY <1>2, <2>2 DEF EngineMoves, CachesFollow
      <3>2. \A c \in Caller : calls'[c] = calls[c] \/ calls'[c] = "waits"
        BY <3>1 DEF LockInv
      <3>3. calls' \in [Caller -> Steps]
        BY <3>1, GatewayAssumption DEF LockInv, Steps
      <3>4. Issuing => token' = token
        BY <1>2, <2>2 DEF EngineMoves, CachesFollow, GatewayFollows
      <3>5. \A c \in Caller : At(c, "issues")' => At(c, "issues")
        BY <3>2 DEF At
      <3> QED
        BY <3>3, <3>4, <3>5 DEF LockInv, TokenIssuedOnce, Issuing, Fresh
    <2> QED
      BY <2>1, <2>2
  <1>3. CASE CallMoves
    <2>1. CASE Tick
      BY <1>1, <2>1 DEF Tick, vars, streamVars
    <2>2. ASSUME NEW c \in Caller, Waits(c)
          PROVE  LockInv'
      BY <1>1, <2>2 DEF Waits, vars, streamVars
    <2>3. ASSUME NEW c \in Caller, Granted(c)
          PROVE  LockInv'
      BY <2>3, LockedSteps DEF Granted, Steps, vars, streamVars
    <2>4. ASSUME NEW c \in Caller, TakesLock(c)
          PROVE  LockInv'
      BY <2>4, LockedSteps DEF TakesLock, AfterLock, Steps, vars, streamVars
    <2>5. ASSUME NEW c \in Caller, Issued(c)
          PROVE  LockInv'
      BY <2>5, LockedSteps DEF Issued, Steps
    <2>6. ASSUME NEW c \in Caller, OtherAsks(c)
          PROVE  LockInv'
      BY <2>6, LockedSteps DEF OtherAsks, Asks, Steps, vars, streamVars
    <2>7. ASSUME NEW c \in Caller, Cancelled(c) \/ Answered(c) \/ IssueFails(c) \/ CallFails(c)
          PROVE  LockInv'
      BY <2>7, LockedSteps DEF Cancelled, Answered, IssueFails, CallFails, Steps, vars, streamVars
    <2> QED
      BY <1>3, <2>1, <2>2, <2>3, <2>4, <2>5, <2>6, <2>7 DEF CallMoves
  <1>4. CASE CapitalMoves
    <2>1. CASE CapitalAges
      BY <1>1, <2>1 DEF CapitalAges, gateVars, vars, streamVars
    <2>2. CASE CapitalRead
      BY <2>2, LockedSteps, GatewayAssumption DEF CapitalRead, Asks, Steps, vars, streamVars
    <2>3. CASE RefreshAnswered \/ RefreshFails
      BY <2>3, LockedSteps, GatewayAssumption
         DEF RefreshAnswered, RefreshFails, Answered, IssueFails, CallFails, Steps, vars, streamVars
    <2> QED
      BY <1>4, <2>1, <2>2, <2>3 DEF CapitalMoves
  <1>5. CASE BotStep
    <2>1. CASE RunsUpdate
      BY <1>1, <2>1 DEF RunsUpdate, Handled, TelegramStop, TelegramResume, KeepsParts, KeepsOthers, gateVars,
                        vars, streamVars
    <2> QED
      BY <1>1, <1>5, <2>1 DEF BotStep, Sends, Polls, PollFails, Replied, KeepsOthers, gateVars,
                              vars, streamVars
  <1>6. CASE DigestStep \/ UNCHANGED sysVars
    BY <1>1, <1>6 DEF DigestStep, TimePasses, Wakes, DigestSent, DigestFails, Rested, KeepsRest,
                      sysVars, gateVars, vars, streamVars
  <1> QED
    BY <1>2, <1>3, <1>4, <1>5, <1>6 DEF SysNext

(* token_manager.py: nobody has a token issued while the cached one is      *)
(* fresh, and nobody beside another who has one issued.                     *)
THEOREM TokenIsIssuedOnce == SysSpec => []TokenIssuedOnce
  <1>1. SysInit => LockInv
    BY DEF SysInit, GatewayInit, NoCalls, LockInv, At, TokenIssuedOnce, Issuing, Steps
  <1>2. LockInv => TokenIssuedOnce
    BY DEF LockInv
  <1> QED
    BY <1>1, <1>2, LockStep, PTL DEF SysSpec

-----------------------------------------------------------------------------
(* A part that attach has not built yet, in this process.                   *)

Unbuilt(part) == engine.phase \in {"down", "attaching"} /\ part \notin up

\* A process that is attaching has been down or attaching before.
LEMMA PhasesLast ==
    ASSUME TypeInv, Next, ~ProcessEnds
    PROVE  /\ engine'.phase \in {"down", "attaching"} => engine.phase \in {"down", "attaching"}
           /\ engine'.phase = "down" => engine.phase = "down"
  <1>0. engine \in EngineRecord /\ Underway(engine)
    BY DEF TypeInv, EngineInv
  <1>1. CASE UNCHANGED engineVars
    BY <1>1 DEF engineVars
  <1>2. CASE Boot \/ Build \/ AttachRaises
    BY <1>0, <1>2 DEF Boot, Build, AttachRaises, Attaching, Down, EngineRecord, Underway
  <1>3. CASE \/ RecoveryEnters \/ RecoveryResubscribes \/ ResubscribeBreaks
             \/ RecoveryReleases \/ RecoveryReports
    BY <1>0, <1>3 DEF RecoveryEnters, RecoveryResubscribes, ResubscribeBreaks, RecoveryReleases,
                      RecoveryReports, EngineRecord
  <1>4. CASE Crash \/ Exit
    BY <1>4 DEF Crash, Exit
  <1>5. CASE Shutdown \/ Detach
    BY <1>0, <1>5 DEF Shutdown, Detach, EngineRecord
  <1>6. CASE \/ WebPause \/ WebResume \/ TelegramStop \/ TelegramResume
             \/ WindowOpens \/ WindowEnds \/ MaintenanceLoop \/ CallAsksToken
    BY <1>6 DEF WebPause, WebResume, TelegramStop, TelegramResume, WindowOpens, WindowEnds,
                MaintenanceLoop, MaintenanceEnters, MaintenanceReleases, MaintenanceCatchesUp,
                MaintenanceSnapshots, MaintenanceTells, CallAsksToken, KeepsParts, engineVars
  <1> QED
    BY <1>1, <1>2, <1>3, <1>4, <1>5, <1>6, EngineFrame DEF BridgeStep, BridgeAlone, Commanded

\* A part that is not built yet was not built before.
LEMMA UnbuiltBefore ==
    ASSUME TypeInv, Next, NEW part, part # "prime", Unbuilt(part)'
    PROVE  Unbuilt(part) \/ ProcessEnds
  <1>0. engine \in EngineRecord
    BY DEF TypeInv, EngineInv
  <1>1. CASE Build
    BY <1>1 DEF Build, Attaching, Unbuilt
  <1>2. CASE Detach
    BY <1>0, <1>2 DEF Detach, EngineRecord, Unbuilt
  <1>3. CASE up' \in {up, up \ {"prime"}}
    BY <1>3, PhasesLast DEF Unbuilt
  <1> QED
    BY <1>1, <1>2, <1>3, UpFrame DEF UpMove

\* Parts are built by attach only.
LEMMA BuiltWhileAttaching ==
    ASSUME TypeInv, Next, NEW part, part \in up' \ up
    PROVE  Unbuilt(part) /\ engine'.phase # "down"
  <1>0. engine \in EngineRecord
    BY DEF TypeInv, EngineInv
  <1>1. CASE Build
    BY <1>0, <1>1 DEF Build, Attaching, Unbuilt, EngineRecord
  <1>2. CASE Detach
    BY <1>2 DEF Detach, Cancels
  <1>3. CASE up' \in {up, up \ {"prime"}}
    BY <1>3
  <1>4. CASE ProcessEnds
    BY <1>4 DEF ProcessEnds
  <1> QED
    BY <1>1, <1>2, <1>3, <1>4, UpFrame DEF UpMove

\* A process that is down has no parts.
DownInv == engine.phase = "down" => up = {}

\* Every step leaves a process that is down without parts.
LEMMA DownStep == DownInv /\ TypeInv /\ Next => DownInv'
  <1> SUFFICES ASSUME DownInv, TypeInv, Next, engine'.phase = "down"
               PROVE  up' = {}
    BY DEF DownInv
  <1>1. CASE ProcessEnds
    BY <1>1 DEF ProcessEnds
  <1>2. CASE ~ProcessEnds
    <2>1. engine.phase = "down"
      BY <1>2, PhasesLast
    <2>2. ASSUME NEW part \in up'
          PROVE  FALSE
      BY <2>1, <2>2, BuiltWhileAttaching DEF DownInv
    <2> QED
      BY <2>2
  <1> QED
    BY <1>1, <1>2

\* A step of the system is one of the engine or leaves it alone.
LEMMA SysStepIs == SysNext => Next \/ UNCHANGED vars
  BY EngineMovesAre, CallMovesAre, CapitalMovesAre, BotStepIs, DigestStepIs DEF SysNext

\* What the engine keeps, it keeps in the system.
THEOREM EngineHolds == SysSpec => [](TypeInv /\ NothingPulledAway /\ DownInv)
  <1>1. Init => DownInv
    BY DEF Init, DownInv
  <1>2. DownInv /\ TypeInv /\ [Next]_vars => DownInv'
    BY DownStep DEF vars, engineVars, DownInv
  <1> QED
    BY <1>1, <1>2, SystemIsEngine, TypesKept, NothingIsPulledAway, PTL DEF Spec

-----------------------------------------------------------------------------
(* The cached capital.                                                      *)

Cache == [known : BOOLEAN, old : BOOLEAN, inflight : BOOLEAN]

CapitalInv ==
    /\ capital \in Cache
    /\ RefreshGuarded
    /\ capital.inflight => capital.known
    /\ Unbuilt("buy") => ~capital.known

\* The engine's steps, with which the cache follows.
LEMMA EngineLeavesCapital ==
    ASSUME LockInv, CapitalInv, TypeInv, NothingPulledAway', DownInv', EngineMoves
    PROVE  CapitalInv'
  <1>0. Next
    BY EngineMovesAre
  <1>1. CASE engine'.phase = "down"
    <2>1. capital' = NewCache /\ up' = {}
      BY <1>1 DEF EngineMoves, CachesFollow, DownInv
    <2>2. calls' = NoCalls
      BY <2>1 DEF EngineMoves, CachesFollow
    <2> QED
      BY <2>1, <2>2, GatewayAssumption DEF CapitalInv, Cache, NewCache, NoCalls, RefreshGuarded, At
  <1>2. CASE engine'.phase # "down" /\ "buy" \in up' \ up
    <2>1. ~capital.inflight /\ At("capital", "idle")
      BY <1>0, <1>2, BuiltWhileAttaching DEF CapitalInv, RefreshGuarded
    <2>2. "exchange" \in up'
      BY <1>2 DEF NothingPulledAway, Uses
    <2>3. capital' \in FirstReads
      BY <1>2 DEF EngineMoves, CachesFollow
    <2>4. calls' = [calls EXCEPT !["capital"] = IF capital'.inflight THEN "waits" ELSE @]
      BY <2>1, <2>2 DEF EngineMoves, CachesFollow
    <2>5. calls'["capital"] = IF capital'.inflight THEN "waits" ELSE "idle"
      BY <2>1, <2>4, GatewayAssumption DEF LockInv, At
    <2>6. capital' \in Cache /\ capital'.known
      BY <2>3 DEF FirstReads, NewCache, Cache
    <2> QED
      BY <1>2, <2>5, <2>6 DEF CapitalInv, RefreshGuarded, At, Unbuilt, Cache
  <1>3. CASE engine'.phase # "down" /\ "buy" \notin up' \ up
    <2>0. ~ProcessEnds
      BY <1>3 DEF ProcessEnds, Down
    <2>1. Unbuilt("buy")' => ~capital.known
      <3> SUFFICES ASSUME Unbuilt("buy")'
                   PROVE  ~capital.known
        OBVIOUS
      <3>1. Unbuilt("buy")
        BY <1>0, <2>0, UnbuiltBefore
      <3> QED
        BY <3>1 DEF CapitalInv
    <2>2. CASE "exchange" \in up'
      <3>1. capital' = capital
        BY <1>3, <2>2 DEF EngineMoves, CachesFollow
      <3>2. calls' = [calls EXCEPT !["capital"] = @]
        BY <2>2, <3>1 DEF EngineMoves, CachesFollow
      <3>3. calls' = calls
        BY <3>2 DEF LockInv
      <3> QED
        BY <2>1, <3>1, <3>3 DEF CapitalInv, RefreshGuarded, At
    <2>3. CASE "exchange" \notin up'
      <3>1. capital' = [capital EXCEPT !.inflight = FALSE] /\ calls' = NoCalls
        BY <1>3, <2>3 DEF EngineMoves, CachesFollow, Failed
      <3>2. capital' \in Cache /\ ~capital'.inflight /\ capital'.known = capital.known
        BY <3>1 DEF CapitalInv, Cache
      <3> QED
        BY <2>1, <3>1, <3>2, GatewayAssumption DEF CapitalInv, RefreshGuarded, At, NoCalls
    <2> QED
      BY <2>2, <2>3
  <1> QED
    BY <1>1, <1>2, <1>3

\* A step that leaves the refresh where it is.
LEMMA CapitalStays ==
    ASSUME CapitalInv, UNCHANGED <<capital, up, engine>>, At("capital", "idle")' <=> At("capital", "idle")
    PROVE  CapitalInv'
  BY DEF CapitalInv, RefreshGuarded, Unbuilt

\* A call builds no part.
LEMMA CallMovesLeaveParts == CallMoves => UNCHANGED <<up, engine>>
  <1>1. ASSUME NEW c \in Caller, Issued(c)
        PROVE  UNCHANGED <<up, engine>>
    BY <1>1 DEF Issued, CallAsksToken, engineVars
  <1>2. CASE Tick
    BY <1>2 DEF Tick, vars, engineVars
  <1>3. ASSUME NEW c \in Caller,
               \/ Waits(c) \/ Granted(c) \/ TakesLock(c) \/ OtherAsks(c) \/ Cancelled(c)
               \/ Answered(c) \/ IssueFails(c) \/ CallFails(c)
        PROVE  UNCHANGED <<up, engine>>
    BY <1>3 DEF Waits, Granted, TakesLock, OtherAsks, Cancelled, Answered, IssueFails, CallFails,
                vars, engineVars
  <1> QED
    BY <1>1, <1>2, <1>3 DEF CallMoves

\* The calls of the others, and the refresh on its way.
LEMMA CallMovesLeaveCapital ==
    ASSUME LockInv, CapitalInv, CallMoves
    PROVE  CapitalInv'
  <1>1. UNCHANGED <<capital, up, engine>>
    BY CallMovesLeaveParts DEF CallMoves
  <1>2. CASE Tick
    BY <1>1, <1>2, CapitalStays DEF Tick, At
  <1>3. ASSUME NEW c \in Caller, c # "capital",
               \/ OtherAsks(c) \/ Cancelled(c) \/ Answered(c) \/ IssueFails(c) \/ CallFails(c)
        PROVE  CapitalInv'
    <2>1. calls'["capital"] = calls["capital"]
      BY <1>3, GatewayAssumption
         DEF LockInv, OtherAsks, Asks, Cancelled, Answered, IssueFails, CallFails, Goes
    <2> QED
      BY <1>1, <2>1, CapitalStays DEF At
  <1>4. ASSUME NEW c \in Caller, Waits(c) \/ Granted(c) \/ TakesLock(c) \/ Issued(c)
        PROVE  CapitalInv'
    <2>1. calls[c] # "idle"
      BY <1>4 DEF Waits, Granted, TakesLock, Issued, At
    <2>2. \/ calls' = calls
          \/ \E step \in Steps : step # "idle" /\ Goes(c, step)
      BY <1>4 DEF Waits, Granted, TakesLock, Issued, AfterLock, Steps
    <2>3. calls'["capital"] = "idle" <=> calls["capital"] = "idle"
      BY <2>1, <2>2, GatewayAssumption DEF LockInv, Goes
    <2> QED
      BY <1>1, <2>3, CapitalStays DEF At
  <1> QED
    BY <1>2, <1>3, <1>4 DEF CallMoves, OtherAsks, Cancelled

\* The cache's own steps.
LEMMA CapitalMovesKeep ==
    ASSUME LockInv, CapitalInv, CapitalMoves
    PROVE  CapitalInv'
  <1>0. UNCHANGED <<up, engine>>
    BY CapitalMovesAre DEF vars, engineVars
  <1>1. CASE CapitalRead
    <2>1. capital' = [capital EXCEPT !.inflight = TRUE] /\ capital.known
      BY <1>1 DEF CapitalRead
    <2>2. calls'["capital"] = "waits"
      BY <1>1, GatewayAssumption DEF CapitalRead, Asks, Goes, LockInv
    <2>3. capital' \in Cache /\ capital'.inflight /\ capital'.known
      BY <2>1 DEF CapitalInv, Cache
    <2> QED
      BY <1>0, <2>1, <2>2, <2>3 DEF CapitalInv, RefreshGuarded, At, Unbuilt
  <1>2. CASE CapitalAges
    <2>1. capital' = [capital EXCEPT !.old = TRUE] /\ calls' = calls
      BY <1>2 DEF CapitalAges, gateVars
    <2>2. capital' \in Cache /\ capital'.inflight = capital.inflight /\ capital'.known = capital.known
      BY <2>1 DEF CapitalInv, Cache
    <2> QED
      BY <1>0, <2>1, <2>2 DEF CapitalInv, RefreshGuarded, At, Unbuilt
  <1>3. CASE RefreshAnswered \/ RefreshFails
    <2>1. Goes("capital", "idle")
      BY <1>3 DEF RefreshAnswered, RefreshFails, Answered, IssueFails, CallFails
    <2>2. calls'["capital"] = "idle"
      BY <2>1, GatewayAssumption DEF Goes, LockInv
    <2>3. capital' = Cached \/ capital' = Failed
      BY <1>3 DEF RefreshAnswered, RefreshFails
    <2>4. capital' \in Cache /\ ~capital'.inflight /\ capital'.known = capital.known
      BY <2>3 DEF CapitalInv, Cache, Cached, Failed
    <2> QED
      BY <1>0, <2>2, <2>4 DEF CapitalInv, RefreshGuarded, At, Unbuilt
  <1> QED
    BY <1>1, <1>2, <1>3 DEF CapitalMoves

\* Every step keeps the flag of the refresh.
LEMMA CapitalStep ==
    /\ LockInv /\ CapitalInv /\ TypeInv /\ (NothingPulledAway /\ DownInv)' /\ [SysNext]_sysVars
    => CapitalInv'
  <1> SUFFICES ASSUME LockInv, CapitalInv, TypeInv, NothingPulledAway', DownInv', [SysNext]_sysVars
               PROVE  CapitalInv'
    OBVIOUS
  <1>1. CASE BotStep
    <2>1. UNCHANGED <<capital, calls, up, engine>>
      <3>1. CASE RunsUpdate
        BY <3>1 DEF RunsUpdate, Handled, TelegramStop, TelegramResume, KeepsParts, KeepsOthers, gateVars,
                    vars, engineVars
      <3> QED
        BY <1>1, <3>1 DEF BotStep, Sends, Polls, PollFails, Replied, KeepsOthers, gateVars, vars, engineVars
    <2> QED
      BY <2>1, CapitalStays DEF At
  <1>2. CASE DigestStep \/ UNCHANGED sysVars
    <2>1. UNCHANGED <<capital, calls, up, engine>>
      BY <1>2 DEF DigestStep, TimePasses, Wakes, DigestSent, DigestFails, Rested, KeepsRest,
                  sysVars, gateVars, vars, engineVars
    <2> QED
      BY <2>1, CapitalStays DEF At
  <1> QED
    BY <1>1, <1>2, EngineLeavesCapital, CallMovesLeaveCapital, CapitalMovesKeep DEF SysNext

(* trading_bridge.py, get_total_capital: the flag is set exactly while a    *)
(* refresh is under way.                                                    *)
THEOREM RefreshIsGuarded == SysSpec => []RefreshGuarded
  <1>1. SysInit => LockInv /\ CapitalInv
    BY GatewayAssumption
       DEF SysInit, Init, GatewayInit, CachesInit, NewCache, NoCalls, LockInv, CapitalInv, Cache,
           RefreshGuarded, At, TokenIssuedOnce, Issuing, Steps
  <1>2. CapitalInv => RefreshGuarded
    BY DEF CapitalInv
  <1> QED
    BY <1>1, <1>2, LockStep, CapitalStep, EngineHolds, PTL DEF SysSpec

-----------------------------------------------------------------------------
(* The schedulers.                                                          *)

\* What \div leaves of a natural and of the next one.
LEMMA HalfIs ==
    ASSUME NEW n \in Nat
    PROVE  /\ n \div 2 \in Nat /\ (n = 2 * (n \div 2) \/ n = 2 * (n \div 2) + 1)
           /\ (n + 1) \div 2 \in Nat
           /\ n = 2 * (n \div 2) => (n + 1) \div 2 = n \div 2
           /\ n = 2 * (n \div 2) + 1 => (n + 1) \div 2 = n \div 2 + 1
  OBVIOUS

Half(d) == now[d] \div 2

\* The scheduler sleeps until a target of its period's middle; the period at
\* hand is not notified when it wakes.
Due(d) == now[d] = 2 * Half(d) + 1 /\ digests[d][Half(d)] = 0

Scheduled(d) ==
    /\ now[d] \in Nat
    /\ digests[d] \in [0 .. Half(d) -> Nat]
    /\ \A p \in 0 .. Half(d) : digests[d][p] <= (IF now[d] > 2 * p THEN 1 ELSE 0)
    /\ sched[d].pc = "sleeps" =>
          /\ sched[d].target \in Nat /\ now[d] <= sched[d].target
          /\ \E k \in Nat : sched[d].target = 2 * k + 1
          /\ now[d] = sched[d].target => Due(d)
    /\ sched[d].pc = "sends" => Due(d)

Task == [pc : {"off", "sleeps", "sends", "rests"}, target : Nat]

DigestInv ==
    /\ now \in [Digests -> Nat] /\ sched \in [Digests -> Task] /\ DOMAIN digests = Digests
    /\ \A d \in Digests : Scheduled(d)

\* The next target is in the middle of a period, and in the future.
LEMMA NextTargetIs ==
    ASSUME NEW d \in Digests, now[d] \in Nat
    PROVE  /\ NextTarget(d) \in Nat /\ NextTarget(d) > now[d]
           /\ \E k \in Nat : NextTarget(d) = 2 * k + 1
  <1>1. Half(d) \in Nat
    BY HalfIs DEF Half
  <1>2. NextTarget(d) = 2 * Half(d) + 1 \/ NextTarget(d) = 2 * (Half(d) + 1) + 1
    BY <1>1 DEF NextTarget, Candidate, Half
  <1>3. NextTarget(d) > now[d]
    BY <1>1, HalfIs DEF NextTarget, Candidate, Half
  <1> QED
    BY <1>1, <1>2, <1>3

\* A step that leaves the clock and the history of d alone.
LEMMA RescheduledKeeps ==
    ASSUME NEW d \in Digests, Scheduled(d),
           now'[d] = now[d], digests'[d] = digests[d],
           \/ sched'[d] = sched[d]
           \/ sched'[d].pc \in {"off", "rests"}
           \/ sched'[d].pc = "sleeps" /\ sched'[d].target = NextTarget(d)
           \/ sched'[d].pc = "sends" /\ Due(d)
    PROVE  Scheduled(d)'
  <1>1. Half(d)' = Half(d) /\ (Due(d)' <=> Due(d))
    BY DEF Half, Due
  <1>2. CASE sched'[d].pc = "sleeps" /\ sched'[d].target = NextTarget(d)
    <2>1. /\ NextTarget(d) \in Nat /\ NextTarget(d) > now[d]
          /\ \E k \in Nat : NextTarget(d) = 2 * k + 1
      BY NextTargetIs DEF Scheduled
    <2> QED
      BY <1>1, <1>2, <2>1 DEF Scheduled
  <1>3. CASE sched'[d] = sched[d]
    BY <1>1, <1>3 DEF Scheduled
  <1> QED
    BY <1>1, <1>2, <1>3 DEF Scheduled

\* Time passes.
LEMMA TimeKeeps ==
    ASSUME DigestInv, NEW d \in Digests, TimePasses(d)
    PROVE  DigestInv'
  <1> DEFINE n == now[d]
  <1>0. n \in Nat /\ Scheduled(d)
    BY DEF DigestInv
  <1>1. /\ now' = [now EXCEPT ![d] = @ + 1] /\ sched' = sched
        /\ digests' = [digests EXCEPT ![d] = [p \in 0 .. (n + 1) \div 2 |->
                                                 IF p \in DOMAIN digests[d] THEN digests[d][p] ELSE 0]]
    BY DEF TimePasses
  <1>2. now' \in [Digests -> Nat] /\ now'[d] = n + 1 /\ \A e \in Digests : e # d => now'[e] = now[e]
    BY <1>0, <1>1 DEF DigestInv
  <1>3. /\ DOMAIN digests' = Digests
        /\ digests'[d] = [p \in 0 .. (n + 1) \div 2 |->
                             IF p \in DOMAIN digests[d] THEN digests[d][p] ELSE 0]
        /\ \A e \in Digests : e # d => digests'[e] = digests[e]
    BY <1>1 DEF DigestInv
  <1>4. Half(d)' = (n + 1) \div 2 /\ Half(d)' \in Nat /\ Half(d) \in Nat
    BY <1>0, <1>2, HalfIs DEF Half
  <1>5. \A p \in 0 .. Half(d)' : digests'[d][p] = IF p \in 0 .. Half(d) THEN digests[d][p] ELSE 0
    BY <1>0, <1>3, <1>4 DEF Scheduled
  <1>6. \A p \in 0 .. Half(d) : digests[d][p] \in Nat /\ digests[d][p] <= (IF n > 2 * p THEN 1 ELSE 0)
    BY <1>0 DEF Scheduled
  <1>7. digests'[d] \in [0 .. Half(d)' -> Nat]
    BY <1>0, <1>3, <1>4, <1>5, <1>6 DEF Scheduled
  <1>8. \A p \in 0 .. Half(d)' : digests'[d][p] <= (IF now'[d] > 2 * p THEN 1 ELSE 0)
    BY <1>0, <1>2, <1>4, <1>5, <1>6
  <1>9. sched[d].pc # "sends"
    BY DEF TimePasses
  <1>10. ASSUME sched[d].pc = "sleeps"
         PROVE  /\ sched[d].target \in Nat /\ n + 1 <= sched[d].target
                /\ \E k \in Nat : sched[d].target = 2 * k + 1
                /\ n + 1 = sched[d].target => Due(d)'
    <2>1. /\ sched[d].target \in Nat /\ n < sched[d].target
          /\ \E k \in Nat : sched[d].target = 2 * k + 1
      BY <1>10, <1>0 DEF TimePasses, Scheduled
    <2>2. ASSUME n + 1 = sched[d].target
          PROVE  Due(d)'
      <3>1. PICK k \in Nat : n = 2 * k
        <4>1. PICK k \in Nat : sched[d].target = 2 * k + 1
          BY <2>1
        <4>2. n \in Nat /\ n + 1 = 2 * k + 1
          BY <1>0, <2>2, <4>1
        <4> HIDE DEF n
        <4>3. n = 2 * k
          BY <4>2
        <4> QED
          BY <4>3
      <3>2. n = 2 * Half(d) /\ Half(d)' = Half(d)
        BY <1>0, <1>4, <3>1, HalfIs DEF Half
      <3>3. digests'[d][Half(d)'] = digests[d][Half(d)] /\ digests[d][Half(d)] = 0
        <4> DEFINE h == Half(d)
        <4>1. h \in Nat /\ h \in 0 .. h /\ h \in 0 .. Half(d)' /\ ~(n > 2 * h)
          BY <1>0, <1>4, <3>2
        <4>2. digests'[d][h] = digests[d][h]
          BY <1>5, <4>1
        <4>3. digests[d][h] \in Nat /\ digests[d][h] <= 0
          BY <1>6, <4>1
        <4>4. digests[d][h] = 0
          BY <4>3
        <4> QED
          BY <3>2, <4>2, <4>4
      <3> QED
        BY <1>2, <3>2, <3>3 DEF Due
    <2> QED
      BY <1>0, <2>1, <2>2
  <1>11. Scheduled(d)'
    BY <1>0, <1>1, <1>2, <1>7, <1>8, <1>9, <1>10 DEF Scheduled
  <1>12. ASSUME NEW e \in Digests, e # d
         PROVE  Scheduled(e)'
    <2>1. now'[e] = now[e] /\ digests'[e] = digests[e] /\ sched'[e] = sched[e] /\ Scheduled(e)
      BY <1>1, <1>2, <1>3, <1>12 DEF DigestInv
    <2> QED
      BY <2>1, RescheduledKeeps
  <1> QED
    BY <1>1, <1>2, <1>3, <1>11, <1>12 DEF DigestInv

\* A scheduler's own steps.
LEMMA SchedulerKeeps ==
    ASSUME DigestInv, NEW d \in Digests, Wakes(d) \/ DigestSent(d) \/ DigestFails(d) \/ Rested(d)
    PROVE  DigestInv'
  <1>0. now[d] \in Nat /\ sched[d] \in Task /\ Scheduled(d) /\ now' = now
    BY DEF DigestInv, Wakes, DigestSent, DigestFails, Rested
  <1>1. Half(d) \in Nat /\ \A e \in Digests : Half(e)' = Half(e)
    BY <1>0, HalfIs DEF Half
  <1>2. ASSUME NEW task \in Task, sched' = [sched EXCEPT ![d] = task],
               digests' = digests,
               \/ task.pc = "rests"
               \/ task.pc = "sleeps" /\ task.target = NextTarget(d)
               \/ task.pc = "sends" /\ Due(d)
        PROVE  DigestInv'
    <2>1. sched' \in [Digests -> Task] /\ sched'[d] = task
      BY <1>2 DEF DigestInv
    <2>2. \A e \in Digests : e # d => sched'[e] = sched[e]
      BY <1>2 DEF DigestInv
    <2>3. \A e \in Digests : Scheduled(e)'
      BY <1>0, <1>2, <2>1, <2>2, RescheduledKeeps DEF DigestInv
    <2> QED
      BY <1>0, <1>2, <2>1, <2>3 DEF DigestInv
  <1>3. CASE Wakes(d)
    <2>1. sched' = [sched EXCEPT ![d] = [sched[d] EXCEPT !.pc = "sends"]]
      BY <1>3 DEF Wakes
    <2>2. [sched[d] EXCEPT !.pc = "sends"] \in Task
      BY <1>0 DEF Task
    <2>3. Due(d)
      BY <1>0, <1>3 DEF Wakes, Scheduled
    <2> QED
      BY <1>2, <1>3, <2>1, <2>2, <2>3 DEF Wakes, Task
  <1>4. CASE DigestFails(d)
    <2>1. sched' = [sched EXCEPT ![d] = [sched[d] EXCEPT !.pc = "rests"]]
      BY <1>4 DEF DigestFails
    <2>2. [sched[d] EXCEPT !.pc = "rests"] \in Task
      BY <1>0 DEF Task
    <2> QED
      BY <1>2, <1>4, <2>1, <2>2 DEF DigestFails, Task
  <1>5. CASE Rested(d)
    <2>1. [pc |-> "sleeps", target |-> NextTarget(d)] \in Task
      BY <1>0, NextTargetIs DEF Task
    <2> QED
      BY <1>2, <1>5, <2>1 DEF Rested
  <1>6. CASE DigestSent(d)
    <2>1. /\ sched' = [sched EXCEPT ![d] = [sched[d] EXCEPT !.pc = "rests"]]
          /\ digests' = [digests EXCEPT ![d] = [digests[d] EXCEPT ![Half(d)] = @ + 1]]
      BY <1>6 DEF DigestSent, Half
    <2>2. [sched[d] EXCEPT !.pc = "rests"] \in Task /\ [sched[d] EXCEPT !.pc = "rests"].pc = "rests"
      BY <1>0 DEF Task
    <2>3. sched' \in [Digests -> Task] /\ sched'[d].pc = "rests"
      BY <2>1, <2>2 DEF DigestInv
    <2>4. \A e \in Digests : e # d => sched'[e] = sched[e] /\ digests'[e] = digests[e]
      BY <2>1 DEF DigestInv
    <2>5. digests'[d] = [digests[d] EXCEPT ![Half(d)] = @ + 1] /\ DOMAIN digests' = Digests
      BY <2>1 DEF DigestInv
    <2>6. now[d] = 2 * Half(d) + 1 /\ digests[d][Half(d)] = 0 /\ Half(d) \in 0 .. Half(d)
      BY <1>0, <1>1, <1>6 DEF DigestSent, Scheduled, Due
    <2>7. digests[d] \in [0 .. Half(d) -> Nat]
      BY <1>0 DEF Scheduled
    <2>8. digests'[d] \in [0 .. Half(d) -> Nat]
      BY <2>5, <2>6, <2>7
    <2>9. \A p \in 0 .. Half(d) : digests'[d][p] <= (IF now[d] > 2 * p THEN 1 ELSE 0)
      <3>1. ASSUME NEW p \in 0 .. Half(d)
            PROVE  digests'[d][p] = IF p = Half(d) THEN 1 ELSE digests[d][p]
        BY <2>5, <2>6, <2>7
      <3>2. \A p \in 0 .. Half(d) : digests[d][p] <= (IF now[d] > 2 * p THEN 1 ELSE 0)
        BY <1>0 DEF Scheduled
      <3> QED
        BY <1>1, <2>6, <3>1, <3>2
    <2>10. Scheduled(d)'
      BY <1>0, <1>1, <2>3, <2>8, <2>9 DEF Scheduled
    <2>11. \A e \in Digests : e # d => Scheduled(e)'
      BY <1>0, <2>4, RescheduledKeeps DEF DigestInv
    <2> QED
      BY <1>0, <2>3, <2>5, <2>10, <2>11 DEF DigestInv
  <1> QED
    BY <1>3, <1>4, <1>5, <1>6

\* The schedulers follow the engine.
LEMMA FollowKeeps ==
    ASSUME DigestInv, DigestFollows
    PROVE  DigestInv'
  <1>1. /\ now' = now /\ digests' = digests
        /\ sched' = [d \in Digests |->
                        IF d \notin up' THEN NoTask
                        ELSE IF d \notin up THEN [pc |-> "sleeps", target |-> NextTarget(d)]
                        ELSE sched[d]]
    BY DEF DigestFollows
  <1>2. ASSUME NEW d \in Digests
        PROVE  sched'[d] \in Task /\ Scheduled(d)'
    <2>1. now[d] \in Nat /\ sched[d] \in Task /\ Scheduled(d)
      BY DEF DigestInv
    <2>2. NextTarget(d) \in Nat
      BY <2>1, NextTargetIs
    <2>3. sched'[d] \in {NoTask, sched[d], [pc |-> "sleeps", target |-> NextTarget(d)]}
      BY <1>1
    <2> QED
      BY <1>1, <2>1, <2>2, <2>3, RescheduledKeeps DEF NoTask, Task
  <1>3. sched' \in [Digests -> Task]
    BY <1>1, <1>2
  <1> QED
    BY <1>1, <1>2, <1>3 DEF DigestInv

\* Every step keeps the digests.
LEMMA DigestsStep == DigestInv /\ [SysNext]_sysVars => DigestInv'
  <1> SUFFICES ASSUME DigestInv, [SysNext]_sysVars
               PROVE  DigestInv'
    OBVIOUS
  <1>1. CASE UNCHANGED digestVars
    BY <1>1 DEF digestVars, DigestInv, Scheduled, Due, Half
  <1>2. CASE DigestStep
    BY <1>2, TimeKeeps, SchedulerKeeps DEF DigestStep
  <1> QED
    BY <1>1, <1>2, FollowKeeps DEF SysNext, EngineMoves, CallMoves, CapitalMoves, sysVars

\* Nothing is scheduled at the start.
LEMMA DigestInvInit == DigestInit => DigestInv
  <1> SUFFICES ASSUME DigestInit
               PROVE  DigestInv
    OBVIOUS
  <1>1. \A d \in Digests : Half(d) = 0
    BY HalfIs DEF DigestInit, Half
  <1>2. \A d \in Digests : digests[d] \in [0 .. Half(d) -> Nat] /\ \A p \in 0 .. Half(d) : digests[d][p] = 0
    BY <1>1 DEF DigestInit
  <1> QED
    BY <1>1, <1>2 DEF DigestInit, DigestInv, Scheduled, Task, NoTask

(* v71_monthly_review.py, v71_daily_summary.py: a period's digest is        *)
(* notified once at most, and not before its time.                          *)
THEOREM DigestsAreOnce == SysSpec => []DigestsOnce
  <1>1. SysInit => DigestInv
    BY DigestInvInit DEF SysInit
  <1>2. DigestInv => DigestsOnce
    BY DEF DigestInv, Scheduled, DigestsOnce
  <1> QED
    BY <1>1, <1>2, DigestsStep, PTL DEF SysSpec

-----------------------------------------------------------------------------
(* The commands.                                                            *)

Sent == 1 .. Len(updates)

\* What the loop knows of the updates at each of its steps.
Polling ==
    /\ poll.pc = "asks" => \A u \in Sent : u > poll.last => ran[u] = 0
    /\ poll.pc # "asks" => poll.last < poll.at /\ poll.at <= poll.until /\ poll.until <= Len(updates)
    /\ poll.pc = "runs" =>
          /\ 1 .. poll.at - 1 \subseteq done
          /\ \A u \in Sent : u >= poll.at => ran[u] = 0
    /\ poll.pc = "replies" =>
          /\ 1 .. poll.at \subseteq done
          /\ \A u \in Sent : u > poll.at => ran[u] = 0

Poll == [pc : {"asks", "runs", "replies"}, last : Nat, at : Nat, until : Nat]

BotInv ==
    /\ updates \in Seq(Command)
    /\ confirmed \in Nat /\ poll \in Poll
    /\ ran \in [Sent -> Nat]
    /\ 1 .. confirmed \subseteq done
    /\ confirmed <= Len(updates)
    /\ 1 .. poll.last \subseteq done
    /\ poll.last <= Len(updates)
    /\ \A u \in Sent : ran[u] <= 1
    /\ Unbuilt("commands") => poll = NewPoll /\ \A u \in Sent : ran[u] = 0
    /\ Runs("commands") => Polling

\* A step that leaves the bot alone.
LEMMA BotStays ==
    ASSUME BotInv, UNCHANGED <<botVars, up, engine>>
    PROVE  BotInv'
  BY DEF BotInv, botVars, Unbuilt, Polling, Sent, Runs

\* The user sends an update.
LEMMA SendsKeeps ==
    ASSUME BotInv, Sends
    PROVE  BotInv'
  <1>1. PICK c \in Command : updates' = Append(updates, c)
    BY DEF Sends
  <1>2. UNCHANGED <<confirmed, poll, done, up, engine>> /\ ran' = Append(ran, 0)
    BY DEF Sends, vars, engineVars
  <1>3. updates' \in Seq(Command) /\ Len(updates') = Len(updates) + 1 /\ Len(updates) \in Nat
    BY <1>1 DEF BotInv
  <1>4. ran \in Seq(Nat) /\ Len(ran) = Len(updates)
    BY <1>3 DEF BotInv, Sent
  <1>5. ran' \in [Sent' -> Nat] /\ \A u \in Sent' : ran'[u] = IF u \in Sent THEN ran[u] ELSE 0
    <2>1. /\ ran' \in Seq(Nat) /\ Len(ran') = Len(ran) + 1 /\ ran'[Len(ran) + 1] = 0
          /\ \A u \in 1 .. Len(ran) : ran'[u] = ran[u]
      BY <1>2, <1>4
    <2>2. ran' \in [1 .. Len(ran') -> Nat]
      BY <2>1
    <2> QED
      BY <1>3, <1>4, <2>1, <2>2 DEF Sent
  <1>6. Sent \subseteq Sent' /\ \A u \in Sent' : u \in Nat
    BY <1>3 DEF Sent
  <1>7. Runs("commands") => Polling'
    <2> SUFFICES ASSUME Polling
                 PROVE  Polling'
      BY DEF BotInv
    <2>1. poll \in Poll
      BY DEF BotInv
    <2>2. \A u \in Sent' : ran'[u] = IF u \in Sent THEN ran[u] ELSE 0
      BY <1>5
    <2>3. \A k \in Nat : (\A u \in Sent : u > k => ran[u] = 0) => \A u \in Sent' : u > k => ran'[u] = 0
      BY <2>2
    <2>4. \A k \in Nat : (\A u \in Sent : u >= k => ran[u] = 0) => \A u \in Sent' : u >= k => ran'[u] = 0
      BY <2>2
    <2>5. poll.last \in Nat /\ poll.at \in Nat /\ poll.until \in Nat
      BY <2>1 DEF Poll
    <2>6. poll' = poll /\ done' = done
      BY <1>2
    <2>7. poll.until <= Len(updates) => poll.until <= Len(updates')
      BY <1>3, <2>5
    <2> QED
      BY <2>3, <2>4, <2>5, <2>6, <2>7 DEF Polling
  <1>8. \A u \in Sent' : ran'[u] <= 1
    BY <1>5 DEF BotInv
  <1>9. Unbuilt("commands") => poll = NewPoll /\ \A u \in Sent' : ran'[u] = 0
    BY <1>5 DEF BotInv
  <1> QED
    BY <1>2, <1>3, <1>5, <1>7, <1>8, <1>9 DEF BotInv, Unbuilt, Runs, Poll

\* The loop asks Telegram.
LEMMA PollKeeps ==
    ASSUME BotInv, Polls \/ PollFails
    PROVE  BotInv'
  <1>1. /\ UNCHANGED <<updates, ran, done, up, engine>> /\ Runs("commands") /\ poll.pc = "asks"
        /\ confirmed' = IF poll.last > confirmed THEN poll.last ELSE confirmed
    BY DEF Polls, PollFails, Confirms, Offset, BotInv, Poll, vars, engineVars
  <1>2. /\ confirmed' \in Nat /\ 1 .. confirmed' \subseteq done /\ confirmed' <= Len(updates)
        /\ confirmed' >= poll.last
    BY <1>1 DEF BotInv, Poll
  <1>3. Polling /\ ~Unbuilt("commands")
    BY <1>1 DEF BotInv, Unbuilt, Runs
  <1>4. CASE poll' = poll
    BY <1>1, <1>2, <1>3, <1>4 DEF BotInv, Polling, Sent, Unbuilt, Runs
  <1>5. CASE poll' # poll
    <2>1. /\ Len(updates) > confirmed'
          /\ poll' = [poll EXCEPT !.pc = "runs", !.at = confirmed' + 1, !.until = Len(updates)]
      BY <1>5 DEF Polls, PollFails
    <2>2. /\ poll' \in Poll /\ poll'.pc = "runs" /\ poll'.last = poll.last
          /\ poll'.at = confirmed' + 1 /\ poll'.until = Len(updates)
      <3>1. poll \in Poll /\ updates \in Seq(Command)
        BY DEF BotInv
      <3>2. Len(updates) \in Nat /\ confirmed' + 1 \in Nat
        <4>1. confirmed' \in Nat
          BY <1>2
        <4>2. Len(updates) \in Nat
          BY <3>1
        <4>3. \A n \in Nat : n + 1 \in Nat
          OBVIOUS
        <4>4. confirmed' + 1 \in Nat
          BY <4>1, <4>3, Zenon
        <4> QED
          BY <4>2, <4>4, Zenon
      <3>3. poll' = [pc |-> "runs", last |-> poll.last, at |-> confirmed' + 1, until |-> Len(updates)]
        BY <2>1, <3>1 DEF Poll
      <3> QED
        BY <3>1, <3>2, <3>3 DEF Poll
    <2>3. Polling'
      BY <1>1, <1>2, <1>3, <2>1, <2>2 DEF Polling, Sent, BotInv, Poll
    <2> QED
      BY <1>1, <1>2, <1>3, <2>2, <2>3 DEF BotInv, Sent, Unbuilt
  <1> QED
    BY <1>4, <1>5

\* A handler runs.
LEMMA RunKeeps ==
    ASSUME BotInv, RunsUpdate
    PROVE  BotInv'
  <1>1. /\ UNCHANGED <<updates, confirmed, up, engine>> /\ Runs("commands") /\ poll.pc = "runs"
        /\ ran' = [ran EXCEPT ![poll.at] = @ + 1] /\ done' = done \cup {poll.at}
        /\ poll' = [poll EXCEPT !.pc = "replies"]
    BY DEF RunsUpdate, Handled, TelegramStop, TelegramResume, KeepsParts, vars, engineVars
  <1>2. Polling /\ ~Unbuilt("commands")
    BY <1>1 DEF BotInv, Unbuilt, Runs
  <1>3. /\ poll' \in Poll /\ poll'.pc = "replies"
        /\ poll'.last = poll.last /\ poll'.at = poll.at /\ poll'.until = poll.until
    BY <1>1 DEF BotInv, Poll
  <1>4. poll.at \in Sent /\ ran[poll.at] = 0 /\ poll.at \in Nat
    BY <1>1, <1>2 DEF Polling, Sent, BotInv, Poll
  <1>5. ran' \in [Sent -> Nat] /\ \A u \in Sent : ran'[u] = IF u = poll.at THEN 1 ELSE ran[u]
    BY <1>1, <1>4 DEF BotInv
  <1>6. 1 .. poll.at \subseteq done'
    BY <1>1, <1>2, <1>4 DEF Polling
  <1>7. Polling'
    BY <1>1, <1>2, <1>3, <1>4, <1>5, <1>6 DEF Polling, Sent
  <1> QED
    BY <1>1, <1>2, <1>3, <1>5, <1>7 DEF BotInv, Sent, Unbuilt

\* The handler has replied.
LEMMA ReplyKeeps ==
    ASSUME BotInv, Replied
    PROVE  BotInv'
  <1>1. /\ UNCHANGED <<updates, confirmed, ran, done, up, engine>>
        /\ Runs("commands") /\ poll.pc = "replies"
    BY DEF Replied, vars, engineVars
  <1>2. Polling /\ ~Unbuilt("commands")
    BY <1>1 DEF BotInv, Unbuilt, Runs
  <1>3. /\ poll' \in Poll /\ poll'.last = poll.at
        /\ poll'.pc = IF poll.at < poll.until THEN "runs" ELSE "asks"
        /\ poll.at < poll.until => poll'.at = poll.at + 1 /\ poll'.until = poll.until
    <2>1. poll \in Poll
      BY DEF BotInv
    <2>2. poll.at \in Nat /\ poll.until \in Nat /\ poll.pc = "replies"
      BY <1>1, <2>1 DEF Poll
    <2>3. CASE poll.at < poll.until
      <3>1. poll' = [poll EXCEPT !.last = poll.at, !.pc = "runs", !.at = poll.at + 1]
        BY <2>3 DEF Replied
      <3>2. poll' = [pc |-> "runs", last |-> poll.at, at |-> poll.at + 1, until |-> poll.until]
        BY <2>1, <3>1 DEF Poll
      <3> QED
        BY <2>2, <2>3, <3>2 DEF Poll
    <2>4. CASE ~(poll.at < poll.until)
      <3>1. poll' = [pc |-> "asks", last |-> poll.at, at |-> 0, until |-> 0]
        BY <2>4 DEF Replied, NewPoll
      <3> QED
        BY <2>2, <2>4, <3>1 DEF Poll
    <2> QED
      BY <2>3, <2>4
  <1>4. poll.at \in Nat /\ poll.until \in Nat /\ poll.at <= Len(updates)
    BY <1>1, <1>2 DEF Polling, BotInv, Poll
  <1>5. Polling'
    BY <1>1, <1>2, <1>3, <1>4 DEF Polling, Sent
  <1> QED
    BY <1>1, <1>2, <1>3, <1>4, <1>5 DEF BotInv, Sent, Unbuilt, Polling

\* The engine's steps, with which the bot follows.
LEMMA EngineLeavesBot ==
    ASSUME BotInv, TypeInv, EngineMoves
    PROVE  BotInv'
  <1>0. Next /\ UNCHANGED <<updates, confirmed, done>>
    BY EngineMovesAre DEF EngineMoves, BotFollows
  <1>1. CASE engine'.phase = "down"
    <2>1. poll' = NewPoll /\ ran' = [u \in DOMAIN updates |-> 0]
      BY <1>1 DEF EngineMoves, BotFollows
    <2>2. DOMAIN updates = Sent /\ Sent' = Sent
      BY <1>0 DEF BotInv, Sent
    <2>3. ran' \in [Sent' -> Nat] /\ \A u \in Sent' : ran'[u] = 0
      BY <2>1, <2>2
    <2>4. poll' \in Poll /\ poll'.last = 0 /\ poll'.pc = "asks"
      BY <2>1 DEF NewPoll, Poll
    <2>5. Polling'
      BY <2>3, <2>4 DEF Polling
    <2> QED
      BY <1>0, <2>1, <2>3, <2>4, <2>5 DEF BotInv
  <1>2. CASE engine'.phase # "down"
    <2>0. ~ProcessEnds
      BY <1>2 DEF ProcessEnds, Down
    <2>1. ran' = ran
      BY <1>2 DEF EngineMoves, BotFollows
    <2>2. Unbuilt("commands")' => Unbuilt("commands")
      BY <1>0, <2>0, UnbuiltBefore
    <2>3. CASE "commands" \in up \ up'
      <3>1. poll' = [NewPoll EXCEPT !.last = poll.last]
        BY <1>2, <2>3 DEF EngineMoves, BotFollows
      <3>2. poll' \in Poll /\ poll'.last = poll.last
        BY <3>1 DEF NewPoll, Poll, BotInv
      <3>3. ~Unbuilt("commands")
        BY <2>3 DEF Unbuilt
      <3> QED
        BY <1>0, <2>1, <2>2, <2>3, <3>2, <3>3 DEF BotInv, Sent, Runs
    <2>4. CASE "commands" \notin up \ up'
      <3>1. poll' = poll
        BY <1>2, <2>4 DEF EngineMoves, BotFollows
      <3>2. Runs("commands")' => Polling
        <4>1. CASE Runs("commands")
          BY <4>1 DEF BotInv
        <4>2. CASE Runs("commands")' /\ ~Runs("commands")
          <5>1. Unbuilt("commands")
            BY <1>0, <4>2, BuiltWhileAttaching DEF Runs
          <5> QED
            BY <5>1 DEF BotInv, Polling, NewPoll
        <4> QED
          BY <4>1, <4>2
      <3> QED
        BY <1>0, <2>1, <2>2, <3>1, <3>2 DEF BotInv, Polling, Sent
    <2> QED
      BY <2>3, <2>4
  <1> QED
    BY <1>1, <1>2

\* Every step keeps what is known of the updates.
LEMMA BotStepKeeps == BotInv /\ TypeInv /\ [SysNext]_sysVars => BotInv'
  <1> SUFFICES ASSUME BotInv, TypeInv, [SysNext]_sysVars
               PROVE  BotInv'
    OBVIOUS
  <1>1. CASE BotStep
    BY <1>1, SendsKeeps, PollKeeps, RunKeeps, ReplyKeeps DEF BotStep
  <1>2. CASE CallMoves
    BY <1>2, CallMovesLeaveParts, BotStays DEF CallMoves
  <1>3. CASE CapitalMoves
    BY <1>3, CapitalMovesAre, BotStays DEF CapitalMoves, vars, engineVars
  <1>4. CASE DigestStep
    BY <1>4, DigestStepIs, BotStays
       DEF DigestStep, TimePasses, Wakes, DigestSent, DigestFails, Rested, KeepsRest, vars, engineVars
  <1>5. CASE UNCHANGED sysVars
    BY <1>5, BotStays DEF sysVars, vars, engineVars
  <1> QED
    BY <1>1, <1>2, <1>3, <1>4, <1>5, EngineLeavesBot DEF SysNext

(* telegram.py: an update is run before Telegram is told to forget it, and  *)
(* once only by a process.                                                  *)
THEOREM CommandsAreKept == SysSpec => []CommandsKept
  <1>1. SysInit => BotInv
    BY DEF SysInit, Init, BotInit, BotInv, NewPoll, Poll, Polling, Sent, Runs
  <1>2. BotInv => CommandsKept
    BY DEF BotInv, CommandsKept, Sent
  <1> QED
    BY <1>1, <1>2, BotStepKeeps, EngineHolds, PTL DEF SysSpec

-----------------------------------------------------------------------------
(* The types of the parts added to the engine.                              *)

\* A move counts one of its kind.
LEMMA MoveTypes ==
    ASSUME OutsideTypeOK, NEW kind \in Kind, Move(kind)
    PROVE  OutsideTypeOK'
  BY DEF OutsideTypeOK, Move

\* No step takes a move back.
LEMMA MovesStep == OutsideTypeOK /\ [SysNext]_sysVars => OutsideTypeOK'
  <1> SUFFICES ASSUME OutsideTypeOK, [SysNext]_sysVars
               PROVE  OutsideTypeOK'
    OBVIOUS
  <1>0. /\ UNCHANGED moves => OutsideTypeOK'
        /\ \A kind \in {"call", "update", "period"} : Move(kind) => OutsideTypeOK'
    BY MoveTypes DEF OutsideTypeOK, Kind
  <1>1. CASE EngineMoves
    BY <1>0, <1>1 DEF EngineMoves
  <1>2. CASE CallMoves
    <2>1. CASE Tick
      BY <1>0, <2>1 DEF Tick
    <2>2. ASSUME NEW c \in Caller,
                 \/ Waits(c) \/ Granted(c) \/ TakesLock(c) \/ Issued(c) \/ Cancelled(c)
                 \/ Answered(c) \/ IssueFails(c) \/ CallFails(c)
          PROVE  UNCHANGED moves
      BY <2>2 DEF Waits, Granted, TakesLock, Issued, Cancelled, Answered, IssueFails, CallFails
    <2>3. ASSUME NEW c \in Caller, OtherAsks(c)
          PROVE  OutsideTypeOK'
      BY <1>0, <2>3 DEF OtherAsks
    <2> QED
      BY <1>0, <1>2, <2>1, <2>2, <2>3 DEF CallMoves
  <1>3. CASE CapitalMoves
    <2>1. CASE CapitalRead \/ RefreshAnswered \/ RefreshFails
      BY <1>0, <2>1 DEF CapitalRead, RefreshAnswered, RefreshFails, Answered, IssueFails, CallFails
    <2>2. CASE CapitalAges
      BY <1>0, <2>2 DEF CapitalAges
    <2> QED
      BY <1>3, <2>1, <2>2 DEF CapitalMoves
  <1>4. CASE BotStep
    BY <1>0, <1>4 DEF BotStep, Sends, Polls, PollFails, RunsUpdate, Replied
  <1>5. CASE DigestStep
    <2>1. ASSUME NEW d \in Digests, TimePasses(d)
          PROVE  OutsideTypeOK'
      BY <1>0, <2>1 DEF TimePasses
    <2>2. ASSUME NEW d \in Digests, Wakes(d) \/ DigestSent(d) \/ DigestFails(d) \/ Rested(d)
          PROVE  UNCHANGED moves
      BY <2>2 DEF Wakes, DigestSent, DigestFails, Rested
    <2> QED
      BY <1>0, <1>5, <2>1, <2>2 DEF DigestStep
  <1>6. CASE UNCHANGED sysVars
    BY <1>0, <1>6 DEF sysVars
  <1> QED
    BY <1>1, <1>2, <1>3, <1>4, <1>5, <1>6 DEF SysNext

\* Only an update that Telegram has had is run.
DoneInv == done \subseteq Sent

\* Every step runs an update that was sent, or none.
LEMMA DoneStep == DoneInv /\ BotInv /\ [SysNext]_sysVars => DoneInv'
  <1> SUFFICES ASSUME DoneInv, BotInv, [SysNext]_sysVars
               PROVE  DoneInv'
    OBVIOUS
  <1>1. UNCHANGED <<updates, done>> => DoneInv'
    BY DEF DoneInv, Sent
  <1>2. CASE Sends
    <2>1. PICK c \in Command : updates' = Append(updates, c)
      BY <1>2 DEF Sends
    <2>2. Len(updates') = Len(updates) + 1 /\ Len(updates) \in Nat
      BY <2>1 DEF BotInv
    <2>3. done' = done
      BY <1>2 DEF Sends
    <2> QED
      BY <2>2, <2>3 DEF DoneInv, Sent
  <1>3. CASE RunsUpdate
    <2>1. updates' = updates /\ done' = done \cup {poll.at} /\ poll.pc = "runs" /\ Runs("commands")
      BY <1>3 DEF RunsUpdate
    <2>2. Polling /\ poll \in Poll
      BY <2>1 DEF BotInv
    <2>3. poll.last < poll.at /\ poll.at <= poll.until /\ poll.until <= Len(updates)
      BY <2>1, <2>2 DEF Polling
    <2>4. poll.at \in Nat /\ poll.last \in Nat /\ poll.until \in Nat /\ Len(updates) \in Nat
      BY <2>2 DEF Poll, BotInv
    <2>5. poll.at \in Sent
      BY <2>3, <2>4 DEF Sent
    <2> QED
      BY <2>1, <2>5 DEF DoneInv, Sent
  <1>4. CASE BotStep
    BY <1>1, <1>2, <1>3, <1>4 DEF BotStep, Polls, PollFails, Replied
  <1>5. CASE EngineMoves \/ CallMoves \/ CapitalMoves \/ DigestStep \/ UNCHANGED sysVars
    BY <1>1, <1>5 DEF EngineMoves, BotFollows, CallMoves, CapitalMoves, DigestStep, TimePasses, Wakes,
                      DigestSent, DigestFails, Rested, KeepsRest, botVars, sysVars
  <1> QED
    BY <1>4, <1>5 DEF SysNext

(* The types of the whole system, whatever engine, gateway, cache, bot and  *)
(* schedulers make of one another's steps.                                  *)
THEOREM SystemTypeCorrect == SysSpec => []SystemTypeOK
  <1>1. SysInit => OutsideTypeOK /\ BucketInv /\ LockInv /\ CapitalInv /\ DigestInv /\ BotInv /\ DoneInv
    <2>1. SysInit => OutsideTypeOK /\ DoneInv
      BY DEF SysInit, OutsideInit, OutsideTypeOK, BotInit, DoneInv, Sent
    <2>2. SysInit => BucketInv
      BY CapacityIs DEF SysInit, GatewayInit, FullBucket, BucketInv, Refilled
    <2>3. SysInit => LockInv /\ CapitalInv
      BY GatewayAssumption
         DEF SysInit, Init, GatewayInit, CachesInit, NewCache, NoCalls, LockInv, CapitalInv, Cache,
             RefreshGuarded, At, TokenIssuedOnce, Issuing, Steps
    <2>4. SysInit => BotInv
      BY DEF SysInit, Init, BotInit, BotInv, NewPoll, Poll, Polling, Sent, Runs
    <2>5. SysInit => DigestInv
      BY DigestInvInit DEF SysInit
    <2> QED
      BY <2>1, <2>2, <2>3, <2>4, <2>5
  <1>2. BucketInv /\ LockInv => GatewayTypeOK
    <2> SUFFICES ASSUME BucketInv, LockInv
                 PROVE  GatewayTypeOK
      OBVIOUS
    <2>1. bucket \in [level : 0 .. Capacity, age : Nat] /\ owed \in Nat
      BY DEF BucketInv
    <2> QED
      BY <2>1 DEF GatewayTypeOK, LockInv, Steps
  <1>3. CapitalInv => CachesTypeOK
    BY DEF CapitalInv, Cache, CachesTypeOK
  <1>4. DigestInv => DigestTypeOK
    BY DEF DigestInv, Scheduled, Half, Task, DigestTypeOK
  <1>5. BotInv /\ DoneInv => BotTypeOK
    <2> SUFFICES ASSUME BotInv, DoneInv
                 PROVE  BotTypeOK
      OBVIOUS
    <2>1. DOMAIN updates = Sent
      BY DEF BotInv, Sent
    <2> QED
      BY <2>1 DEF BotInv, DoneInv, BotTypeOK, Poll
  <1> QED
    BY <1>1, <1>2, <1>3, <1>4, <1>5, MovesStep, BucketStep, LockStep, CapitalStep, DigestsStep,
       BotStepKeeps, DoneStep, EngineHolds, SystemIsEngine, EngineTypeCorrect, PTL
       DEF SysSpec, SystemTypeOK

=============================================================================
