-------------------------------- MODULE System --------------------------------
(***************************************************************************)
(* The engine with its gateway to the broker, the cached capital, the       *)
(* Telegram commands and the schedulers.  A step is one of the engine, with *)
(* which the parts it builds or takes down follow, or one of a part; a part *)
(* writes the engine's variables only by the engine's own actions.          *)
(***************************************************************************)
EXTENDS Digest

sysVars == <<vars, moves, gateVars, capital, botVars, digestVars>>

SystemTypeOK ==
    TypeOK /\ OutsideTypeOK /\ GatewayTypeOK /\ CachesTypeOK /\ BotTypeOK /\ DigestTypeOK

SysInit == Init /\ OutsideInit /\ GatewayInit /\ CachesInit /\ BotInit /\ DigestInit

\* Telegram's commands come through the bot.
EngineMoves ==
    /\ BridgeAlone \/ TasksStep
    /\ CachesFollow /\ GatewayFollows /\ BotFollows /\ DigestFollows
    /\ UNCHANGED <<flags, moves>>

CallMoves ==
    /\ \/ Tick
       \/ \E c \in Caller :
             \/ Waits(c) \/ Granted(c) \/ TakesLock(c) \/ Issued(c)
             \/ OtherAsks(c) \/ Cancelled(c)
             \/ c # "capital" /\ (Answered(c) \/ IssueFails(c) \/ CallFails(c))
    /\ UNCHANGED <<capital, botVars, digestVars>>

CapitalMoves ==
    /\ CapitalRead \/ CapitalAges \/ RefreshAnswered \/ RefreshFails
    /\ UNCHANGED <<botVars, digestVars>>

SysNext ==
    \/ EngineMoves
    \/ CallMoves
    \/ CapitalMoves
    \/ BotStep /\ UNCHANGED digestVars
    \/ DigestStep

SysSpec == SysInit /\ [][SysNext]_sysVars

\* The HTTP client gives up on a token request that is not answered.
SysFairSpec ==
    /\ SysSpec
    /\ Fairness
    /\ \A c \in Caller : WF_calls(Issued(c) \/ IssueFails(c))

=============================================================================
