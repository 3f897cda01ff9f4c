--------------------------------- MODULE Bot ---------------------------------
(***************************************************************************)
(* TelegramBot's polling and V71TelegramCommands: the updates Telegram      *)
(* keeps until a getUpdates confirms them, the loop that asks for them, and *)
(* the handlers, of which /stop and /resume write the engine's safe mode.   *)
(* Telegram is external.  What a handler replies is left out: a send never  *)
(* raises here.                                                             *)
(***************************************************************************)
EXTENDS Caches

VARIABLES
    updates,    \* Telegram: the updates by update_id
    confirmed,  \* Telegram: those up to this one are not sent again
    poll,       \* the loop: step, _last_update_id, update at hand, last of the answer
    ran,        \* history: how often this process ran each update
    done        \* history: the updates some process ran

botVars == <<updates, confirmed, poll, ran, done>>

\* /status, /cancel and the other commands change nothing here: the bridge
\* calls cancel_order with a position it does not take, and reports a failure.
Command == {"stop", "resume", "other", "foreign"}

NewPoll == [pc |-> "asks", last |-> 0, at |-> 0, until |-> 0]

BotTypeOK ==
    /\ updates \in Seq(Command)
    /\ confirmed \in Nat
    /\ poll \in [pc : {"asks", "runs", "replies"}, last : Nat, at : Nat, until : Nat]
    /\ ran \in [DOMAIN updates -> Nat]
    /\ done \subseteq DOMAIN updates

BotInit == updates = << >> /\ confirmed = 0 /\ poll = NewPoll /\ ran = << >> /\ done = {}

KeepsOthers == UNCHANGED <<gateVars, capital>>

Sends ==
    /\ Move("update")
    /\ \E c \in Command : updates' = Append(updates, c)
    /\ ran' = Append(ran, 0)
    /\ KeepsOthers /\ UNCHANGED <<vars, confirmed, poll, done>>

\* Slip: the last update is asked for again.
OffsetOfLast == poll.last

\* The offset of getUpdates, which confirms what is before it.
Offset == poll.last + 1

Confirms == IF Offset - 1 > confirmed THEN Offset - 1 ELSE confirmed

\* _check_updates: getUpdates, answered with what is not confirmed.
Polls ==
    /\ Runs("commands")
    /\ poll.pc = "asks"
    /\ confirmed' = Confirms
    /\ poll' = IF Len(updates) > confirmed'
               THEN [poll EXCEPT !.pc = "runs", !.at = confirmed' + 1, !.until = Len(updates)]
               ELSE poll
    /\ KeepsOthers /\ UNCHANGED <<vars, moves, updates, ran, done>>

\* The answer is lost, or is not ok.
PollFails ==
    /\ Runs("commands")
    /\ poll.pc = "asks"
    /\ confirmed' = Confirms
    /\ KeepsOthers /\ UNCHANGED <<vars, moves, updates, poll, ran, done>>

\* The thirteen handlers: all but two of them read the boxes, positions, rows of
\* alerts and flags they answer with.
Handled(c) ==
    CASE c = "stop"   -> TelegramStop /\ UNCHANGED flags
      [] c = "resume" -> TelegramResume /\ UNCHANGED flags
      [] OTHER        -> UNCHANGED vars

\* _process_update and the handler behind the authorisation of _wrap_handler:
\* another chat is logged and gets no answer.
RunsUpdate ==
    /\ Runs("commands")
    /\ poll.pc = "runs"
    /\ Handled(updates[poll.at])
    /\ ran' = [ran EXCEPT ![poll.at] = @ + 1]
    /\ done' = done \cup {poll.at}
    /\ poll' = [poll EXCEPT !.pc = "replies"]
    /\ KeepsOthers /\ UNCHANGED <<moves, updates, confirmed>>

\* The handler's reply is sent, or not; then _last_update_id moves.
Replied ==
    /\ Runs("commands")
    /\ poll.pc = "replies"
    /\ poll' = IF poll.at < poll.until
               THEN [poll EXCEPT !.last = poll.at, !.pc = "runs", !.at = poll.at + 1]
               ELSE [NewPoll EXCEPT !.last = poll.at]
    /\ KeepsOthers /\ UNCHANGED <<vars, moves, updates, confirmed, ran, done>>

BotStep == Sends \/ Polls \/ PollFails \/ RunsUpdate \/ Replied

\* stop_polling cancels the loop, in a handler too; a new process has a new bot.
BotFollows ==
    /\ IF engine'.phase = "down"
       THEN poll' = NewPoll /\ ran' = [u \in DOMAIN updates |-> 0]
       ELSE /\ poll' = IF "commands" \in up \ up' THEN [NewPoll EXCEPT !.last = poll.last] ELSE poll
            /\ UNCHANGED ran
    /\ UNCHANGED <<updates, confirmed, done>>

-----------------------------------------------------------------------------
(* Properties.                                                              *)

(* A command is run before Telegram is told to forget it, and once only by  *)
(* a process, through lost answers, cancelled handlers and restarts; only a *)
(* restart before the next poll runs one again.                             *)
CommandsKept ==
    /\ 1 .. confirmed \subseteq done
    /\ \A u \in DOMAIN updates : ran[u] <= 1

=============================================================================
