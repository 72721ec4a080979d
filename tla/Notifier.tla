------------------------------ MODULE Notifier ------------------------------
(***************************************************************************)
(* NotifierAgent: a second durable consumer of wallet.trade.detected, which *)
(* sends each trade to a Telegram chat.  It has no table: what it has sent *)
(* is known to the chat only.  Trades of wallets that are not copied and   *)
(* trades below a minimum are acknowledged and dropped.  The minimum is in *)
(* a table that the operator changes; the agent reads it when it starts    *)
(* and again and again afterwards, between the awaits of the callback.     *)
(*                                                                         *)
(* Telegram is external: chat counts the messages it accepted, whatever    *)
(* the agent knows of it.                                                  *)
(***************************************************************************)
EXTENDS JetStream, FiniteSets

CONSTANTS
  Poison,        \* events whose payload does not parse
  Size,          \* trade.size_usdc of each event
  Ignored,       \* events of wallets that are not in the allowlist
  Minima,        \* values an operator may give min_size_usdc
  NoEvent,       \* no message in hand
  NoValue,       \* no read of the table in progress
  MaxRestarts    \* bound: starts after the first

ASSUME NotifierAssumption ==
  /\ Poison \subseteq Events
  /\ Size \in [Events -> Nat]
  /\ Ignored \subseteq Events
  /\ Minima \subseteq Nat /\ Minima # {}
  /\ NoEvent \notin Events
  /\ NoValue \notin Nat
  /\ MaxRestarts \in Nat

VARIABLES
  up,              \* the process runs and is subscribed
  restarts,        \* starts so far
  pc,              \* where the callback is
  cur,             \* event of the delivery in hand
  chat,            \* messages in the chat about each event
  notifier_config, \* min_size_usdc in the table
  min_size_usdc,   \* the agent's copy of it
  loading,         \* value read by a reload and not yet assigned
  ever,            \* values the table has had
  blind            \* some process could not read the table when it started

callback == <<pc, cur>>
filter_vars == <<min_size_usdc, loading>>
history == <<ever, blind>>
vars == <<js_vars, up, restarts, callback, chat, notifier_config, filter_vars, history>>

TypeOK ==
  /\ JSTypeOK
  /\ up \in BOOLEAN
  /\ restarts \in 0..(MaxRestarts + 1)
  /\ pc \in {"idle", "send", "answer", "ack"}
  /\ cur \in Events \cup {NoEvent}
  /\ chat \in [Events -> Nat]
  /\ notifier_config \in Minima
  /\ min_size_usdc \in Minima \cup {0}
  /\ loading \in Minima \cup {NoValue}
  /\ ever \subseteq Minima
  /\ blind \in BOOLEAN

Init ==
  /\ JSInit
  /\ up = FALSE
  /\ restarts = 0
  /\ pc = "idle"
  /\ cur = NoEvent
  /\ chat = [e \in Events |-> 0]
  /\ notifier_config \in Minima
  /\ min_size_usdc = 0
  /\ loading = NoValue
  /\ ever = {notifier_config}
  /\ blind = FALSE
-----------------------------------------------------------------------------
(* The process.                                                            *)

\* Mutant: a start without the forced load of the filter.
BugStart ==
  /\ ~up
  /\ restarts <= MaxRestarts
  /\ up' = TRUE
  /\ restarts' = restarts + 1
  /\ min_size_usdc' = 0
  /\ Subscribe
  /\ UNCHANGED <<callback, chat, notifier_config, loading, history>>

\* start(): the forced load of the filter may fail, and then there is none;
\* the subscription comes after it.
Start ==
  /\ ~up
  /\ restarts <= MaxRestarts
  /\ up' = TRUE
  /\ restarts' = restarts + 1
  /\ \/ min_size_usdc' = notifier_config /\ UNCHANGED blind
     \/ min_size_usdc' = 0 /\ blind' = TRUE
  /\ Subscribe
  /\ UNCHANGED <<callback, chat, notifier_config, loading, ever>>

Crash ==
  /\ up
  /\ restarts <= MaxRestarts
  /\ up' = FALSE
  /\ pc' = "idle"
  /\ cur' = NoEvent
  /\ loading' = NoValue
  /\ LoseQueue
  /\ UNCHANGED <<restarts, chat, notifier_config, min_size_usdc, history>>
-----------------------------------------------------------------------------
(* _reload_config_if_due, in run_once.                                     *)

\* The table is read.
ReadConfig ==
  /\ up
  /\ loading = NoValue
  /\ loading' = notifier_config
  /\ UNCHANGED <<js_vars, up, restarts, callback, chat, notifier_config, min_size_usdc, history>>

\* Mutant: the new value is applied only if it is larger.
BugApplyConfig ==
  /\ loading # NoValue
  /\ min_size_usdc' = IF loading > min_size_usdc THEN loading ELSE min_size_usdc
  /\ loading' = NoValue
  /\ UNCHANGED <<js_vars, up, restarts, callback, chat, notifier_config, history>>

\* The value that was read becomes the filter.
ApplyConfig ==
  /\ loading # NoValue
  /\ min_size_usdc' = loading
  /\ loading' = NoValue
  /\ UNCHANGED <<js_vars, up, restarts, callback, chat, notifier_config, history>>

\* The database fails: the last value is kept.
ReloadFails ==
  /\ loading # NoValue
  /\ loading' = NoValue
  /\ UNCHANGED <<js_vars, up, restarts, callback, chat, notifier_config, min_size_usdc, history>>
-----------------------------------------------------------------------------
(* The callback, _handle_message inside _durable_wrapper.                  *)

Leave == pc' = "idle" /\ cur' = NoEvent

\* Payload, allowlist and minimum, all before the first await.
Dropped(e) == e \in Poison \cup Ignored \/ Size[e] < min_size_usdc

Receive ==
  /\ up
  /\ pc = "idle"
  /\ TakeHead
  /\ cur' = Head(queue).id
  /\ pc' = IF Dropped(cur') THEN "ack" ELSE "send"
  /\ UNCHANGED <<up, restarts, chat, notifier_config, filter_vars, history>>

\* Mutant: TelegramError is swallowed and the message acknowledged.
BugSend ==
  /\ pc = "send"
  /\ \/ chat' = [chat EXCEPT ![cur] = @ + 1] /\ pc' = "answer"
     \/ pc' = "ack" /\ UNCHANGED chat
  /\ UNCHANGED <<js_vars, up, restarts, cur, notifier_config, filter_vars, history>>

\* send_message: it reaches Telegram, or raises TelegramError before that.
Send ==
  /\ pc = "send"
  /\ \/ /\ chat' = [chat EXCEPT ![cur] = @ + 1]
        /\ pc' = "answer"
        /\ UNCHANGED cur
     \/ Leave /\ UNCHANGED chat
  /\ UNCHANGED <<js_vars, up, restarts, notifier_config, filter_vars, history>>

\* Mutant: the notification is retried inside the callback.
BugAnswer ==
  /\ pc = "answer"
  /\ pc' \in {"ack", "send"}
  /\ UNCHANGED <<js_vars, up, restarts, cur, chat, notifier_config, filter_vars, history>>

\* The answer is read, or lost, which raises TelegramError: no ack.
Answer ==
  /\ pc = "answer"
  /\ \/ pc' = "ack" /\ UNCHANGED cur
     \/ Leave
  /\ UNCHANGED <<js_vars, up, restarts, chat, notifier_config, filter_vars, history>>

\* Fire and forget: it may not arrive.
Ack ==
  /\ pc = "ack"
  /\ AckArrives(cur) \/ UNCHANGED js_vars
  /\ Leave
  /\ UNCHANGED <<up, restarts, chat, notifier_config, filter_vars, history>>

Handle == Receive \/ Send \/ Answer \/ Ack
-----------------------------------------------------------------------------
(* The environment.                                                        *)

\* WatcherAgent publishes wallet.trade.detected.
WalletTradeDetected(e) ==
  /\ Store(e)
  /\ UNCHANGED <<up, restarts, callback, chat, notifier_config, filter_vars, history>>

Redeliver(e) ==
  /\ up
  /\ Deliver(e)
  /\ UNCHANGED <<up, restarts, callback, chat, notifier_config, filter_vars, history>>

\* set_notifier_filter --min-size.
SetFilter ==
  /\ notifier_config' \in Minima
  /\ ever' = ever \cup {notifier_config'}
  /\ UNCHANGED <<js_vars, up, restarts, callback, chat, filter_vars, blind>>

Next ==
  \/ Start \/ Crash \/ ReadConfig \/ ApplyConfig \/ ReloadFails \/ Handle \/ SetFilter
  \/ \E e \in Events : WalletTradeDetected(e) \/ Redeliver(e)

Spec == Init /\ [][Next]_vars

(***************************************************************************)
(* Docker restarts the process, the event loop runs the callback and the   *)
(* loop, the server redelivers, and not every reload fails.                *)
(***************************************************************************)
Fairness ==
  /\ WF_vars(Start)
  /\ WF_vars(Handle)
  /\ WF_vars(ReadConfig)
  /\ SF_vars(ApplyConfig)
  /\ \A e \in Events : WF_vars(Redeliver(e))

FairSpec == Spec /\ Fairness
-----------------------------------------------------------------------------
Wanted == Events \ (Poison \cup Ignored)

\* The chat may get a trade twice, but never more often than the server
\* delivered it: deliveries that are still queued have sent nothing.
OneMessagePerDelivery ==
  \A e \in Events :
    chat[e] + Cardinality({i \in 1..Len(queue) : queue[i].id = e}) <= delivered[e]

\* What was acknowledged is in the chat, unless the payload, the allowlist
\* or a minimum the operator had set stopped it.
NoSilentLoss ==
  \A e \in acked \cap Wanted : chat[e] > 0 \/ \E min \in ever : Size[e] < min

\* What is in the chat passed a minimum the operator had set, unless some
\* process started without the table.
SmallTradesStayQuiet ==
  \A e \in Wanted : chat[e] > 0 => blind \/ \E min \in ever : min <= Size[e]

\* A trade that no minimum stops reaches the chat in the end, or has spent
\* its deliveries.
NotifiedOrExhausted ==
  \A e \in Wanted :
    (e \in due) ~> (\/ chat[e] > 0
                    \/ delivered[e] = MaxDeliver
                    \/ \E min \in ever : Size[e] < min)

\* The minimum the operator leaves in the table takes effect in the end,
\* whatever a reload that was in progress had read.
FilterTakesEffect ==
  \A min \in Minima :
    <>[](up /\ notifier_config = min) => <>[](min_size_usdc = min)
=============================================================================
