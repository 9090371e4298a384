--------------------------------- MODULE Bot ---------------------------------
(***************************************************************************)
(* The trading bot (src/node/be/bot/client/bot.js) over the sender and      *)
(* the JSON-RPC transport of the contract tier: one account on one market. *)
(*                                                                         *)
(* A method of the bot is a sequence of awaits; between two of them the    *)
(* chain mines, counterparties fill the bot's resting orders and the kill  *)
(* switch may be set.  A request may fail before or after the node has     *)
(* taken it, and a transaction may stay unmined for longer than the sender *)
(* polls.  The exchange is what the bot sees of it: a position, resting    *)
(* orders, and the reverts of a place or cancel; how much of an order is   *)
(* filled on arrival is any amount.                                        *)
(***************************************************************************)
EXTENDS RiskEngine, Sequences, SequencesExt

CONSTANTS Orders,        \* the orders place is called with
          MaxOrderSize, MaxPositionSize,
          MaxTries,      \* withRetry's max
          MaxCalls,      \* bound: calls of the bot's methods
          MaxFaults      \* bound: lost requests, lost replies, slow receipts

TheMarket == "ETH"

ASSUME BotAssumption ==
  /\ MaxOrderSize \in Nat /\ MaxPositionSize \in Nat /\ MaxTries \in Nat \ {0}
  /\ Orders \subseteq [market : {TheMarket}, side : {"Buy", "Sell"}, size : Nat, price : Nat,
                      type : PricedTypes \cup {"Market"}, reduceOnly : BOOLEAN, uid : Nat]

VARIABLES
  engine,      \* the bot's RiskEngine
  task,        \* the call under way: where it is and what it has read
  position,    \* chain: the account's signed position
  resting,     \* chain: its open orders
  pool,        \* node: its transactions, sent and not mined, in nonce order
  sent,        \* node: transactions taken so far; the last one's nonce
  calls, faults,
  placed,      \* history: orders created on the chain under each user order id
  unanswered,  \* history: attempts given up although the node took the request
  overlapped   \* history: an order was cleared on a position read while others lived

chain == <<position, resting, pool, sent, placed>>
vars  == <<engine, task, chain, calls, faults, unanswered, overlapped>>

Specs == [m \in {TheMarket} |-> [tick |-> 1, step |-> 1, minNotional |-> 1]]
Uids == { o.uid : o \in Orders }

Signed(order) == IF order.side = "Buy" THEN order.size ELSE -order.size
Sign(n) == IF n < 0 THEN -1 ELSE 1

\* What a transaction asks of the exchange.
PlaceTx(order) == [kind |-> "place", order |-> order, id |-> 0]
CancelTx(id)   == [kind |-> "cancel", order |-> <<>>, id |-> id]
CancelAllTx    == [kind |-> "cancelAll", order |-> <<>>, id |-> 0]
CloseOrder(size) ==
  [market |-> TheMarket, side |-> IF size > 0 THEN "Sell" ELSE "Buy",
   size |-> Magnitude(size), price |-> 0, type |-> "Market",
   reduceOnly |-> TRUE, uid |-> NoUid]

Idle(result) == [call |-> "none", at |-> "idle", result |-> result]
Start(call, at, tx) ==
  [call |-> call, at |-> at, tx |-> tx, tries |-> 1, have |-> 0, live |-> FALSE,
   nonce |-> 0, receipt |-> "none"]

\* Bot.fromChain and fund: an account with collateral and nothing on the chain.
Init ==
  /\ \E dryRun \in BOOLEAN :
       engine = [NewEngine(Specs, MaxOrderSize, MaxPositionSize) EXCEPT !.dryRun = dryRun]
  /\ task = Idle("none")
  /\ position = 0 /\ resting = <<>> /\ pool = <<>> /\ sent = 0
  /\ calls = 0 /\ faults = 0
  /\ placed = [u \in Uids |-> 0] /\ unanswered = 0 /\ overlapped = FALSE
-----------------------------------------------------------------------------
(* The calls. *)

Call(t) ==
  /\ task.at = "idle" /\ calls < MaxCalls
  /\ task' = t /\ calls' = calls + 1
  /\ UNCHANGED <<engine, chain, faults, unanswered, overlapped>>

Place     == \E o \in Orders : Call(Start("place", "read", PlaceTx(o)))
Cancel    == \E k \in DOMAIN resting :
               Call(Start("cancel", "simulate", CancelTx(resting[k].id)))
CancelAll == Call(Start("cancelAll", "simulate", CancelAllTx))
\* Mutant of Flatten: the position is closed first, the orders are left.
FlattenCloseOnly == Call(Start("flatten", "size", CancelAllTx))
Flatten   == Call(Start("flatten", "simulate", CancelAllTx))

SetSwitch == \E on \in BOOLEAN \ {engine.killSwitch} :
  /\ engine' = SetKillSwitch(engine, on)
  /\ UNCHANGED <<task, chain, calls, faults, unanswered, overlapped>>

Return(result) == task' = Idle(result)
GoTo(at) == task' = [task EXCEPT !.at = at]
Fault == faults < MaxFaults /\ faults' = faults + 1
Quiet == UNCHANGED faults
-----------------------------------------------------------------------------
(* place: read the position, plan, read the nonce, then the write. *)

Live == resting # <<>> \/ pool # <<>>

\* An unreachable chain is a refusal here, an exception everywhere else.
ReadPosition ==
  /\ task.at = "read"
  /\ \/ Quiet /\ task' = [task EXCEPT !.at = "plan", !.have = position,
                                        !.live = Live]
     \/ Fault /\ Return("chain-unreachable")
  /\ UNCHANGED <<engine, chain, calls, unanswered, overlapped>>

\* A market order's reference price is read first; plan itself awaits nothing.
PlanOrder ==
  /\ task.at = "plan"
  /\ LET order    == task.tx.order
         decision == Plan(engine, order, [positionSize |-> task.have, refPrice |-> 1])
         sends    == decision.ok /\ decision.answer = "send"
     IN  /\ engine' = Remember(engine, order, decision)
         /\ IF sends
              THEN task' = [task EXCEPT !.at = "nonce", !.tx.order.size = decision.size,
                                        !.tx.order.price = decision.price]
              ELSE Return(decision.answer)
         /\ overlapped' = (overlapped \/ (sends /\ task.live))
  /\ Quiet
  /\ UNCHANGED <<chain, calls, unanswered>>

\* The index price could not be read: refused before the plan.
NoReferencePrice ==
  /\ task.at = "plan" /\ task.tx.order.type = "Market"
  /\ Fault /\ Return("chain-unreachable")
  /\ UNCHANGED <<engine, chain, calls, unanswered, overlapped>>

\* The nonce is read outside withRetry, after the gate has kept the order's id.
ReadNonce ==
  /\ task.at = "nonce"
  /\ \/ Quiet /\ GoTo("simulate")
     \/ Fault /\ Return("unreachable")
  /\ UNCHANGED <<engine, chain, calls, unanswered, overlapped>>
-----------------------------------------------------------------------------
(* A write: withRetry around Sender.send. *)

\* PerpExchange reverts: a trigger order, for the bot gives none a trigger price; an
\* id in use; a reduce-only order that does not reduce; an order no longer open.
Reverts(tx) ==
  \/ /\ tx.kind = "place"
     /\ \/ tx.order.type \notin {"Limit", "Market"}
        \/ \E k \in DOMAIN resting : tx.order.uid # NoUid /\ resting[k].uid = tx.order.uid
        \/ /\ tx.order.reduceOnly
           /\ \/ position * Signed(tx.order) >= 0
              \/ tx.order.size > Magnitude(position)
  \/ tx.kind = "cancel" /\ \A k \in DOMAIN resting : resting[k].id # tx.id

\* Whether a call reverts now; an order may, for its margin, its price or its
\* market, which are not in the model.
Outcomes(tx) == {Reverts(tx)} \cup (IF tx.kind = "place" THEN {TRUE} ELSE {})

LastTry(tries) == tries = MaxTries

\* A transport failure: tried again from the simulation, or out of tries.
Unreachable ==
  IF LastTry(task.tries) THEN Return("unreachable")
  ELSE task' = [task EXCEPT !.at = "simulate", !.tries = @ + 1, !.receipt = "none"]

Simulate ==
  /\ task.at = "simulate"
  /\ \/ /\ Quiet
        /\ \E reverts \in Outcomes(task.tx) :
             IF reverts THEN Return("reverted") ELSE GoTo("send")
     \/ Fault /\ Unreachable
  /\ UNCHANGED <<engine, chain, calls, unanswered, overlapped>>

Take(tx) ==
  /\ sent' = sent + 1
  /\ pool' = Append(pool, [kind |-> tx.kind, order |-> tx.order, nonce |-> sent + 1,
                          id |-> IF tx.kind = "cancel" THEN tx.id ELSE sent + 1])
  /\ UNCHANGED <<position, resting, placed>>

SendTransaction ==
  /\ task.at = "send"
  /\ \/ /\ Quiet /\ Take(task.tx)
        /\ task' = [task EXCEPT !.at = "receipt", !.nonce = sent + 1, !.receipt = "none"]
        /\ UNCHANGED unanswered
     \/ /\ Fault /\ Unreachable                   \* the request was lost
        /\ UNCHANGED <<chain, unanswered>>
     \/ /\ Fault /\ Take(task.tx) /\ Unreachable  \* the reply was lost
        /\ unanswered' = unanswered + 1
  /\ UNCHANGED <<engine, calls, overlapped>>

\* What follows a successful write, in each method.
Written ==
  CASE task.call = "place" -> GoTo("reread")
    [] task.call \in {"cancel", "cancelAll"} -> Return("ok")
    [] task.call = "flatten" /\ task.tx.kind = "cancelAll" -> GoTo("size")
    [] OTHER -> GoTo("after")

\* A mined failure is called again at its block for the reason: the answer is
\* the contract's unless that call is lost.
ReadReceipt ==
  /\ task.at = "receipt"
  /\ \/ task.receipt = "ok" /\ Quiet /\ Written
     \/ task.receipt = "failed" /\ Quiet /\ Return("reverted")
     \/ task.receipt = "failed" /\ Fault /\ Unreachable
  /\ UNCHANGED <<engine, chain, calls, unanswered, overlapped>>

\* No receipt in as many polls as waitForReceipt makes.
ReceiptTimeout ==
  /\ task.at = "receipt"
  /\ Fault /\ Unreachable
  /\ unanswered' = unanswered + 1
  /\ UNCHANGED <<engine, chain, calls, overlapped>>

\* place reads its order back; what it throws here hides an order it placed.
RereadOrder ==
  /\ task.at = "reread"
  /\ \/ Quiet /\ Return("sent")
     \/ Fault /\ Return("unreachable")
  /\ UNCHANGED <<engine, chain, calls, unanswered, overlapped>>
-----------------------------------------------------------------------------
(* flatten, after its cancelAll: size, close, then two reads. *)

FlattenSize ==
  /\ task.at = "size"
  /\ \/ /\ Quiet
        /\ IF position = 0 THEN GoTo("after")
           ELSE task' = [task EXCEPT !.at = "simulate", !.tries = 1, !.receipt = "none",
                                     !.tx = PlaceTx(CloseOrder(position))]
     \/ Fault /\ Return("unreachable")
  /\ UNCHANGED <<engine, chain, calls, unanswered, overlapped>>

FlattenAfter ==
  /\ task.at = "after"
  /\ \/ Quiet /\ task' = [task EXCEPT !.at = "account", !.have = position]
     \/ Fault /\ Return("unreachable")
  /\ UNCHANGED <<engine, chain, calls, unanswered, overlapped>>

FlattenReport ==
  /\ task.at = "account"
  /\ \/ Quiet /\ Return(IF task.have = 0 /\ resting = <<>> THEN "flat" ELSE "not flat")
     \/ Fault /\ Return("unreachable")
  /\ UNCHANGED <<engine, chain, calls, unanswered, overlapped>>
-----------------------------------------------------------------------------
(* The chain. *)

\* An order trades now what it can, any amount; a limit order rests the rest.
Trade(tx) ==
  \E filled \in 0 .. tx.order.size :
    LET rest == tx.order.size - filled
    IN  /\ position' = position + Sign(Signed(tx.order)) * filled
        /\ resting' = IF rest > 0 /\ tx.order.type = "Limit"
                      THEN Append(resting, [id |-> tx.id, uid |-> tx.order.uid,
                                            size |-> Sign(Signed(tx.order)) * rest])
                      ELSE resting
        /\ placed' = [placed EXCEPT ![tx.order.uid] =
                        IF tx.order.uid = NoUid THEN @ ELSE @ + 1]

Apply(tx) ==
  CASE tx.kind = "place" -> Trade(tx)
    [] tx.kind = "cancel" ->
         /\ \E k \in DOMAIN resting : resting[k].id = tx.id /\ resting' = RemoveAt(resting, k)
         /\ UNCHANGED <<position, placed>>
    [] OTHER -> resting' = <<>> /\ UNCHANGED <<position, placed>>

Mine ==
  /\ pool # <<>>
  /\ \E tx \in {Head(pool)} : \E failed \in Outcomes(tx) :
         /\ IF failed THEN UNCHANGED <<position, resting, placed>> ELSE Apply(tx)
         /\ task' = IF task.at = "receipt" /\ task.nonce = tx.nonce
                    THEN [task EXCEPT !.receipt = IF failed THEN "failed" ELSE "ok"]
                    ELSE task
  /\ pool' = Tail(pool)
  /\ UNCHANGED <<engine, sent, calls, faults, unanswered, overlapped>>

\* Somebody trades against one of the bot's resting orders.
Match == \E k \in DOMAIN resting : \E n \in 1 .. Magnitude(resting[k].size) :
  LET left == resting[k].size - Sign(resting[k].size) * n
  IN  /\ position' = position + Sign(resting[k].size) * n
      /\ resting' = IF left = 0 THEN RemoveAt(resting, k)
                    ELSE [resting EXCEPT ![k].size = left]
      /\ UNCHANGED <<engine, task, pool, sent, calls, faults, placed, unanswered, overlapped>>
-----------------------------------------------------------------------------
Next ==
  \/ Place \/ Cancel \/ CancelAll \/ Flatten \/ SetSwitch
  \/ ReadPosition \/ PlanOrder \/ NoReferencePrice \/ ReadNonce
  \/ Simulate \/ SendTransaction \/ ReadReceipt \/ ReceiptTimeout \/ RereadOrder
  \/ FlattenSize \/ FlattenAfter \/ FlattenReport
  \/ Mine \/ Match

Spec == Init /\ [][Next]_vars
-----------------------------------------------------------------------------
(* An order sent under a user order id exists once on the chain, and once   *)
(* more for each attempt the sender gave up after the node had taken it.    *)
(* The chain itself refuses an id only while its order is open.  This is    *)
(* what the code keeps, not what it is meant to: see RetryPlacesOnce.      *)
OncePerUid ==
  \A u \in Uids \ {NoUid} :
    placed[u] <= (IF unanswered < MaxTries - 1 THEN unanswered ELSE MaxTries - 1) + 1

(* "A retried request must not place the order twice" (case bot.risk.dup,   *)
(* src/testcases/bot.cases.js:58): an order sent under a user order id      *)
(* exists at most once.  It does not hold: withRetry repeats, behind the    *)
(* gate, a send whose answer was lost, and the chain takes the second when  *)
(* the first is no longer open.                                            *)
RetryPlacesOnce == \A u \in Uids \ {NoUid} : placed[u] <= 1

(* The cap the gate checks before an order is sent holds of the position on *)
(* the chain, whenever it is filled, unless the gate cleared an order on a  *)
(* position read while another one was live (it does not count resting      *)
(* orders, which may fill before the plan or after it) or an attempt was    *)
(* repeated that the node had already taken.                               *)
CapHolds == overlapped \/ unanswered > 0 \/ Magnitude(position) <= MaxPositionSize

(* When flatten reports flat there is neither a position nor an open order, *)
(* though it reads the two one after the other: only a transaction an       *)
(* earlier attempt left behind can come between.                           *)
FlatIsFlat ==
  [][ (task.at = "account" /\ task'.at = "idle" /\ task'.result = "flat")
      => unanswered > 0 \/ (position = 0 /\ resting = <<>>) ]_vars
===============================================================================
