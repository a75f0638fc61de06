------------------------------ MODULE OrderBook -----------------------------
(***************************************************************************)
(* OrderBook of include/lockless/order_book.hpp, with the clients of       *)
(* examples/order_book_example.cpp and tests/test_order_book.cpp: traders  *)
(* submit orders until they are accepted, and when they have all finished  *)
(* the main thread processes orders until there are none.  Other threads   *)
(* may process orders at any time, and a monitor reads the spread.         *)
(* order_queue_ is a RingBuffer; it is used here through what it promises, *)
(* an inexact BoundedQueue, which RingBuffer implements.                   *)
(*                                                                         *)
(* One step is one access to an atomic variable or a step of the queue;    *)
(* loads return the current value.  The two sides differ only in the       *)
(* direction of their comparisons: best_bid_ is best["BUY"], best_ask_ is  *)
(* best["SELL"], and so are the totals.                                    *)
(***************************************************************************)
EXTENDS Naturals, Sequences, FiniteSetsExt

CONSTANTS
  Traders,
  Processors,
  Main,          \* the processor that starts when the traders have finished
  Prices,        \* without 0 and UINT64_MAX, which stand for no price
  Quantities,
  QueueSize,
  MaxBatch,      \* the largest batch, 100 in the code
  OrdersPerTrader,
  UINT64_MAX,
  NoOrder

VARIABLES
  queue, phase, value,  \* order_queue_ and the calls on it
  best, total,          \* best price and total quantity of each side
  matched_orders_,
  pc,                   \* what each processor does next
  orders,               \* the batch that it still has to process
  seen,                 \* the price or the quantity that it has loaded
  submitting,           \* client: the order that the trader submits until it is accepted
  submitted,            \* client: how many orders each trader has submitted
  reading,              \* get_spread: the bid it has loaded, with the ask of that time
  booked,               \* history: the prices booked on each side
  volume,               \* history: the quantity booked on each side
  finished,             \* history: the number of orders processed
  settled,              \* history: the prices booked by orders that are finished
  before,               \* history: those it finds on the other side of its order
  overtaken             \* history: has a total shrunk between a load of it and the subtraction?

book == <<best, total, matched_orders_, booked, volume, finished, settled>>
client == <<submitting, submitted>>
vars == <<queue, phase, value, book, pc, orders, before, seen, client, reading, overtaken>>

Sides == {"BUY", "SELL"}
Other(side) == IF side = "BUY" THEN "SELL" ELSE "BUY"
Orders == [side : Sides, price : Prices, quantity : Quantities]
Worst(side) == IF side = "BUY" THEN 0 ELSE UINT64_MAX   \* no order yet
Wrap(n) == n % (UINT64_MAX + 1)

\* Price p is better for its side than price q.
Better(side, p, q) == IF side = "BUY" THEN p > q ELSE p < q

\* Mutant: equal prices do not trade.
Reaches_Strict(o, q) == q # Worst(Other(o.side)) /\ Better(o.side, o.price, q)

\* There is a best price q on the other side, and the order reaches it.
Reaches(o, q) == q # Worst(Other(o.side)) /\ ~Better(Other(o.side), o.price, q)

order_queue_ == INSTANCE BoundedQueue WITH
  Producers <- Traders, Consumers <- Processors, Items <- Orders,
  NoItem <- NoOrder, Capacity <- QueueSize, Exact <- FALSE

Init ==
  /\ order_queue_!Init
  /\ best = [s \in Sides |-> Worst(s)]
  /\ total = [s \in Sides |-> 0]
  /\ matched_orders_ = 0
  /\ pc = [p \in Processors |-> "idle"]
  /\ orders = [p \in Processors |-> <<>>]
  /\ seen = [p \in Processors |-> 0]
  /\ submitting = [t \in Traders |-> NoOrder]
  /\ submitted = [t \in Traders |-> 0]
  /\ reading = <<>>
  /\ booked = [s \in Sides |-> {}]
  /\ volume = [s \in Sides |-> 0]
  /\ settled = [s \in Sides |-> {}]
  /\ before = [p \in Processors |-> {}]
  /\ finished = 0 /\ overtaken = FALSE

Goto(p, from, to) == pc[p] = from /\ pc' = [pc EXCEPT ![p] = to]

-----------------------------------------------------------------------------
(* The traders *)

SubmitOrder(t) ==
  /\ \/ /\ order_queue_!StartPush(t)
        /\ submitting[t] \in {NoOrder, value'[t]}
        /\ submitting' = [submitting EXCEPT ![t] = value'[t]] /\ UNCHANGED submitted
     \/ order_queue_!Push(t) /\ UNCHANGED client
     \/ order_queue_!RefusePush(t) /\ UNCHANGED client
     \/ /\ order_queue_!EndPush(t) /\ phase'[t] = "idle"
        /\ submitting' = [submitting EXCEPT ![t] = NoOrder]
        /\ submitted' = [submitted EXCEPT ![t] = @ + 1]
  /\ UNCHANGED <<book, pc, orders, before, seen, reading, overtaken>>

\* The same order is submitted again and again until it is accepted.
Trade(t) == submitted[t] < OrdersPerTrader /\ SubmitOrder(t)

Joined == \A t \in Traders : submitted[t] = OrdersPerTrader

-----------------------------------------------------------------------------
(* process_orders *)

\* Mutant: the traders are not joined.
ProcessCall_NoJoin(p) ==
  /\ Goto(p, "idle", "pop")
  /\ order_queue_!StartPop(p)
  /\ UNCHANGED <<book, orders, before, seen, client, reading, overtaken>>

ProcessCall(p) ==
  /\ p = Main => Joined
  /\ Goto(p, "idle", "pop")
  /\ order_queue_!StartPop(p)
  /\ UNCHANGED <<book, orders, before, seen, client, reading, overtaken>>

\* The batch is complete: its orders are processed next.
Process(p) ==
  /\ Goto(p, "pop", "load")
  /\ before' = [before EXCEPT ![p] = settled[Other(Head(orders'[p]).side)]]

\* try_pop_batch takes one order after the other.
PopBatch(p) ==
  /\ \/ order_queue_!Pop(p) /\ UNCHANGED <<pc, orders, before>>
     \/ /\ order_queue_!EndPop(p)
        /\ orders' = [orders EXCEPT ![p] = Append(@, value[p])]
        /\ IF Len(orders'[p]) < MaxBatch
           THEN phase'[p] = "pop" /\ UNCHANGED <<pc, before>>
           ELSE phase'[p] = "idle" /\ Process(p)
     \/ order_queue_!RefusePop(p) /\ orders[p] # <<>> /\ UNCHANGED orders /\ Process(p)
  /\ UNCHANGED <<book, seen, client, reading, overtaken>>

\* The result is 0: the main thread stops.
PopNothing(p) ==
  /\ order_queue_!RefusePop(p) /\ orders[p] = <<>>
  /\ Goto(p, "pop", IF p = Main THEN "done" ELSE "idle")
  /\ UNCHANGED <<book, orders, before, seen, client, reading, overtaken>>

-----------------------------------------------------------------------------
(* process_single_order *)

Order(p) == Head(orders[p])

\* On to the next order of the batch.
Finish(p) ==
  /\ orders' = [orders EXCEPT ![p] = Tail(@)]
  /\ pc' = [pc EXCEPT ![p] = IF Len(orders[p]) > 1 THEN "load" ELSE "idle"]
  /\ seen' = [seen EXCEPT ![p] = 0]
  /\ finished' = finished + 1
  /\ settled' = IF pc[p] = "subtract" THEN settled
                ELSE [settled EXCEPT ![Order(p).side] = @ \cup {Order(p).price}]
  /\ before' = [before EXCEPT ![p] =
       IF Len(orders[p]) > 1 THEN settled'[Other(orders[p][2].side)] ELSE {}]

LoadOther(p) ==
  /\ Goto(p, "load", IF Reaches(Order(p), best[Other(Order(p).side)]) THEN "match" ELSE "book")
  /\ UNCHANGED <<queue, phase, value, book, orders, before, seen, client, reading, overtaken>>

CountMatch(p) ==
  /\ Goto(p, "match", "load_quantity")
  /\ matched_orders_' = matched_orders_ + 1
  /\ UNCHANGED <<queue, phase, value, best, total, booked, volume, finished, settled,
                 orders, before, seen, client, reading, overtaken>>

LoadQuantity(p) ==
  /\ Goto(p, "load_quantity", "subtract")
  /\ seen' = [seen EXCEPT ![p] = total[Other(Order(p).side)]]
  /\ UNCHANGED <<queue, phase, value, book, orders, before, client, reading, overtaken>>

\* Mutant: the whole quantity of the order.
Filled_Whole(p) == Order(p).quantity

\* The smaller of the order's quantity and the total that was loaded.
Filled(p) == IF Order(p).quantity < seen[p] THEN Order(p).quantity ELSE seen[p]

\* Another thread has loaded the total from which p is going to subtract.
Overtakes(p) ==
  \E q \in Processors \ {p} : pc[q] = "subtract" /\ Order(q).side = Order(p).side

Subtract(p) ==
  /\ pc[p] = "subtract" /\ Finish(p)
  /\ total' = [total EXCEPT ![Other(Order(p).side)] = Wrap(@ + UINT64_MAX + 1 - Filled(p))]
  /\ overtaken' = (overtaken \/ Overtakes(p))
  /\ UNCHANGED <<queue, phase, value, best, matched_orders_, booked, volume, client, reading>>

Book(p) ==
  /\ Goto(p, "book", "load_best")
  /\ total' = [total EXCEPT ![Order(p).side] = Wrap(@ + Order(p).quantity)]
  /\ booked' = [booked EXCEPT ![Order(p).side] = @ \cup {Order(p).price}]
  /\ volume' = [volume EXCEPT ![Order(p).side] = @ + Order(p).quantity]
  /\ UNCHANGED <<queue, phase, value, best, matched_orders_, finished, settled, orders,
                 before, seen, client, reading, overtaken>>

\* The best price has been loaded, or the compare-exchange has failed with it.
SeesBest(p) ==
  /\ \/ /\ Better(Order(p).side, Order(p).price, best[Order(p).side])
        /\ pc' = [pc EXCEPT ![p] = "cas"]
        /\ seen' = [seen EXCEPT ![p] = best[Order(p).side]]
        /\ UNCHANGED <<orders, finished, settled, before>>
     \/ ~Better(Order(p).side, Order(p).price, best[Order(p).side]) /\ Finish(p)
  /\ UNCHANGED <<queue, phase, value, best, total, matched_orders_, booked, volume, client,
                 reading, overtaken>>

LoadBest(p) == pc[p] = "load_best" /\ SeesBest(p)

CasBestFail(p) == pc[p] = "cas" /\ best[Order(p).side] # seen[p] /\ SeesBest(p)

\* Mutant: the price is stored without being compared.
CasBest_Store(p) ==
  /\ pc[p] = "cas" /\ Finish(p)
  /\ best' = [best EXCEPT ![Order(p).side] = Order(p).price]
  /\ UNCHANGED <<queue, phase, value, total, matched_orders_, booked, volume, client,
                 reading, overtaken>>

CasBest(p) ==
  /\ pc[p] = "cas" /\ best[Order(p).side] = seen[p] /\ Finish(p)
  /\ best' = [best EXCEPT ![Order(p).side] = Order(p).price]
  /\ UNCHANGED <<queue, phase, value, total, matched_orders_, booked, volume, client,
                 reading, overtaken>>

ProcessStep(p) ==
  \/ LoadOther(p) \/ CountMatch(p) \/ LoadQuantity(p) \/ Subtract(p)
  \/ Book(p) \/ LoadBest(p) \/ CasBest(p) \/ CasBestFail(p)

-----------------------------------------------------------------------------
(* get_spread *)

Spread(bid, ask) == IF bid = 0 \/ ask \in {0, UINT64_MAX} \/ ask <= bid THEN 0 ELSE ask - bid

LoadBid ==
  /\ reading = <<>>
  /\ reading' = <<best["BUY"], best["SELL"]>>
  /\ UNCHANGED <<queue, phase, value, book, pc, orders, before, seen, client, overtaken>>

\* get_spread returns Spread(reading[1], best["SELL"]).
LoadAsk ==
  /\ reading # <<>>
  /\ reading' = <<>>
  /\ UNCHANGED <<queue, phase, value, book, pc, orders, before, seen, client, overtaken>>

-----------------------------------------------------------------------------
ProcessOrders(p) == ProcessCall(p) \/ PopBatch(p) \/ PopNothing(p) \/ ProcessStep(p)

Next ==
  \/ \E t \in Traders : Trade(t)
  \/ \E p \in Processors : ProcessOrders(p)
  \/ LoadBid \/ LoadAsk

Spec == Init /\ [][Next]_vars

-----------------------------------------------------------------------------
(* Properties *)

\* However many threads process orders, one is never booked although it could
\* trade with a price of the other side that was booked by an order finished
\* before its own processing began.  So the book gets crossed only by orders
\* that are processed at the same time.
CrossedByOverlap ==
  \A p \in Processors :
    pc[p] \in {"book", "load_best", "cas"} =>
      \A q \in before[p] : Better(Other(Order(p).side), Order(p).price, q)

\* No more is taken from a side than rests on it, so the unsigned totals do
\* not wrap below zero, however many threads process orders, unless one of
\* them subtracts between another's load of a total and its subtraction.
NoUnderflow == ~overtaken => \A s \in Sides : total[s] <= volume[s]

\* However many threads process orders, no improvement of a best price is
\* lost: the best price was booked, and it is at least as good as every booked
\* price whose order is not just being compared with it.
BestIsBooked ==
  \A s \in Sides :
    /\ best[s] \in booked[s] \cup {Worst(s)}
    /\ \A q \in booked[s] :
         \/ ~Better(s, q, best[s])
         \/ \E p \in Processors :
              pc[p] \in {"load_best", "cas"} /\ Order(p).side = s /\ Order(p).price = q

\* get_spread loads the bid and then the ask, while other threads raise the one
\* and lower the other.  If there was an ask when it loaded the bid, it returns
\* no more than the spread of that moment; if there was a bid, it returns no
\* less than the spread when it loads the ask.  With orders on both sides the
\* result so lies between the first and the last spread.  If the first bid
\* comes during the call it returns 0, and if the first ask does it may return
\* more than the book's spread has ever been.
SpreadBounds ==
  [][LoadAsk =>
       LET spread == Spread(reading[1], best["SELL"])
           first == Spread(reading[1], reading[2])
           last == Spread(best["BUY"], best["SELL"])
       IN  /\ reading[2] # Worst("SELL") => spread <= first
           /\ reading[1] # Worst("BUY") => last <= spread]_vars

\* When process_orders has returned 0 to the main thread, every order has been
\* processed, or another thread still has it: the count that the test asserts.
AllProcessed ==
  LET InHand(p) == Len(orders[p]) + (IF phase[p] = "popped" THEN 1 ELSE 0) IN
  pc[Main] = "done" =>
    MapThenSumSet(InHand, Processors) + finished = Cardinality(Traders) * OrdersPerTrader
=============================================================================
