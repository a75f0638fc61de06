--------------------------- MODULE MCApplications ---------------------------
(***************************************************************************)
(* The four components that are built on the queue and the stack, each on  *)
(* a small instance.  They share no state, so it is enough to let one of   *)
(* them run in each behaviour: app says which.                             *)
(***************************************************************************)
EXTENDS MessageQueue

CONSTANTS t1, t2, t3, t4, t5, None

VARIABLES
  app,
  stack, held, misused, pool_phase, pool_value,
  best, total, matched_orders_, orders, seen, submitting, submitted, reading,
  booked, volume, finished, settled, before, overtaken,
  book_pc, order_queue, order_phase, order_value,
  operations_, recording_, operation_counter_, clock, done, op_id, start, result,
  lost, misplaced, set_back,
  worker_pc, worker_queue, worker_phase, worker_value

\* The sizes of the messages leave room for the sums of allocate.
ASSUME SizesFit == LengthsFit

Pool == INSTANCE ObjectPool WITH
  Threads <- {t1, t2, t3}, capacity_ <- 2, NoIndex <- None,
  phase <- pool_phase, value <- pool_value

Book == INSTANCE OrderBook WITH
  Traders <- {t1, t2, t5}, Processors <- {t3, t4}, Main <- t3, Prices <- {1, 2}, Quantities <- {1},
  QueueSize <- 2, MaxBatch <- 2, OrdersPerTrader <- 1, UINT64_MAX <- 15, NoOrder <- None,
  pc <- book_pc, queue <- order_queue, phase <- order_phase, value <- order_value

Validator == INSTANCE OrderingValidator WITH
  Workers <- {t1, t2}, Rounds <- 1, NoItem <- None, MaxTime <- 2, UINT64_MAX <- 15,
  pc <- worker_pc, queue <- worker_queue, phase <- worker_phase, value <- worker_value

pool == <<stack, held, misused, pool_phase, pool_value>>
book == <<best, total, matched_orders_, orders, seen, submitting, submitted, reading,
          booked, volume, finished, settled, before, overtaken,
          book_pc, order_queue, order_phase, order_value>>
validator == <<operations_, recording_, operation_counter_, clock, done, op_id, start, result,
               lost, misplaced, set_back, worker_pc, worker_queue, worker_phase, worker_value>>
all == <<app, vars, pool, book, validator>>

AppInit ==
  /\ app \in {"pool", "messages", "book", "validator"}
  /\ Init /\ Pool!Init /\ Book!Init /\ Validator!Init

PoolNext == app = "pool" /\ Pool!Next /\ UNCHANGED <<app, vars, book, validator>>

Send(p) == app = "messages" /\ Produce(p) /\ UNCHANGED <<app, pool, book, validator>>

Receive(p) == app = "messages" /\ Consume(p) /\ UNCHANGED <<app, pool, book, validator>>

BookNext == app = "book" /\ Book!Next /\ UNCHANGED <<app, vars, pool, validator>>

ValidatorNext == app = "validator" /\ Validator!Next /\ UNCHANGED <<app, vars, pool, book>>

AppNext ==
  \/ PoolNext \/ BookNext \/ ValidatorNext
  \/ (\E p \in Producers : Send(p)) \/ (\E p \in Consumers : Receive(p))

\* Every thread that can take a step takes one.
FairSpec ==
  /\ AppInit /\ [][AppNext]_all
  /\ \A p \in Producers : WF_all(Send(p))
  /\ \A p \in Consumers : WF_all(Receive(p))

-----------------------------------------------------------------------------
\* No object of the pool is given out twice or lost: see ObjectPool.
ObjectsPlacedOnce == Pool!ObjectsPlacedOnce

\* Only orders processed at the same time cross the book: see OrderBook.
CrossedByOverlap == Book!CrossedByOverlap

\* No total wraps unless two threads take from it at once: see OrderBook.
NoUnderflow == Book!NoUnderflow

\* No improvement of a best price is lost: see OrderBook.
BestIsBooked == Book!BestIsBooked

\* How far what get_spread returns is from the spreads at the moments of its
\* two loads: see OrderBook.
SpreadBounds == Book!SpreadBounds

\* Every order has been processed when the main thread stops: see OrderBook.
AllProcessed == Book!AllProcessed

\* No recorded end is overwritten: see OrderingValidator.
FinishedOnce == Validator!FinishedOnce

=============================================================================
