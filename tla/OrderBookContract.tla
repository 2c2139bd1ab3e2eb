-------------------------- MODULE OrderBookContract ---------------------------
(***************************************************************************)
(* OrderBook under the contract of its callers: a quantity "must be > 0"   *)
(* (order_book.hpp).  The book does not check that, and OrderBook is       *)
(* defined without it; what is proved of it is about callers that keep it. *)
(***************************************************************************)
EXTENDS OrderBook

ASSUME ContractAssumption == Qtys \subseteq Nat \ {0}
=============================================================================
