---------------------------- MODULE MatchingEngine ---------------------------
(***************************************************************************)
(* include/lob/matching_engine.h and stats.h: submit and cancel wrap the   *)
(* book's and count the requests and every event on its way to the sink.   *)
(* reset_stats is called between commands, at the end of a warm-up.        *)
(*                                                                         *)
(* base and filled are history: the orders open at the last reset, and the *)
(* orders whose last quantity was traded since.                            *)
(***************************************************************************)
EXTENDS OrderBook

CONSTANT MaxCommands       \* bound on the commands between two resets

ASSUME MaxCommandsAssumption == MaxCommands \in Nat

VARIABLES stats, base, filled

engineVars == <<bookVars, stats, base, filled>>

ZeroStats ==
    [news |-> 0, cancel_requests |-> 0, events |-> 0, accepted |-> 0, rejected |-> 0,
     rejected_unknown_order |-> 0, rejected_invalid |-> 0, rejected_pool_exhausted |-> 0,
     traded_events |-> 0, traded_qty_both_sides |-> 0, canceled |-> 0]

EngineInit ==
    /\ BookInit
    /\ stats = ZeroStats
    /\ base = 0 /\ filled = 0

commands == stats.news + stats.cancel_requests

-----------------------------------------------------------------------------
Counting(events, kind) == Cardinality({k \in DOMAIN events : events[k].kind = kind})

Rejects(events, reasons) ==
    Cardinality({k \in DOMAIN events :
                    events[k].kind = kRejected /\ events[k].reason \in reasons})

(* A plausible bug: the cancel misses are counted as invalid orders.        *)
OnEventsMixed(s, events) ==
    [s EXCEPT !.events                  = @ + Len(events),
              !.accepted                = @ + Counting(events, kAccepted),
              !.rejected                = @ + Counting(events, kRejected),
              !.rejected_invalid        = @ + Rejects(events, {kInvalidQty, kUnknownOrder}),
              !.rejected_pool_exhausted = @ + Rejects(events, {kPoolExhausted}),
              !.traded_events           = @ + Counting(events, kTraded),
              !.traded_qty_both_sides   = @ + EventQty(events, kTraded),
              !.canceled                = @ + Counting(events, kCanceled)]

(* on_event, for the events of a step.                                      *)
OnEvents(s, events) ==
    [s EXCEPT !.events                  = @ + Len(events),
              !.accepted                = @ + Counting(events, kAccepted),
              !.rejected                = @ + Counting(events, kRejected),
              !.rejected_unknown_order  = @ + Rejects(events, {kUnknownOrder}),
              !.rejected_invalid        = @ + Rejects(events, {kInvalidQty, kInvalidPrice}),
              !.rejected_pool_exhausted = @ + Rejects(events, {kPoolExhausted}),
              !.traded_events           = @ + Counting(events, kTraded),
              !.traded_qty_both_sides   = @ + EventQty(events, kTraded),
              !.canceled                = @ + Counting(events, kCanceled)]

LastFills(events) ==
    Cardinality({k \in DOMAIN events :
                    events[k].kind = kTraded /\ events[k].remaining = 0})

Counted(s) ==
    /\ stats' = OnEvents(s, out')
    /\ filled' = filled + LastFills(out')
    /\ UNCHANGED base

Submit(new) ==
    /\ commands < MaxCommands
    /\ AddInvalid(new) \/ AddToFullPool(new) \/ Accept(new)
    /\ Counted([stats EXCEPT !.news = @ + 1])

CancelRequest(id) ==
    /\ commands < MaxCommands
    /\ CancelOpen(id) \/ CancelUnknown(id)
    /\ Counted([stats EXCEPT !.cancel_requests = @ + 1])

(* The rest of a submit, the events of its sweep included.                  *)
ContinueSubmit ==
    /\ Sweep
    /\ Counted(stats)

ResetStats ==
    /\ Idle /\ commands > 0
    /\ stats' = ZeroStats
    /\ base' = live_count /\ filled' = 0
    /\ UNCHANGED bookVars

EngineNext ==
    \/ \E new \in NewOrders : Submit(new)
    \/ ContinueSubmit
    \/ \E id \in CancelIds : CancelRequest(id)
    \/ ResetStats

EngineSpec == EngineInit /\ [][EngineNext]_engineVars

-----------------------------------------------------------------------------
(* The identities of stats.h:77-79, at every event: each command is decided *)
(* once, each reject has one reason, and each event is counted once.        *)
CountersAgree ==
    /\ stats.events = stats.accepted + stats.rejected + stats.traded_events + stats.canceled
    /\ stats.news = stats.accepted + stats.rejected_invalid + stats.rejected_pool_exhausted
    /\ stats.rejected = stats.rejected_invalid + stats.rejected_pool_exhausted
                        + stats.rejected_unknown_order

(* Between commands, the counters explain the open orders: those accepted   *)
(* since the reset and neither canceled nor filled, on top of those open    *)
(* then.  A reset may fall anywhere between two commands.                   *)
OpenOrdersAreExplained ==
    Idle => live_count = base + stats.accepted - stats.canceled - filled
=============================================================================
