-------------------------- MODULE WorkloadGenerator --------------------------
(***************************************************************************)
(* include/lob/workload_gen.h: the generator runs every command it makes   *)
(* through a shadow engine, and draws its cancels from the ids that engine *)
(* reports as live.  next() starts with the step that decides the command  *)
(* and ends when the engine's sweep does.                                  *)
(*                                                                         *)
(* MaxCommands is the n of generate_workload, after which the stream ends. *)
(*                                                                         *)
(* Randomness is a free choice: a draw may have any value in its range, as *)
(* over all seeds.  The one-in draws are taken to be of one in two or more.*)
(***************************************************************************)
EXTENDS MatchingEngine, SequencesExt

CONSTANTS OpMix,             \* the kinds of command whose weight is not zero
          MinOrderQty,       \* min_qty
          MaxOrderQty,       \* max_qty
          MaxPriceOffset,    \* max_price_offset
          MaxWalkStep,       \* max_walk_step
          WalkRadius         \* walk_radius

ASSUME WorkloadAssumption ==
    /\ OpMix # {} /\ OpMix \subseteq OrderTypes \union {"cancel"}
    /\ MinOrderQty \in Nat \ {0} /\ MaxOrderQty \in Nat /\ MaxOrderQty >= MinOrderQty
    /\ {MaxPriceOffset, WalkRadius} \subseteq Nat
    /\ MaxWalkStep \in Nat \ {0}
    /\ AnchorPrice + WalkRadius + MaxPriceOffset < kMaxPrice

VARIABLES mid,               \* mid_
          live,              \* live_ids_ as ids, live_pos_ as pos
          counts             \* counts_

genVars == <<engineVars, mid, live, counts>>

GenInit ==
    /\ EngineInit
    /\ mid = AnchorPrice
    /\ live = [ids |-> <<>>, pos |-> <<>>]
    /\ counts = [limits |-> 0, markets |-> 0, iocs |-> 0, cancels |-> 0, degraded_cancels |-> 0]

-----------------------------------------------------------------------------
LargerOf(a, b) == IF a > b THEN a ELSE b

walk_lo == LargerOf(1, AnchorPrice - WalkRadius)
walk_hi == AnchorPrice + WalkRadius

(* MaybeStepMid: no step, or one either way, clamped to the walk.           *)
NextMids ==
    {mid} \union {LargerOf(walk_lo, SmallerOf(walk_hi, mid + step)) :
                    step \in (-MaxWalkStep .. MaxWalkStep) \ {0}}

(* MakeAdd: passive quotes lie away from m, aggressive ones through it, and *)
(* no price is below 1.                                                     *)
GeneratedPrices(type, m) ==
    IF type = kMarket THEN {0}
    ELSE {LargerOf(1, m + offset) : offset \in -MaxPriceOffset .. MaxPriceOffset}

GeneratedOrders(type, m) ==
    [side : Sides, type : {type}, price_ticks : GeneratedPrices(type, m),
     qty : MinOrderQty .. MaxOrderQty]

-----------------------------------------------------------------------------
AddLive(l, id) ==
    [ids |-> Append(l.ids, id),
     pos |-> [known \in DOMAIN l.pos \union {id} |->
               IF known = id THEN Len(l.ids) + 1 ELSE l.pos[known]]]

(* A plausible bug: the removed id is forgotten before the move of the last *)
(* one, which puts it back when it is the last itself.                      *)
RemoveLiveTooEarly(l, id) ==
    IF id \notin DOMAIN l.pos THEN l
    ELSE LET last == Last(l.ids)
         IN  [ids |-> Front([l.ids EXCEPT ![l.pos[id]] = last]),
              pos |-> (last :> l.pos[id]) @@ Restrict(l.pos, DOMAIN l.pos \ {id})]

(* Swap-remove: the last id takes the place of the removed one.             *)
RemoveLive(l, id) ==
    IF id \notin DOMAIN l.pos THEN l
    ELSE LET last == Last(l.ids)
         IN  [ids |-> Front([l.ids EXCEPT ![l.pos[id]] = last]),
              pos |-> Restrict([l.pos EXCEPT ![last] = l.pos[id]], DOMAIN l.pos \ {id})]

(* A plausible bug: a filled order is kept until it is canceled.            *)
ObserveCancelOnly(l, e) ==
    CASE e.kind = kAccepted -> AddLive(l, e.order_id)
      [] e.kind = kCanceled -> RemoveLive(l, e.order_id)
      [] OTHER -> l

(* What Apply's sink does with an event.                                    *)
Observe(l, e) ==
    CASE e.kind = kAccepted -> AddLive(l, e.order_id)
      [] e.kind = kTraded /\ e.remaining = 0 -> RemoveLive(l, e.order_id)
      [] e.kind = kCanceled -> RemoveLive(l, e.order_id)
      [] OTHER -> l

Observed == live' = FoldLeft(Observe, live, out')

-----------------------------------------------------------------------------
CountOf(type) == CASE type = kLimit -> "limits" [] type = kMarket -> "markets" [] type = kIoc -> "iocs"

GenerateAdd(type) ==
    /\ type \in OpMix
    /\ mid' \in NextMids
    /\ \E new \in GeneratedOrders(type, mid') : Submit(new)
    /\ Observed
    /\ counts' = [counts EXCEPT ![CountOf(type)] = @ + 1]

(* A cancel with nothing to cancel becomes a limit order.                   *)
DegradeCancel ==
    /\ "cancel" \in OpMix /\ live.ids = <<>>
    /\ mid' \in NextMids
    /\ \E new \in GeneratedOrders(kLimit, mid') : Submit(new)
    /\ Observed
    /\ counts' = [counts EXCEPT !.limits = @ + 1, !.degraded_cancels = @ + 1]

GenerateCancel ==
    /\ "cancel" \in OpMix /\ live.ids # <<>>
    /\ mid' \in NextMids
    /\ \E k \in 1 .. Len(live.ids) : CancelRequest(live.ids[k])
    /\ Observed
    /\ counts' = [counts EXCEPT !.cancels = @ + 1]

(* The rest of next(): the shadow engine goes on with the order.            *)
ApplyRest ==
    /\ ContinueSubmit
    /\ Observed
    /\ UNCHANGED <<mid, counts>>

GenNext ==
    \/ \E type \in OrderTypes : GenerateAdd(type)
    \/ DegradeCancel
    \/ GenerateCancel
    \/ ApplyRest

GenSpec == GenInit /\ [][GenNext]_genVars

-----------------------------------------------------------------------------
(* The tracked ids are those of the orders with open quantity, after every  *)
(* event: the orders resting and the one in flight until it is filled.  The *)
(* positions are those of the ids in the list, so each id is in it once     *)
(* ("shadow tracking out of sync", asserted in AddLive and RemoveLive).     *)
TrackingIsExact ==
    /\ {live.ids[k] : k \in DOMAIN live.ids}
         = {slots[i].order_id : i \in RestingSlots}
           \union (IF taker.remaining > 0 THEN {taker.order_id} ELSE {})
    /\ DOMAIN live.pos = {live.ids[k] : k \in DOMAIN live.ids}
    /\ \A k \in DOMAIN live.ids : live.pos[live.ids[k]] = k

(* "every generated cancel is valid at replay time", and no order is        *)
(* malformed: all a stream can be refused for is a full pool.               *)
StreamIsValid == stats.rejected = stats.rejected_pool_exhausted
=============================================================================
