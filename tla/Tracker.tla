------------------------------- MODULE Tracker -------------------------------
(***************************************************************************)
(* The notice pipeline of the tracker: adx_tracker() of                    *)
(* tracker/src/tracker.cpp, run by cpu_count threads (and by several       *)
(* processes) that share nothing but Redis, together with the two things   *)
(* that feed it: the bidder, which stores the key dsp_id_flag before it    *)
(* answers (BidWork::SetBidRedisFlag), and the network, which delivers the *)
(* win / impression / click notices of a bid in any order and repeatedly.  *)
(*                                                                         *)
(* An element of Ads stands for a triple (bid, impid, advid), the name of  *)
(* a dsp_id_flag key; ImpOf maps it to its pair (bid, impid), the name of  *)
(* a dsp_id_price key.  Every Redis command is one step; the value of a    *)
(* flag key is the set of the bits that are 1, and {} is a missing key.    *)
(***************************************************************************)
EXTENDS Integers, FiniteSets

CONSTANTS
    Threads,    \* the threads that run adx_dsp_thread
    Ads,        \* the triples (bid, impid, advid)
    Imps,       \* the pairs (bid, impid)
    ImpOf,      \* the pair of a triple
    Deals,      \* the ads that were sold at a fixed price (at = 1)
    FixPrice,   \* the contract dsp_fixprice_(adx)_(dealid): its fields imp, clk
    Prices,     \* the prices a notice can carry
    MaxCopies   \* how often a notice is delivered, duplicates included

NoPrice == 0    \* dsp_info->price = 0, no price known

MTypes == {"w", "i", "c"}

\* The value of each field is -1 in the contract where NoPrice stands here.
ASSUME TrackerAssumption ==
    /\ IsFiniteSet(Threads)
    /\ ImpOf \in [Ads -> Imps]
    /\ Deals \subseteq Ads
    /\ Prices \subseteq Nat \ {NoPrice}
    /\ FixPrice \in [{"i", "c"} -> Prices \cup {NoPrice}]
    /\ MaxCopies \in Nat

VARIABLES
    flag,       \* the keys dsp_id_flag_(bid)_(impid)_(advid)
    priceKey,   \* the keys dsp_id_price_(bid)_(impid)
    pc,         \* where a thread is in adx_tracker
    req,        \* url_info of the request a thread handles
    seen,       \* dsp_id_flag, the value the thread read
    iv, ic,     \* dsp_info->iv and dsp_info->ic
    price,      \* dsp_info->price
    issued,     \* history: the bidder answered with this ad
    delivered,  \* history: how often each notice was delivered
    accepted,   \* history: how often a notice was found valid (iv = 1)
    handled,    \* history: how often such a notice was handled to its end
    lost,       \* history: valid notices whose handling a crash cut short
    shown,      \* history: an impression of this ad was stored in its key
    won,        \* history: the prices the win notices of an impid brought
    overlap     \* history: two threads were between GET and SETEX of one key

redis == <<flag, priceKey>>
local == <<pc, req, seen, iv, ic, price>>
history == <<issued, delivered, accepted, handled, lost, shown, won, overlap>>
vars == <<flag, priceKey, pc, req, seen, iv, ic, price, issued, delivered,
          accepted, handled, lost, shown, won, overlap>>

Bits == {"bid", "price", "show", "click"}

Bit(m) == CASE m = "w" -> "price" [] m = "i" -> "show" [] m = "c" -> "click"

\* errorcode.h, as far as ic tells a reader of the Kafka record why.
Codes == {"success", "repeated_win", "repeated_imp", "repeated_clk", "redis"}

Requests == [ad : Ads, mtype : MTypes, price : Prices \cup {NoPrice}]

NoReq == [mtype |-> "none"]     \* a thread that waits in FCGX_Accept_r

TypeOK ==
    /\ flag \in [Ads -> SUBSET Bits]
    /\ priceKey \in [Imps -> Prices \cup {NoPrice}]
    /\ pc \in [Threads -> {"idle", "get", "set", "price", "kafka", "count"}]
    /\ req \in [Threads -> Requests \cup {NoReq}]
    /\ seen \in [Threads -> SUBSET Bits]
    /\ iv \in [Threads -> BOOLEAN]
    /\ ic \in [Threads -> Codes]
    /\ price \in [Threads -> Prices \cup {NoPrice}]
    /\ issued \in [Ads -> BOOLEAN]
    /\ delivered \in [Ads -> [MTypes -> 0 .. MaxCopies]]
    /\ accepted \in [Ads -> [MTypes -> Nat]]
    /\ handled \in [Ads -> [MTypes -> Nat]]
    /\ lost \in [Ads -> [MTypes -> Nat]]
    /\ shown \in [Ads -> BOOLEAN]
    /\ won \in [Imps -> SUBSET Prices]
    /\ overlap \in [Ads -> BOOLEAN]

Init ==
    /\ flag = [a \in Ads |-> {}]
    /\ priceKey = [i \in Imps |-> NoPrice]
    /\ pc = [t \in Threads |-> "idle"]
    /\ req = [t \in Threads |-> NoReq]
    /\ seen = [t \in Threads |-> {}]
    /\ iv = [t \in Threads |-> FALSE]
    /\ ic = [t \in Threads |-> "success"]
    /\ price = [t \in Threads |-> NoPrice]
    /\ issued = [a \in Ads |-> FALSE]
    /\ delivered = [a \in Ads |-> [m \in MTypes |-> 0]]
    /\ accepted = [a \in Ads |-> [m \in MTypes |-> 0]]
    /\ handled = [a \in Ads |-> [m \in MTypes |-> 0]]
    /\ lost = [a \in Ads |-> [m \in MTypes |-> 0]]
    /\ shown = [a \in Ads |-> FALSE]
    /\ won = [i \in Imps |-> {}]
    /\ overlap = [a \in Ads |-> FALSE]

------------------------------------------------------------------------------
(* The environment: the bidder, the exchanges, the expiry of keys, crashes. *)

\* SetBidRedisFlag(): "setex key requestidlife 1"; only if Redis acknowledges
\* it (after at most one reconnect) is the bid sent.  The other disjunct is a
\* command that took effect while its acknowledgement got lost: seatbid is
\* cleared and no notice will ever come.
SetBidRedisFlag(a) ==
    /\ ~issued[a]
    /\ flag' = [flag EXCEPT ![a] = {"bid"}]
    /\ \/ issued' = [issued EXCEPT ![a] = TRUE]
       \/ flag[a] = {} /\ UNCHANGED issued
    /\ UNCHANGED <<priceKey, local, delivered, accepted, handled, lost, shown,
                   won, overlap>>

\* The time to live of a dsp_id_flag key (requestidlife or 36000 s) runs out.
ExpireFlag(a) ==
    /\ flag[a] # {}
    /\ flag' = [flag EXCEPT ![a] = {}]
    /\ UNCHANGED <<priceKey, local, history>>

\* The 36000 s of a dsp_id_price key run out.
ExpirePrice(i) ==
    /\ priceKey[i] # NoPrice
    /\ priceKey' = [priceKey EXCEPT ![i] = NoPrice]
    /\ UNCHANGED <<flag, local, history>>

InFlight(a, m) ==
    {t \in Threads : iv[t] /\ req[t] \in Requests /\ req[t].ad = a
                           /\ req[t].mtype = m}

\* The process dies and is started again: Redis keeps what was written.
Crash ==
    /\ \E t \in Threads : pc[t] # "idle"
    /\ pc' = [t \in Threads |-> "idle"]
    /\ req' = [t \in Threads |-> NoReq]
    /\ seen' = [t \in Threads |-> {}]
    /\ iv' = [t \in Threads |-> FALSE]
    /\ ic' = [t \in Threads |-> "success"]
    /\ price' = [t \in Threads |-> NoPrice]
    /\ lost' = [a \in Ads |-> [m \in MTypes |->
                    lost[a][m] + Cardinality(InFlight(a, m))]]
    /\ UNCHANGED <<redis, issued, delivered, accepted, handled, shown, won,
                   overlap>>

------------------------------------------------------------------------------
(* A thread that handles a notice.                                          *)

\* FCGX_Accept_r and the parameter checks.  A win notice carries a price that
\* may turn out not to decode, an impression may carry one, a click has none.
Accept(t, a, m, p) ==
    /\ pc[t] = "idle"
    /\ issued[a]
    /\ delivered[a][m] < MaxCopies
    /\ m = "c" => p = NoPrice
    /\ delivered' = [delivered EXCEPT ![a][m] = @ + 1]
    /\ pc' = [pc EXCEPT ![t] = "get"]
    /\ req' = [req EXCEPT ![t] = [ad |-> a, mtype |-> m, price |-> p]]
    /\ UNCHANGED <<redis, seen, iv, ic, price, issued, accepted, handled,
                   lost, shown, won, overlap>>

\* A notice whose mtype, adx, mapid, bid or impid is missing or out of range
\* is answered at once and touches nothing that is shared.
Malformed(t, a, m) ==
    /\ pc[t] = "idle"
    /\ issued[a]
    /\ delivered[a][m] < MaxCopies
    /\ delivered' = [delivered EXCEPT ![a][m] = @ + 1]
    /\ UNCHANGED <<redis, local, issued, accepted, handled, lost, shown, won,
                   overlap>>

\* Mutant of Fresh: a click is not asked for its impression.
FreshWithoutShow(m, f) == Bit(m) \notin f

\* The bit of the notice is still free (and, for a click, an impression came).
Fresh(m, f) == /\ Bit(m) \notin f
               /\ m = "c" => "show" \in f

Others(t, a) == {u \in Threads \ {t} : pc[u] = "set" /\ req[u].ad = a}

\* GET dsp_id_flag_..., with the key present and the notice new.
GetFlagFresh(t) ==
    LET a == req[t].ad IN
    /\ pc[t] = "get"
    /\ flag[a] # {}
    /\ Fresh(req[t].mtype, flag[a])
    /\ seen' = [seen EXCEPT ![t] = flag[a]]
    /\ pc' = [pc EXCEPT ![t] = "set"]
    /\ overlap' = [overlap EXCEPT ![a] = @ \/ Others(t, a) # {}]
    /\ UNCHANGED <<redis, req, iv, ic, price, issued, delivered, accepted,
                   handled, lost, shown, won>>

\* The code a repeated notice gets; i and c share one.
RepeatedCode(m) == IF m = "w" THEN "repeated_win" ELSE "repeated_clk"

\* GET dsp_id_flag_... of a notice that was seen before, of a click without
\* an impression, of a key that is missing, or with an error: iv stays 0.
GetFlagRefuse(t) ==
    LET a == req[t].ad
        m == req[t].mtype IN
    /\ pc[t] = "get"
    /\ \/ /\ flag[a] # {}
          /\ ~Fresh(m, flag[a])
          /\ ic' = [ic EXCEPT ![t] = RepeatedCode(m)]
       \/ ic' = [ic EXCEPT ![t] = "redis"]
    /\ pc' = [pc EXCEPT ![t] = "kafka"]
    /\ UNCHANGED <<redis, req, seen, iv, price, history>>

\* Mutant of SetFlag: SETEX of the bit alone instead of dsp_id_flag | bit.
SetFlagBitAlone(t) ==
    LET a == req[t].ad
        m == req[t].mtype IN
    /\ pc[t] = "set"
    /\ flag' = [flag EXCEPT ![a] = {Bit(m)}]
    /\ iv' = [iv EXCEPT ![t] = TRUE]
    /\ pc' = [pc EXCEPT ![t] = "price"]
    /\ accepted' = [accepted EXCEPT ![a][m] = @ + 1]
    /\ shown' = [shown EXCEPT ![a] = @ \/ m = "i"]
    /\ UNCHANGED <<priceKey, req, seen, ic, price, issued, delivered, handled,
                   lost, won, overlap>>

\* SETEX dsp_id_flag_... 36000 (dsp_id_flag | bit), acknowledged: iv = 1.
SetFlag(t) ==
    LET a == req[t].ad
        m == req[t].mtype IN
    /\ pc[t] = "set"
    /\ flag' = [flag EXCEPT ![a] = seen[t] \cup {Bit(m)}]
    /\ iv' = [iv EXCEPT ![t] = TRUE]
    /\ pc' = [pc EXCEPT ![t] = "price"]
    /\ accepted' = [accepted EXCEPT ![a][m] = @ + 1]
    /\ shown' = [shown EXCEPT ![a] = @ \/ m = "i"]
    /\ UNCHANGED <<priceKey, req, seen, ic, price, issued, delivered, handled,
                   lost, won, overlap>>

\* The SETEX fails: it was not executed, or only its answer was lost.
SetFlagFail(t) ==
    LET a == req[t].ad
        m == req[t].mtype IN
    /\ pc[t] = "set"
    /\ \/ UNCHANGED <<flag, shown>>
       \/ /\ flag' = [flag EXCEPT ![a] = seen[t] \cup {Bit(m)}]
          /\ shown' = [shown EXCEPT ![a] = @ \/ m = "i"]
    /\ ic' = [ic EXCEPT ![t] = "redis"]
    /\ pc' = [pc EXCEPT ![t] = "kafka"]
    /\ UNCHANGED <<priceKey, req, seen, iv, price, issued, delivered, accepted,
                   handled, lost, won, overlap>>

\* adx_deal_process(): HGETALL of the contract; -1 or a failure leave 0.
DealPrice(t) ==
    LET m == req[t].mtype IN
    /\ pc[t] = "price"
    /\ req[t].ad \in Deals
    /\ \/ m \in {"i", "c"} /\ price' = [price EXCEPT ![t] = FixPrice[m]]
       \/ UNCHANGED price
    /\ pc' = [pc EXCEPT ![t] = "kafka"]
    /\ UNCHANGED <<redis, req, seen, iv, ic, history>>

\* adx_rtb_process() of a win notice whose price decodes: adx_rtb_winnotice()
\* does SETEX dsp_id_price_... 36000, which may fail unnoticed.
WinPrice(t) ==
    LET i == ImpOf[req[t].ad]
        p == req[t].price IN
    /\ pc[t] = "price"
    /\ req[t].ad \notin Deals
    /\ req[t].mtype = "w"
    /\ p # NoPrice
    /\ price' = [price EXCEPT ![t] = p]
    /\ \/ priceKey' = [priceKey EXCEPT ![i] = p]
       \/ UNCHANGED priceKey
    /\ won' = [won EXCEPT ![i] = @ \cup {p}]
    /\ pc' = [pc EXCEPT ![t] = "kafka"]
    /\ UNCHANGED <<flag, req, seen, iv, ic, issued, delivered, accepted,
                   handled, lost, shown, overlap>>

\* Mutant of ImpPrice: price_normalization is applied to the cached price too.
ImpPriceTwice(t) ==
    LET i == ImpOf[req[t].ad]
        p == req[t].price IN
    /\ pc[t] = "price"
    /\ req[t].ad \notin Deals
    /\ req[t].mtype = "i"
    /\ \/ p # NoPrice /\ price' = [price EXCEPT ![t] = p]
       \/ p = NoPrice /\ price' = [price EXCEPT ![t] = 100 * priceKey[i]]
       \/ p = NoPrice /\ UNCHANGED price
    /\ pc' = [pc EXCEPT ![t] = "kafka"]
    /\ UNCHANGED <<redis, req, seen, iv, ic, history>>

\* adx_rtb_process() of an impression: the price it carries, or else, by
\* adx_rtb_impnotice(), the one in dsp_id_price_... unless the GET fails.
ImpPrice(t) ==
    LET i == ImpOf[req[t].ad]
        p == req[t].price IN
    /\ pc[t] = "price"
    /\ req[t].ad \notin Deals
    /\ req[t].mtype = "i"
    /\ \/ p # NoPrice /\ price' = [price EXCEPT ![t] = p]
       \/ p = NoPrice /\ price' = [price EXCEPT ![t] = priceKey[i]]
       \/ p = NoPrice /\ UNCHANGED price
    /\ pc' = [pc EXCEPT ![t] = "kafka"]
    /\ UNCHANGED <<redis, req, seen, iv, ic, history>>

\* adx_rtb_process() of a click, or of a win notice that does not decode.
OtherPrice(t) ==
    /\ pc[t] = "price"
    /\ req[t].ad \notin Deals
    /\ req[t].mtype # "i"
    /\ req[t].price = NoPrice
    /\ pc' = [pc EXCEPT ![t] = "kafka"]
    /\ UNCHANGED <<redis, req, seen, iv, ic, price, history>>

\* Mutant of Finish: dsp_info->price is not set to 0 before the next notice.
FinishKeepsPrice(t) ==
    /\ pc' = [pc EXCEPT ![t] = "idle"]
    /\ req' = [req EXCEPT ![t] = NoReq]
    /\ seen' = [seen EXCEPT ![t] = {}]
    /\ iv' = [iv EXCEPT ![t] = FALSE]
    /\ ic' = [ic EXCEPT ![t] = "success"]
    /\ UNCHANGED price

\* The thread goes back to FCGX_Accept_r; doit() starts from a clean dsp_info.
Finish(t) ==
    /\ pc' = [pc EXCEPT ![t] = "idle"]
    /\ req' = [req EXCEPT ![t] = NoReq]
    /\ seen' = [seen EXCEPT ![t] = {}]
    /\ iv' = [iv EXCEPT ![t] = FALSE]
    /\ ic' = [ic EXCEPT ![t] = "success"]
    /\ price' = [price EXCEPT ![t] = NoPrice]

\* Mutant of KafkaSend: adx_dsp_control is called without a look at iv.
KafkaSendUnchecked(t) ==
    /\ pc[t] = "kafka"
    /\ req[t].mtype \in {"i", "c"}
    /\ pc' = [pc EXCEPT ![t] = "count"]
    /\ UNCHANGED <<redis, req, seen, iv, ic, price, history>>

\* adx_tracker_kafka_send() of a valid impression or click.
KafkaSend(t) ==
    /\ pc[t] = "kafka"
    /\ iv[t]
    /\ req[t].mtype \in {"i", "c"}
    /\ pc' = [pc EXCEPT ![t] = "count"]
    /\ UNCHANGED <<redis, req, seen, iv, ic, price, history>>

\* adx_tracker_kafka_send() of a win notice or of a refused notice, the last
\* thing that is done for it.
KafkaSendLast(t) ==
    /\ pc[t] = "kafka"
    /\ ~iv[t] \/ req[t].mtype = "w"
    /\ handled' = IF iv[t]
                  THEN [handled EXCEPT ![req[t].ad][req[t].mtype] = @ + 1]
                  ELSE handled
    /\ Finish(t)
    /\ UNCHANGED <<redis, issued, delivered, accepted, lost, shown, won,
                   overlap>>

\* adx_dsp_control() of a valid impression or click; module KpiControl opens it.
DspControl(t) ==
    /\ pc[t] = "count"
    /\ handled' = [handled EXCEPT ![req[t].ad][req[t].mtype] = @ + 1]
    /\ Finish(t)
    /\ UNCHANGED <<redis, issued, delivered, accepted, lost, shown, won,
                   overlap>>

Step(t) ==
    \/ \E a \in Ads, m \in MTypes, p \in Prices \cup {NoPrice} :
           Accept(t, a, m, p)
    \/ \E a \in Ads, m \in MTypes : Malformed(t, a, m)
    \/ GetFlagFresh(t)
    \/ GetFlagRefuse(t)
    \/ SetFlag(t)
    \/ SetFlagFail(t)
    \/ DealPrice(t)
    \/ WinPrice(t)
    \/ ImpPrice(t)
    \/ OtherPrice(t)
    \/ KafkaSend(t)
    \/ KafkaSendLast(t)
    \/ DspControl(t)

Next ==
    \/ \E a \in Ads : SetBidRedisFlag(a) \/ ExpireFlag(a)
    \/ \E i \in Imps : ExpirePrice(i)
    \/ Crash
    \/ \E t \in Threads : Step(t)

Spec == Init /\ [][Next]_vars

------------------------------------------------------------------------------
(* Properties.                                                              *)

\* The flag keys make a notice valid at most once (tracker.cpp, the block that
\* reads and writes dsp_id_flag), as long as no two threads were between the
\* GET and the SETEX of the same key: whatever is delivered how often and in
\* which order, expires, fails or crashes.
ValidOnceIfSerial ==
    \A a \in Ads, m \in MTypes : ~overlap[a] => accepted[a][m] <= 1

\* The dedup block alone, whatever the interleaving: a notice is valid at most
\* once.
ValidOnce == \A a \in Ads, m \in MTypes : accepted[a][m] <= 1

\* A click is valid only for an ad whose impression was stored before it, even
\* when threads overlap: a lost update can take a bit away, it can not make a
\* thread see a bit nobody wrote.
ClickNeedsShow == \A a \in Ads : accepted[a]["c"] > 0 => shown[a]

\* Every valid notice is handled to its end exactly once, is being handled, or
\* was cut off by a crash: SETEX comes before the Kafka record and the counters,
\* so a notice can get lost but is never counted twice.
ValidIsHandledOnce ==
    \A a \in Ads, m \in MTypes :
        accepted[a][m] = handled[a][m] + lost[a][m]
                         + Cardinality(InFlight(a, m))

\* An RTB impression is charged a price it carried itself or one that a win
\* notice of the same (bid, impid) brought: never a price from nowhere.
ChargedPriceWasWon ==
    \A t \in Threads :
        (price[t] # NoPrice /\ req[t].mtype = "i" /\ req[t].ad \notin Deals)
            => price[t] \in won[ImpOf[req[t].ad]] \cup {req[t].price}

\* Without an overlap a key only gains bits until it expires: no thread takes
\* away what another one recorded.
BitsStayIfSerial ==
    [][\A a \in Ads : (~overlap'[a] /\ issued[a] /\ flag'[a] # {})
                          => flag[a] \subseteq flag'[a]]_vars

==============================================================================
