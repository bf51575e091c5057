-------------------------- MODULE LiveFeeds_proofs --------------------------
(***************************************************************************)
(* Theorems about the Redis feeds of a PAPER / LIVE worker, for any        *)
(* streams, symbols, partitions, settings and batch sizes, any number of   *)
(* entries, updates, lost connections and crashes.                         *)
(***************************************************************************)
EXTENDS LiveFeeds, TLAPS

-----------------------------------------------------------------------------
(* The workers' flags and the bounds' counters.                            *)
FlagsInv ==
  /\ {closing, running, adapter, mdStop, pfStop, subscribed} \subseteq BOOLEAN
  /\ stopPc \in {"idle", "md", "mdJoin", "pf", "pfJoin", "strategy", "done"}
  /\ pf \in {"off", "none", "loop", "read", "backoff", "apply", "ended", "dead"}

(* A buffer of the subscription: updates in the order of their numbers,    *)
(* after low and none above high.                                          *)
Message == [n : Nat, kind : Kinds]

InOrder(q, low, high) ==
  /\ q \in Seq(Message)
  /\ \A i \in 1 .. Len(q) :
       /\ low < q[i].n /\ q[i].n <= high
       /\ \A j \in 1 .. i - 1 : q[j].n < q[i].n

LEMMA EmptyInOrder == \A low, high : InOrder(<<>>, low, high)
  BY DEF InOrder

LEMMA AppendInOrder ==
  ASSUME NEW high \in Nat, NEW low \in 0 .. high, NEW q, InOrder(q, low, high),
         NEW m \in Message, m.n = high + 1
  PROVE  InOrder(Append(q, m), low, high + 1)
<1>1. /\ Append(q, m) \in Seq(Message) /\ Len(Append(q, m)) = Len(q) + 1
      /\ \A i \in 1 .. Len(q) : Append(q, m)[i] = q[i]
      /\ Append(q, m)[Len(q) + 1] = m /\ Len(q) \in Nat
  BY DEF InOrder
<1> DEFINE r == Append(q, m)
<1> HIDE DEF r
<1>2. ASSUME NEW i \in 1 .. Len(r)
      PROVE  /\ low < r[i].n /\ r[i].n <= high + 1
             /\ \A j \in 1 .. i - 1 : r[j].n < r[i].n
  <2>1. CASE i \in 1 .. Len(q)
    <3>1. r[i] = q[i] /\ \A j \in 1 .. i - 1 : r[j] = q[j]
      BY <1>1, <2>1 DEF r
    <3>2. /\ low < q[i].n /\ q[i].n <= high
          /\ \A j \in 1 .. i - 1 : q[j].n < q[i].n
      BY <2>1 DEF InOrder
    <3>3. q[i] \in Message
      BY <2>1 DEF InOrder
    <3>4. q[i].n \in Nat
      BY <3>3 DEF Message
    <3>5. low < r[i].n /\ r[i].n <= high + 1
      BY <3>1, <3>2, <3>4
    <3>6. ASSUME NEW j \in 1 .. i - 1 PROVE r[j].n < r[i].n
      BY <3>1, <3>2
    <3> QED BY <3>5, <3>6
  <2>2. CASE i = Len(q) + 1
    <3>1. r[i].n = high + 1 /\ \A j \in 1 .. i - 1 : r[j] = q[j] /\ j \in 1 .. Len(q)
      BY <1>1, <2>2 DEF r
    <3>2. \A j \in 1 .. Len(q) : q[j] \in Message /\ q[j].n <= high
      BY DEF InOrder
    <3>3. \A j \in 1 .. Len(q) : q[j].n \in Nat /\ q[j].n <= high
      BY <3>2 DEF Message
    <3> QED BY <3>1, <3>3
  <2> QED BY <1>1, <2>1, <2>2 DEF r
<1> QED BY <1>1, <1>2 DEF InOrder, r

LEMMA TailInOrder ==
  ASSUME NEW high \in Nat, NEW low \in Nat, NEW q, InOrder(q, low, high), q # <<>>
  PROVE  /\ Head(q) \in Message /\ Head(q).n \in low + 1 .. high
         /\ InOrder(Tail(q), Head(q).n, high) /\ InOrder(Tail(q), low, high)
<1>1. /\ q \in Seq(Message) /\ Len(q) \in Nat \ {0} /\ Tail(q) \in Seq(Message)
      /\ Len(Tail(q)) = Len(q) - 1 /\ Head(q) = q[1]
      /\ \A i \in 1 .. Len(q) - 1 : Tail(q)[i] = q[i + 1]
  BY DEF InOrder
<1>2. \A i \in 1 .. Len(q) : q[i] \in Message
  BY <1>1
<1>3. \A i \in 1 .. Len(q) : q[i].n \in Nat /\ low < q[i].n /\ q[i].n <= high
  BY <1>2 DEF InOrder, Message
<1>4. \A i \in 1 .. Len(q) : \A j \in 1 .. i - 1 : q[j].n < q[i].n
  BY DEF InOrder
<1> DEFINE t == Tail(q)
<1> HIDE DEF t
<1>5. \A i \in 1 .. Len(t) : i + 1 \in 1 .. Len(q) /\ t[i] = q[i + 1] /\ 1 \in 1 .. i + 1 - 1
  BY <1>1 DEF t
<1>6. \A i \in 1 .. Len(t) : /\ q[1].n < t[i].n /\ low < t[i].n /\ t[i].n <= high
  <2> SUFFICES ASSUME NEW i \in 1 .. Len(t)
               PROVE  q[1].n < t[i].n /\ low < t[i].n /\ t[i].n <= high
    OBVIOUS
  <2>1. i + 1 \in 1 .. Len(q) /\ t[i] = q[i + 1] /\ 1 \in 1 .. i + 1 - 1
    BY <1>5
  <2>2. q[1].n < q[i + 1].n
    BY <1>4, <2>1
  <2>3. low < q[i + 1].n /\ q[i + 1].n <= high
    BY <1>3, <2>1
  <2> QED BY <2>1, <2>2, <2>3
<1>7. \A i \in 1 .. Len(t) : \A j \in 1 .. i - 1 : t[j].n < t[i].n
  <2> SUFFICES ASSUME NEW i \in 1 .. Len(t), NEW j \in 1 .. i - 1 PROVE t[j].n < t[i].n
    OBVIOUS
  <2>1. j \in 1 .. Len(t) /\ j + 1 \in 1 .. i + 1 - 1
    BY <1>1 DEF t
  <2>2. q[j + 1].n < q[i + 1].n
    BY <1>4, <1>5, <2>1
  <2> QED BY <1>5, <2>1, <2>2
<1> QED BY <1>1, <1>2, <1>3, <1>6, <1>7 DEF InOrder, t

-----------------------------------------------------------------------------
(* The account: every message in the inbox is newer than the one before    *)
(* it, than the update being applied and than the balance in force, so the *)
(* balance only grows, and a call in progress cannot be overtaken.         *)
SnapInv ==
  /\ published \in Nat /\ applying \in 0 .. published
  /\ snapshot \in [stamp : Nat, cash : Nat]
  /\ snapshot.stamp <= published /\ snapshot.cash <= published
  /\ InOrder(inbox, snapshot.cash, published) /\ InOrder(inbox, applying, published)
  /\ pf = "apply" => snapshot.cash < applying

ViewInv ==
  /\ view \in [step : {"none", "stamped", "read"}, stamp : Nat, cash : Nat, inForce : Nat]
  /\ view.step # "none" => view.inForce <= snapshot.cash
  /\ view.step = "read" => view.inForce <= view.cash

LEMMA AccountInit == Init => FlagsInv /\ SnapInv /\ ViewInv
<1>1. Init => FlagsInv
  BY DEF Init, WorkerInit, PfInit, FlagsInv
<1>2. Init => SnapInv
  BY EmptyInOrder DEF Init, PfInit, SnapInv, Opening
<1>3. Init => ViewInv
  BY DEF Init, ViewInv, NoView
<1> QED BY <1>1, <1>2, <1>3

LEMMA FlagsNext == FlagsInv /\ [Next]_vars => FlagsInv'
<1> SUFFICES ASSUME FlagsInv, [Next]_vars PROVE FlagsInv'
  OBVIOUS
<1> USE DEF FlagsInv
<1>1. CASE (Publish \/ MaybeStart \/ Reader) /\ UNCHANGED <<workerVars, pfVars, view>>
  BY <1>1 DEF workerVars, pfVars
<1>2. CASE ((pfOn /\ PublishUpdate) \/ PfMaybeStart \/ Subscriber)
             /\ UNCHANGED <<workerVars, mdVars, view>>
  BY <1>2 DEF workerVars, PublishUpdate, PfMaybeStart, Subscriber, PfSeesStop, Subscribe,
     ReadAgain, GetMessage, GetNothing, ApplyStamp, ApplyCash, PfFails, PfReconnects
<1>3. CASE ReadStamp \/ ReadCash \/ StrategyEnds
  BY <1>3 DEF ReadStamp, ReadCash, StrategyEnds, workerVars, pfVars
<1>4. CASE StopStep
  BY <1>4 DEF StopStep, StopBegins, StopSetsMarketData, StopJoinsMarketData,
     StopSetsPortfolio, StopJoinsPortfolio, StopLeavesRunning, pfVars
<1>5. CASE Crash
  BY <1>5 DEF Crash, workerVars
<1>6. CASE UNCHANGED vars
  BY <1>6 DEF vars, workerVars, pfVars
<1> QED BY <1>1, <1>2, <1>3, <1>4, <1>5, <1>6 DEF Next

(* A step of the subscriber keeps the order, and the balance does not      *)
(* shrink.                                                                 *)
LEMMA SnapSubscriber ==
  ASSUME SnapInv, PublishUpdate \/ PfMaybeStart \/ Subscriber
  PROVE  SnapInv' /\ snapshot.cash <= snapshot'.cash
<1>0. snapshot.cash \in Nat /\ snapshot.stamp \in Nat
  BY DEF SnapInv
<1>1. CASE PublishUpdate
  <2>1. /\ published' = published + 1 /\ UNCHANGED <<snapshot, applying, pf>>
    BY <1>1 DEF PublishUpdate
  <2>2. PICK kind \in Kinds : inbox' = inbox
                              \/ inbox' = Append(inbox, [n |-> published', kind |-> kind])
    BY <1>1, Zenon DEF PublishUpdate
  <2> DEFINE m == [n |-> published', kind |-> kind]
  <2>3. m \in Message /\ m.n = published + 1
    BY <2>1 DEF SnapInv, Message
  <2> HIDE DEF m
  <2>4. ASSUME NEW low \in 0 .. published, InOrder(inbox, low, published)
        PROVE  InOrder(inbox', low, published')
    <3>1. CASE inbox' = inbox
      <4>1. \A i \in 1 .. Len(inbox) : inbox[i] \in Message
        BY <2>4 DEF InOrder
      <4>2. \A i \in 1 .. Len(inbox) : inbox[i].n \in Nat
        BY <4>1 DEF Message
      <4> QED BY <2>1, <2>4, <3>1, <4>2 DEF InOrder, SnapInv
    <3>2. CASE inbox' = Append(inbox, m)
      BY <2>1, <2>3, <2>4, <3>2, AppendInOrder DEF SnapInv
    <3> QED BY <2>2, <3>1, <3>2 DEF m
  <2>5. InOrder(inbox', snapshot.cash, published') /\ InOrder(inbox', applying, published')
    BY <1>0, <2>4 DEF SnapInv
  <2> QED BY <1>0, <2>1, <2>5 DEF SnapInv
<1>2. CASE PfMaybeStart \/ Subscribe \/ ReadAgain \/ GetNothing \/ PfReconnects
  BY <1>0, <1>2 DEF PfMaybeStart, Subscribe, ReadAgain, GetNothing, PfReconnects, SnapInv
<1>3. CASE PfSeesStop \/ PfFails
  <2>1. /\ inbox' = <<>> /\ UNCHANGED <<published, snapshot, applying>> /\ pf' # "apply"
    BY <1>3 DEF PfSeesStop, PfFails
  <2> QED BY <1>0, <2>1, EmptyInOrder DEF SnapInv
<1>4. CASE GetMessage
  <2>1. /\ inbox # <<>> /\ inbox' = Tail(inbox) /\ UNCHANGED <<published, snapshot>>
        /\ \/ pf' # "apply" /\ applying' = applying
           \/ pf' = "apply" /\ applying' = Head(inbox).n
    BY <1>4 DEF GetMessage
  <2>2. /\ Head(inbox).n \in snapshot.cash + 1 .. published
        /\ InOrder(inbox', Head(inbox).n, published)
        /\ InOrder(inbox', snapshot.cash, published)
        /\ InOrder(inbox', applying, published)
    BY <1>0, <2>1, TailInOrder DEF SnapInv
  <2> QED BY <1>0, <2>1, <2>2 DEF SnapInv
<1>5. CASE ApplyStamp
  <2>1. /\ snapshot' = [snapshot EXCEPT !.stamp = applying]
        /\ UNCHANGED <<pf, inbox, published, applying>>
    BY <1>5 DEF ApplyStamp
  <2>2. /\ snapshot' \in [stamp : Nat, cash : Nat]
        /\ snapshot'.cash = snapshot.cash /\ snapshot'.stamp = applying
    BY <2>1 DEF SnapInv
  <2> QED BY <1>0, <2>1, <2>2 DEF SnapInv
<1>6. CASE ApplyCash
  <2>1. /\ snapshot' = [snapshot EXCEPT !.cash = applying] /\ pf = "apply" /\ pf' = "loop"
        /\ UNCHANGED <<inbox, published>> /\ applying' = 0
    BY <1>6 DEF ApplyCash
  <2>2. /\ snapshot' \in [stamp : Nat, cash : Nat]
        /\ snapshot'.cash = applying /\ snapshot'.stamp = snapshot.stamp
    BY <2>1 DEF SnapInv
  <2>3. InOrder(inbox, 0, published)
    <3>1. \A i \in 1 .. Len(inbox) : inbox[i] \in Message
      BY DEF SnapInv, InOrder
    <3>2. \A i \in 1 .. Len(inbox) : inbox[i].n \in Nat
      BY <3>1 DEF Message
    <3> QED BY <3>2, <1>0 DEF SnapInv, InOrder
  <2> QED BY <1>0, <2>1, <2>2, <2>3 DEF SnapInv
<1> QED BY <1>1, <1>2, <1>3, <1>4, <1>5, <1>6 DEF Subscriber

LEMMA AccountNext == SnapInv /\ ViewInv /\ [Next]_vars => (SnapInv /\ ViewInv)'
<1> SUFFICES ASSUME SnapInv, ViewInv, [Next]_vars PROVE SnapInv' /\ ViewInv'
  OBVIOUS
<1>0. snapshot.cash \in Nat /\ snapshot.stamp \in Nat
  BY DEF SnapInv
<1>1. UNCHANGED pfVars => SnapInv' /\ snapshot' = snapshot
  BY DEF pfVars, SnapInv
<1>2. UNCHANGED <<snapshot, view>> => ViewInv'
  BY DEF ViewInv
<1>3. CASE (Publish \/ MaybeStart \/ Reader) /\ UNCHANGED <<workerVars, pfVars, view>>
  BY <1>1, <1>2, <1>3
<1>4. CASE ((pfOn /\ PublishUpdate) \/ PfMaybeStart \/ Subscriber)
             /\ UNCHANGED <<workerVars, mdVars, view>>
  <2>1. SnapInv' /\ snapshot.cash <= snapshot'.cash /\ view' = view
    BY <1>4, SnapSubscriber
  <2>2. snapshot'.cash \in Nat
    BY <2>1 DEF SnapInv
  <2>3. view.inForce \in Nat
    BY DEF ViewInv
  <2> QED BY <1>0, <2>1, <2>2, <2>3 DEF ViewInv
<1>5. CASE ReadStamp
  <2>1. /\ view' = [step |-> "stamped", stamp |-> snapshot.stamp, cash |-> 0,
                    inForce |-> snapshot.cash]
        /\ UNCHANGED pfVars
    BY <1>5 DEF ReadStamp
  <2>2. /\ view' \in [step : {"none", "stamped", "read"}, stamp : Nat, cash : Nat, inForce : Nat]
        /\ view'.step = "stamped" /\ view'.inForce = snapshot.cash
    BY <1>0, <2>1
  <2> QED BY <1>0, <1>1, <2>1, <2>2 DEF ViewInv
<1>6. CASE ReadCash
  <2>1. /\ view.step = "stamped" /\ view' = [view EXCEPT !.step = "read", !.cash = snapshot.cash]
        /\ UNCHANGED pfVars
    BY <1>6 DEF ReadCash
  <2>2. ASSUME NEW c \in Nat
        PROVE  /\ [view EXCEPT !.step = "read", !.cash = c] \in
                     [step : {"none", "stamped", "read"}, stamp : Nat, cash : Nat, inForce : Nat]
               /\ [view EXCEPT !.step = "read", !.cash = c].step = "read"
               /\ [view EXCEPT !.step = "read", !.cash = c].cash = c
               /\ [view EXCEPT !.step = "read", !.cash = c].inForce = view.inForce
    BY DEF ViewInv
  <2>3. /\ view' \in [step : {"none", "stamped", "read"}, stamp : Nat, cash : Nat, inForce : Nat]
        /\ view'.step = "read" /\ view'.cash = snapshot.cash /\ view'.inForce = view.inForce
    BY <1>0, <2>1, <2>2
  <2> QED BY <1>1, <2>1, <2>3 DEF ViewInv
<1>7. CASE StrategyEnds
  BY <1>1, <1>7 DEF StrategyEnds, ViewInv, NoView
<1>8. CASE StopStep
  BY <1>1, <1>2, <1>8 DEF StopStep
<1>9. CASE Crash
  <2>1. /\ pf' = "off" /\ inbox' = <<>> /\ snapshot' = Opening /\ applying' = 0
        /\ published' = published /\ view' = NoView
    BY <1>9 DEF Crash
  <2>2. SnapInv'
    BY <2>1, EmptyInOrder DEF SnapInv, Opening
  <2>3. ViewInv'
    BY <2>1 DEF ViewInv, NoView
  <2> QED BY <2>2, <2>3
<1>10. CASE UNCHANGED vars
  BY <1>1, <1>2, <1>10 DEF vars
<1> QED BY <1>3, <1>4, <1>5, <1>6, <1>7, <1>8, <1>9, <1>10 DEF Next

(* Pub/Sub and the subscriber keep the updates in order, so the balance    *)
(* account.portfolio() returns is not older than the one in force when the *)
(* strategy asked, although the snapshot object is read while the          *)
(* subscriber writes it.                                                   *)
THEOREM AccountIsNotOlder == Spec => []ViewNotOlderThanCall
<1>1. ViewInv => ViewNotOlderThanCall
  BY DEF ViewInv, ViewNotOlderThanCall
<1> QED BY AccountInit, AccountNext, <1>1, PTL DEF Spec

-----------------------------------------------------------------------------
(* The market data reader.                                                 *)
Ids1 == Nat \ {0}          \* ids of entries, from 1

InHand   == {"field", "strategy", "ack"}
Handling == InHand \cup {"batch"}
Joined   == {"loop", "read", "backoff"} \cup Handling
Places   == {"off", "none", "open", "ended", "dead"} \cup Joined

(* The last entry of a stream that has been dealt with in a response.      *)
Done(k) == IF md \in InHand /\ k = key THEN mark[k] - 1 ELSE mark[k]

MdTypes ==
  /\ config \in Configs /\ streams \in [Keys -> Seq(Shapes)]
  /\ glast \in [Keys -> Int] /\ born \in [Keys -> Int]
  /\ pos \in [Keys -> Int] /\ base \in [Keys -> Int]
  /\ mark \in [Keys -> Nat] /\ upto \in [Keys -> Nat]
  /\ pel \in [Keys -> SUBSET Ids1] /\ before \in [Keys -> SUBSET Ids1]
  /\ handled \in [Keys -> Seq(Ids1)]
  /\ md \in Places /\ key \in Keys \cup {NoKey}

(* Where a reader may be in a stream; and it holds an entry only of a      *)
(* stream it subscribed to.                                                *)
BoundsAt(k) ==
  /\ glast[k] \in -1 .. Len(streams[k]) /\ pos[k] \in -1 .. Len(streams[k])
  /\ mark[k] <= Len(streams[k]) /\ pel[k] \subseteq 1 .. glast[k]
  /\ config.group /\ k \in Subscribed /\ md \in Joined => glast[k] >= 0
  /\ config.group /\ k \in Subscribed =>
       /\ md = "read" => mark[k] = glast[k]
       /\ md \in Handling => upto[k] = glast[k]
  /\ md \in Handling => mark[k] <= upto[k] /\ upto[k] <= Len(streams[k])
  /\ k \notin Subscribed =>
       handled[k] = <<>> /\ (md \in Handling => mark[k] = upto[k])

ReadInv ==
  /\ MdTypes
  /\ \A k \in Keys : BoundsAt(k)
  /\ md \in InHand => key \in Keys /\ key \in Subscribed /\ mark[key] >= 1

LEMMA ConfigFacts ==
  ASSUME config \in Configs
  PROVE  /\ Subscribed \subseteq Keys /\ config.start \in {Latest, 0}
         /\ config.group \in BOOLEAN
<1>1. /\ config.start \in {Latest, 0} /\ config.group \in BOOLEAN /\ config.parts = Parts
      /\ config.symbol \in Symbols \cup {""}
  BY ConfigsAssumption
<1>2. CASE config.symbol = ""
  BY <1>1, <1>2 DEF Subscribed
<1>3. CASE config.symbol # ""
  <2>1. Crc[config.symbol] \in Nat /\ Parts \in Nat \ {0}
    BY <1>1, <1>3, MarketAssumption
  <2>2. Crc[config.symbol] % Parts \in 0 .. Parts - 1
    BY <2>1
  <2>3. Subscribed \subseteq Feeds \X {Crc[config.symbol] % Parts}
    BY <1>1, <1>3 DEF Subscribed, expand_market_data_stream_keys, resolve_stream_names,
       partitions_for_realtime_subscribe, market_data_partition
  <2> QED BY <1>1, <2>2, <2>3 DEF Keys
<1> QED BY <1>2, <1>3

LEMMA AppendFacts ==
  ASSUME NEW s \in Seq(Ids1), NEW x \in Ids1
  PROVE  /\ Append(s, x) \in Seq(Ids1) /\ Len(Append(s, x)) = Len(s) + 1 /\ Len(s) \in Nat
         /\ \A i \in 1 .. Len(s) : Append(s, x)[i] = s[i]
         /\ Append(s, x)[Len(s) + 1] = x
         /\ Range(Append(s, x)) = Range(s) \cup {x} /\ Range(s) \subseteq Ids1
         /\ IsInjective(s) /\ x \notin Range(s) => IsInjective(Append(s, x))
<1>1. /\ Append(s, x) \in Seq(Ids1) /\ Len(Append(s, x)) = Len(s) + 1 /\ Len(s) \in Nat
      /\ \A i \in 1 .. Len(s) : Append(s, x)[i] = s[i]
      /\ Append(s, x)[Len(s) + 1] = x
      /\ DOMAIN s = 1 .. Len(s) /\ DOMAIN Append(s, x) = 1 .. Len(s) + 1
  OBVIOUS
<1> DEFINE t == Append(s, x)
<1> HIDE DEF t
<1>2. \A i \in 1 .. Len(s) + 1 : i \in 1 .. Len(s) \/ i = Len(s) + 1
  BY <1>1
<1>3. Range(t) = Range(s) \cup {x}
  BY <1>1, <1>2 DEF Range, t
<1>4. IsInjective(s) /\ x \notin Range(s) => IsInjective(t)
  BY <1>1, <1>2 DEF Range, IsInjective, t
<1>5. Range(s) \subseteq Ids1
  BY <1>1 DEF Range
<1> QED BY <1>1, <1>3, <1>4, <1>5 DEF t

LEMMA SmallerOf ==
  ASSUME NEW a \in Int, NEW b \in Int
  PROVE  Min({a, b}) = IF a <= b THEN a ELSE b
<1>1. CASE a <= b
  <2>1. a \in {a, b} /\ \A y \in {a, b} : a <= y
    BY <1>1
  <2>2. \A x \in {a, b} : (\A y \in {a, b} : x <= y) => x = a
    BY <1>1
  <2> QED BY <1>1, <2>1, <2>2 DEF Min
<1>2. CASE ~(a <= b)
  <2>1. b \in {a, b} /\ \A y \in {a, b} : b <= y
    BY <1>2
  <2>2. \A x \in {a, b} : (\A y \in {a, b} : x <= y) => x = b
    BY <1>2
  <2> QED BY <1>2, <2>1, <2>2 DEF Min
<1> QED BY <1>1, <1>2

-----------------------------------------------------------------------------
(* What the steps of the reader do to one stream.                          *)
LEMMA LengthAt ==
  ASSUME MdTypes, NEW k \in Keys
  PROVE  /\ streams[k] \in Seq(Shapes) /\ Len(streams[k]) \in Nat
         /\ handled[k] \in Seq(Ids1) /\ Len(handled[k]) \in Nat
<1>1. streams[k] \in Seq(Shapes) /\ handled[k] \in Seq(Ids1)
  BY DEF MdTypes
<1> QED BY <1>1

LEMMA PublishAt ==
  ASSUME MdTypes, Publish
  PROVE  /\ streams' \in [Keys -> Seq(Shapes)]
         /\ \A k \in Keys : Len(streams[k]) \in Nat /\ Len(streams[k]) <= Len(streams'[k])
<1>1. PICK f \in Feeds, s \in Symbols, e \in Shapes :
        streams' = [streams EXCEPT ![<<f, market_data_partition(s, Parts)>>] = Append(@, e)]
  BY DEF Publish
<1> DEFINE k == <<f, market_data_partition(s, Parts)>>
<1>2. k \in Keys
  <2>1. Crc[s] \in Nat /\ Parts \in Nat \ {0}
    BY MarketAssumption
  <2>2. Crc[s] % Parts \in 0 .. Parts - 1
    BY <2>1
  <2> QED BY <2>2 DEF Keys, market_data_partition
<1> HIDE DEF k
<1>3. streams[k] \in Seq(Shapes)
  BY <1>2 DEF MdTypes
<1>4. Append(streams[k], e) \in Seq(Shapes) /\ Len(Append(streams[k], e)) = Len(streams[k]) + 1
  BY <1>3
<1>5. streams' = [streams EXCEPT ![k] = Append(streams[k], e)]
  BY <1>1 DEF k
<1>6. streams' \in [Keys -> Seq(Shapes)]
  BY <1>2, <1>4, <1>5 DEF MdTypes
<1>7. ASSUME NEW l \in Keys
      PROVE  Len(streams[l]) \in Nat /\ Len(streams[l]) <= Len(streams'[l])
  <2>1. streams[l] \in Seq(Shapes)
    BY DEF MdTypes
  <2>2. Len(streams[l]) \in Nat
    BY <2>1
  <2>3. streams'[l] = IF l = k THEN Append(streams[k], e) ELSE streams[l]
    BY <1>5 DEF MdTypes
  <2> QED BY <1>4, <2>2, <2>3
<1> QED BY <1>6, <1>7

LEMMA EnsuredAt ==
  ASSUME MdTypes, ensure_consumer_groups
  PROVE  /\ glast' \in [Keys -> Int] /\ born' \in [Keys -> Int]
         /\ \A k \in Keys :
              /\ glast'[k] = IF config.group /\ k \in Subscribed /\ glast[k] < 0
                             THEN Len(streams[k]) ELSE glast[k]
              /\ born'[k] = IF born[k] < 0 THEN glast'[k] ELSE born[k]
<1>1. \A k \in Keys : Len(streams[k]) \in Int
  BY DEF MdTypes
<1>2. glast' = [k \in Keys |-> IF config.group /\ k \in Subscribed /\ glast[k] < 0
                               THEN Len(streams[k]) ELSE glast[k]]
  BY DEF ensure_consumer_groups
<1>3. glast' \in [Keys -> Int]
  BY <1>1, <1>2 DEF MdTypes
<1>4. born' = [k \in Keys |-> IF born[k] < 0 THEN glast'[k] ELSE born[k]]
  BY DEF ensure_consumer_groups
<1>5. born' \in [Keys -> Int]
  BY <1>3, <1>4 DEF MdTypes
<1> QED BY <1>2, <1>3, <1>4, <1>5

LEMMA ReadBeginsAt ==
  ASSUME ReadInv, ReadBegins
  PROVE  /\ \A k \in Keys : mark'[k] = IF k \in Subscribed THEN ReadAfter(k) ELSE 0
         /\ mark' \in [Keys -> Int]
         /\ base' = base \/ (base = Unset /\ base' = mark')
<1>1. mark' = [k \in Keys |-> IF k \in Subscribed THEN ReadAfter(k) ELSE 0]
  BY DEF ReadBegins
<1>2. \A k \in Keys : ReadAfter(k) \in Int
  BY DEF ReadAfter, ReadInv, MdTypes
<1>3. base' = base \/ (base = Unset /\ base' = mark')
  BY DEF ReadBegins
<1> QED BY <1>1, <1>2, <1>3

(* What an answer holds, and what it does to the group: nothing without    *)
(* one, else the group moves to the end of the answer.                     *)
LEMMA AnswerAt ==
  ASSUME ReadInv, NEW k \in Keys
  PROVE  /\ Answer(k) \in Nat /\ mark[k] <= Answer(k) /\ Answer(k) <= Len(streams[k])
         /\ ~New(k) => Answer(k) = mark[k]
         /\ k \notin Subscribed => ~New(k)
<1>1. /\ Len(streams[k]) \in Nat /\ mark[k] \in Nat /\ mark[k] <= Len(streams[k])
      /\ mark[k] + Count \in Nat /\ mark[k] <= mark[k] + Count
  <2>1. Count \in Nat
    BY MarketAssumption
  <2>2. mark[k] \in Nat
    BY DEF ReadInv, MdTypes
  <2>3. Len(streams[k]) \in Nat
    BY LengthAt DEF ReadInv
  <2>4. mark[k] <= Len(streams[k])
    BY DEF ReadInv, BoundsAt
  <2> QED BY <2>1, <2>2, <2>3, <2>4
<1>2. Min({Len(streams[k]), mark[k] + Count}) =
        IF Len(streams[k]) <= mark[k] + Count THEN Len(streams[k]) ELSE mark[k] + Count
  BY <1>1, SmallerOf
<1>3. k \notin Subscribed => ~New(k)
  BY DEF New
<1> QED BY <1>1, <1>2, <1>3 DEF Answer

LEMMA DeliversAt ==
  ASSUME ReadInv, md = "read", Delivers
  PROVE  /\ glast' \in [Keys -> Int] /\ pel' \in [Keys -> SUBSET Ids1]
         /\ \A k \in Keys :
              /\ config.group =>
                   /\ glast'[k] = IF New(k) THEN Answer(k) ELSE glast[k]
                   /\ pel'[k] = pel[k] \cup (mark[k] + 1 .. Answer(k))
              /\ config.group /\ k \in Subscribed => glast'[k] = Answer(k)
              /\ glast'[k] \in glast[k] .. Len(streams[k])
              /\ pel'[k] \subseteq 1 .. glast'[k]
<1>1. ASSUME NEW k \in Keys
      PROVE  /\ Len(streams[k]) \in Nat /\ mark[k] \in Nat /\ glast[k] \in Int
             /\ glast[k] <= Len(streams[k]) /\ pel[k] \subseteq 1 .. glast[k]
             /\ (config.group /\ k \in Subscribed => mark[k] = glast[k])
  <2>1. MdTypes /\ BoundsAt(k)
    BY DEF ReadInv
  <2>2. Len(streams[k]) \in Nat /\ mark[k] \in Nat /\ glast[k] \in Int
    BY <2>1, LengthAt DEF MdTypes
  <2> QED BY <2>1, <2>2 DEF BoundsAt
<1>2. CASE config.group
  <2>1. /\ glast' = [k \in Keys |-> IF New(k) THEN Answer(k) ELSE glast[k]]
        /\ pel' = [k \in Keys |-> pel[k] \cup (mark[k] + 1 .. Answer(k))]
    BY <1>2 DEF Delivers
  <2>2. ASSUME NEW k \in Keys
        PROVE  /\ glast'[k] = IF New(k) THEN Answer(k) ELSE glast[k]
               /\ pel'[k] = pel[k] \cup (mark[k] + 1 .. Answer(k))
               /\ k \in Subscribed => glast'[k] = Answer(k)
               /\ glast'[k] \in glast[k] .. Len(streams[k])
               /\ pel'[k] \subseteq 1 .. glast'[k]
    <3>1. /\ glast'[k] = IF New(k) THEN Answer(k) ELSE glast[k]
          /\ pel'[k] = pel[k] \cup (mark[k] + 1 .. Answer(k))
      BY <2>1
    <3> QED BY <1>1, <1>2, <3>1, AnswerAt
  <2>3. \A k \in Keys : glast'[k] \in Int /\ pel'[k] \in SUBSET Ids1
    <3> SUFFICES ASSUME NEW k \in Keys PROVE glast'[k] \in Int /\ pel'[k] \in SUBSET Ids1
      OBVIOUS
    <3>1. glast'[k] \in Int
      BY <1>1, <2>2
    <3> QED BY <2>2, <3>1 DEF Ids1
  <2> QED BY <2>1, <2>2, <2>3
<1>3. CASE ~config.group
  <2>1. UNCHANGED <<glast, pel>>
    BY <1>3 DEF Delivers
  <2>2. glast' \in [Keys -> Int] /\ pel' \in [Keys -> SUBSET Ids1]
    BY <2>1 DEF ReadInv, MdTypes
  <2>3. \A k \in Keys : /\ glast'[k] \in glast[k] .. Len(streams[k])
                        /\ pel'[k] \subseteq 1 .. glast'[k]
    BY <1>1, <2>1
  <2> QED BY <1>3, <2>2, <2>3
<1> QED BY <1>2, <1>3

LEMMA ReadReturnsAt ==
  ASSUME ReadInv, ReadReturns
  PROVE  Delivers /\ upto' \in [Keys -> Nat] /\ \A k \in Keys : upto'[k] = Answer(k)
<1>1. Delivers /\ upto' = [k \in Keys |-> Answer(k)]
  BY Zenon DEF ReadReturns
<1> QED BY <1>1, AnswerAt

LEMMA TakeEntryAt ==
  ASSUME ReadInv, TakeEntry
  PROVE  \E k \in Keys :
           /\ mark[k] < upto[k] /\ key' = k /\ k \in Subscribed
           /\ mark' = [mark EXCEPT ![k] = mark[k] + 1] /\ md' \in {"field", "ack"}
           /\ md = "batch"
           /\ UNCHANGED <<config, streams, glast, pel, born, pos, upto, base, handled, before>>
<1>0. PICK k \in Keys : /\ mark[k] < upto[k] /\ key' = k
                       /\ mark' = [mark EXCEPT ![k] = @ + 1]
                       /\ md' = IF todo' = <<>> THEN "ack" ELSE "field"
  BY Zenon DEF TakeEntry
<1>1. /\ mark[k] < upto[k] /\ key' = k /\ md' \in {"field", "ack"}
      /\ mark' = [mark EXCEPT ![k] = mark[k] + 1]
  BY <1>0
<1>2. md = "batch" /\ UNCHANGED <<config, streams, glast, pel, born, pos, upto, base, handled, before>>
  BY DEF TakeEntry, redisVars
<1>3. k \in Subscribed
  BY <1>1, <1>2 DEF ReadInv, BoundsAt, MdTypes, Handling
<1> QED BY <1>1, <1>2, <1>3

LEMMA EntryDoneAt ==
  ASSUME ReadInv, EntryDone
  PROVE  /\ handled' = [handled EXCEPT ![key] = Append(handled[key], mark[key])]
         /\ pel' = IF config.group THEN [pel EXCEPT ![key] = pel[key] \ {mark[key]}] ELSE pel
         /\ pos' = IF mark[key] = upto[key] /\ ~config.group
                   THEN [pos EXCEPT ![key] = upto[key]] ELSE pos
         /\ key' \in {key, NoKey} /\ md' \in {"loop", "batch"} /\ md = "ack"
         /\ md' = "loop" => \A k \in Keys : mark[k] = upto[k]
         /\ UNCHANGED <<config, streams, glast, born, mark, upto, base, before>>
  BY DEF EntryDone

-----------------------------------------------------------------------------
(* A step that only moves the reader, and no nearer to an entry.           *)
LEMMA ReadMoved ==
  ASSUME ReadInv,
         UNCHANGED <<config, streams, glast, pel, born, pos, mark, upto, base, handled, before>>,
         md' \in Places, key' \in Keys \cup {NoKey},
         md' \in Joined \ {"read"} => md \in Joined, md' # "read", md' \in Handling => md \in Handling,
         md' \in InHand => md \in InHand /\ key' = key
  PROVE  ReadInv'
<1>1. Subscribed' = Subscribed
  BY DEF Subscribed, expand_market_data_stream_keys, resolve_stream_names
<1>2. MdTypes'
  BY DEF ReadInv, MdTypes
<1>3. ASSUME NEW k \in Keys PROVE BoundsAt(k)'
  BY <1>1 DEF ReadInv, BoundsAt
<1> QED BY <1>1, <1>2, <1>3 DEF ReadInv

LEMMA ReadReader ==
  ASSUME ReadInv, Publish \/ MaybeStart \/ Reader \/ StrategyReturns
  PROVE  ReadInv'
<1>1. /\ config \in Configs /\ config' = config /\ Subscribed' = Subscribed
      /\ Subscribed \subseteq Keys /\ config.start \in {Latest, 0}
  <2>1. config' = config
    BY DEF Publish, MaybeStart, Reader, StrategyReturns, OpenClient, OpenFails,
       ReaderSeesStop, ReadBegins, ReadReturns, ReadTimesOut, ReadFails, Reconnects,
       TakeEntry, process_one_stream_field, EntryDone, AckFails
  <2> QED BY <2>1, ConfigFacts
         DEF ReadInv, MdTypes, Subscribed, expand_market_data_stream_keys,
             resolve_stream_names
<1>2. CASE Publish
  <2>1. /\ UNCHANGED <<glast, pel, born, md, pos, mark, upto, key, base, handled, before>>
    BY <1>2 DEF Publish, readerVars
  <2>2. /\ streams' \in [Keys -> Seq(Shapes)]
        /\ \A k \in Keys : Len(streams[k]) \in Nat /\ Len(streams'[k]) \in Nat
                           /\ Len(streams[k]) <= Len(streams'[k])
    BY <1>2, PublishAt DEF ReadInv
  <2>3. MdTypes'
    BY <1>1, <2>1, <2>2 DEF ReadInv, MdTypes
  <2>4. ASSUME NEW k \in Keys PROVE BoundsAt(k)'
    <3>1. /\ BoundsAt(k) /\ glast[k] \in Int /\ pos[k] \in Int /\ mark[k] \in Nat
          /\ upto[k] \in Nat /\ Len(streams[k]) \in Nat /\ Len(streams'[k]) \in Nat
          /\ Len(streams[k]) <= Len(streams'[k])
      BY <2>2 DEF ReadInv, MdTypes
    <3>2. /\ glast[k] \in -1 .. Len(streams'[k]) /\ pos[k] \in -1 .. Len(streams'[k])
          /\ mark[k] <= Len(streams'[k]) /\ (md \in Handling => upto[k] <= Len(streams'[k]))
      BY <3>1 DEF BoundsAt
    <3> QED BY <1>1, <2>1, <3>1, <3>2 DEF BoundsAt
  <2> QED BY <1>1, <2>1, <2>3, <2>4 DEF ReadInv
<1>3. CASE MaybeStart
  <2>1. /\ pos' = [k \in Keys |-> config.start] /\ md' \in {"none", "open"}
        /\ UNCHANGED <<streams, glast, pel, born, mark, upto, key, base, handled, before>>
    BY <1>3 DEF MaybeStart, redisVars
  <2>2. MdTypes'
    BY <1>1, <2>1 DEF ReadInv, MdTypes, Places, Latest
  <2>3. ASSUME NEW k \in Keys PROVE BoundsAt(k)'
    <3>1. pos'[k] \in {-1, 0} /\ Len(streams[k]) \in Nat
      BY <1>1, <2>1, LengthAt DEF Latest, ReadInv
    <3> QED BY <1>1, <2>1, <3>1 DEF ReadInv, BoundsAt, Joined, Handling, InHand
  <2> QED BY <1>1, <2>1, <2>2, <2>3 DEF ReadInv, InHand
<1>4. CASE OpenClient \/ Reconnects
  <2>1. /\ ensure_consumer_groups /\ md' = "loop"
        /\ UNCHANGED <<streams, pel, pos, mark, upto, key, base, handled, before>>
    BY <1>4 DEF OpenClient, Reconnects
  <2>2. MdTypes'
    BY <1>1, <2>1, EnsuredAt DEF ReadInv, MdTypes, Places, Joined, Handling, InHand
  <2>3. ASSUME NEW k \in Keys PROVE BoundsAt(k)'
    <3>1. /\ glast'[k] = IF config.group /\ k \in Subscribed /\ glast[k] < 0
                         THEN Len(streams[k]) ELSE glast[k]
          /\ Len(streams[k]) \in Nat
      BY <2>1, EnsuredAt, LengthAt DEF ReadInv
    <3>2. glast[k] \in Int /\ glast[k] <= Len(streams[k]) /\ pel[k] \subseteq 1 .. glast[k]
      BY DEF ReadInv, MdTypes, BoundsAt
    <3>3. glast[k] <= glast'[k] /\ glast'[k] <= Len(streams[k]) /\ glast'[k] \in Int
      BY <3>1, <3>2
    <3>4. pel'[k] \subseteq 1 .. glast'[k]
      BY <2>1, <3>2, <3>3
    <3>5. glast[k] >= -1
      BY DEF ReadInv, BoundsAt
    <3>6. glast'[k] \in -1 .. Len(streams[k])
      BY <3>1, <3>2, <3>3, <3>5
    <3>7. config.group /\ k \in Subscribed => glast'[k] >= 0
      BY <3>1, <3>2
    <3>8. /\ pos[k] \in -1 .. Len(streams[k]) /\ mark[k] <= Len(streams[k])
          /\ k \notin Subscribed => handled[k] = <<>>
      BY DEF ReadInv, BoundsAt
    <3> QED BY <1>1, <2>1, <3>4, <3>6, <3>7, <3>8 DEF BoundsAt, Handling, InHand
  <2> QED BY <1>1, <2>1, <2>2, <2>3 DEF ReadInv, InHand
<1>5. CASE OpenFails \/ ReaderSeesStop \/ ReadTimesOut
  <2>1. /\ md' \in {"dead", "ended", "loop"} /\ key' = key
        /\ UNCHANGED <<streams, glast, pel, born, pos, mark, upto, base, handled, before>>
    BY <1>5 DEF OpenFails, ReaderSeesStop, ReadTimesOut, redisVars
  <2>2. key \in Keys \cup {NoKey} /\ (md' = "loop" => md = "read")
    BY <1>5 DEF ReadInv, MdTypes, OpenFails, ReaderSeesStop, ReadTimesOut
  <2> QED BY <1>1, <2>1, <2>2, ReadMoved DEF Places, Joined, Handling, InHand
<1>6. CASE ReadBegins
  <2>1. /\ md' = "read" /\ UNCHANGED <<streams, glast, pel, born, pos, upto, key, handled, before>>
    BY <1>6 DEF ReadBegins, redisVars
  <2>2. ASSUME NEW k \in Keys PROVE mark'[k] \in Nat /\ mark'[k] <= Len(streams[k])
    <3>1. Len(streams[k]) \in Nat
      BY LengthAt DEF ReadInv
    <3>2. mark'[k] = IF k \in Subscribed THEN ReadAfter(k) ELSE 0
      BY <1>6, ReadBeginsAt
    <3>3. pos[k] # Latest => pos[k] \in 0 .. Len(streams[k])
      BY <3>1 DEF ReadInv, BoundsAt, Latest
    <3>4. config.group /\ k \in Subscribed => glast[k] \in 0 .. Len(streams[k])
      BY <1>6, <3>1 DEF ReadInv, BoundsAt, ReadBegins, Joined
    <3> QED BY <3>1, <3>2, <3>3, <3>4 DEF ReadAfter, Latest
  <2>3. mark' \in [Keys -> Nat] /\ base' \in [Keys -> Int]
    BY <1>6, <2>2, ReadBeginsAt DEF ReadInv, MdTypes
  <2>4. MdTypes'
    BY <1>1, <2>1, <2>3 DEF ReadInv, MdTypes, Places, Joined
  <2>5. ASSUME NEW k \in Keys PROVE BoundsAt(k)'
    <3>1. md = "loop"
      BY <1>6 DEF ReadBegins
    <3>2. mark'[k] = IF k \in Subscribed THEN ReadAfter(k) ELSE 0
      BY <1>6, ReadBeginsAt
    <3> QED BY <1>1, <2>1, <2>2, <3>1, <3>2
           DEF ReadInv, BoundsAt, ReadAfter, Joined, Handling, InHand
  <2> QED BY <1>1, <2>1, <2>4, <2>5 DEF ReadInv, InHand
<1>7. CASE ReadReturns
  <2>1. /\ md = "read" /\ md' = "batch"
        /\ UNCHANGED <<streams, born, pos, mark, key, base, handled, before>>
    BY <1>7 DEF ReadReturns
  <2>2. Delivers /\ upto' \in [Keys -> Nat] /\ \A k \in Keys : upto'[k] = Answer(k)
    BY <1>7, ReadReturnsAt
  <2>3. MdTypes'
    BY <1>1, <2>1, <2>2, DeliversAt DEF ReadInv, MdTypes, Places, Joined, Handling
  <2>4. ASSUME NEW k \in Keys PROVE BoundsAt(k)'
    <3>1. /\ Len(streams[k]) \in Nat /\ glast[k] \in Int /\ glast[k] >= -1
      BY LengthAt DEF ReadInv, MdTypes, BoundsAt
    <3>2. /\ upto'[k] \in Nat /\ mark[k] <= upto'[k] /\ upto'[k] <= Len(streams[k])
          /\ k \notin Subscribed => upto'[k] = mark[k]
      BY <2>2, AnswerAt
    <3>3. /\ config.group /\ k \in Subscribed => glast'[k] = upto'[k]
          /\ glast'[k] \in glast[k] .. Len(streams[k]) /\ pel'[k] \subseteq 1 .. glast'[k]
      BY <2>1, <2>2, DeliversAt
    <3> QED BY <1>1, <2>1, <3>1, <3>2, <3>3
           DEF ReadInv, BoundsAt, Joined, Handling, InHand
  <2> QED BY <1>1, <2>1, <2>3, <2>4 DEF ReadInv, InHand
<1>8. CASE ReadFails
  <2>1. /\ md = "read" /\ md' = "backoff"
        /\ UNCHANGED <<streams, born, pos, mark, upto, key, base, handled, before>>
    BY <1>8 DEF ReadFails
  <2>2. CASE UNCHANGED <<glast, pel>>
    BY <1>1, <2>1, <2>2, ReadMoved
       DEF Places, Joined, Handling, InHand, ReadInv, MdTypes
  <2>3. CASE Delivers
    <3>1. MdTypes'
      BY <1>1, <2>1, <2>3, DeliversAt DEF ReadInv, MdTypes, Places, Joined
    <3>2. ASSUME NEW k \in Keys PROVE BoundsAt(k)'
      <4>1. /\ Len(streams[k]) \in Nat /\ glast[k] \in Int /\ glast[k] >= -1
        BY LengthAt DEF ReadInv, MdTypes, BoundsAt
      <4>2. glast'[k] \in glast[k] .. Len(streams[k]) /\ pel'[k] \subseteq 1 .. glast'[k]
        BY <2>1, <2>3, DeliversAt
      <4> QED BY <1>1, <2>1, <4>1, <4>2 DEF ReadInv, BoundsAt, Joined, Handling, InHand
    <3> QED BY <1>1, <2>1, <3>1, <3>2 DEF ReadInv, InHand
  <2> QED BY <1>8, <2>2, <2>3 DEF ReadFails
<1>9. CASE TakeEntry
  <2>1. PICK l \in Keys :
           /\ mark[l] < upto[l] /\ key' = l /\ l \in Subscribed
           /\ mark' = [mark EXCEPT ![l] = mark[l] + 1] /\ md' \in {"field", "ack"}
           /\ md = "batch"
           /\ UNCHANGED <<config, streams, glast, pel, born, pos, upto, base, handled, before>>
    BY <1>9, TakeEntryAt
  <2>2. mark[l] \in Nat /\ upto[l] \in Nat /\ upto[l] <= Len(streams[l]) /\ Len(streams[l]) \in Nat
    BY <2>1, LengthAt DEF ReadInv, BoundsAt, MdTypes, Handling
  <2>3. MdTypes'
    <3>1. mark' \in [Keys -> Nat]
      <4>1. mark \in [Keys -> Nat]
        BY DEF ReadInv, MdTypes
      <4>2. mark[l] + 1 \in Nat
        BY <2>2
      <4>3. mark' = [mark EXCEPT ![l] = mark[l] + 1]
        BY <2>1
      <4> QED BY <4>1, <4>2, <4>3
    <3>2. md' \in Places
      BY <2>1 DEF Places, Joined, Handling, InHand
    <3> QED BY <1>1, <2>1, <3>1, <3>2 DEF ReadInv, MdTypes
  <2>4. ASSUME NEW k \in Keys PROVE BoundsAt(k)'
    <3>1. mark'[k] = IF k = l THEN mark[l] + 1 ELSE mark[k]
      BY <2>1 DEF ReadInv, MdTypes
    <3> QED BY <1>1, <2>1, <2>2, <3>1 DEF ReadInv, BoundsAt, Joined, Handling, InHand
  <2>5. mark'[key'] >= 1
    BY <2>1, <2>2 DEF ReadInv, MdTypes
  <2> QED BY <1>1, <2>1, <2>3, <2>4, <2>5 DEF ReadInv
<1>10. CASE process_one_stream_field \/ StrategyReturns
  <2>1. /\ md \in {"field", "strategy"} /\ md' \in {"dead", "strategy", "ack", "field"}
        /\ key' = key
        /\ UNCHANGED <<streams, glast, pel, born, pos, mark, upto, base, handled, before>>
    BY <1>10 DEF process_one_stream_field, StrategyReturns, redisVars
  <2> QED BY <1>1, <2>1, ReadMoved DEF Places, Joined, Handling, InHand, ReadInv, MdTypes
<1>11. CASE EntryDone \/ AckFails
  <2>1. /\ md = "ack" /\ key \in Keys /\ key \in Subscribed /\ mark[key] \in Ids1
        /\ mark[key] <= upto[key] /\ upto[key] <= Len(streams[key])
        /\ upto[key] \in Nat /\ Len(streams[key]) \in Nat
    <3>1. md = "ack"
      BY <1>11 DEF EntryDone, AckFails
    <3>2. key \in Keys /\ key \in Subscribed /\ mark[key] >= 1
      BY <3>1 DEF ReadInv, InHand
    <3>3. mark[key] \in Nat /\ upto[key] \in Nat /\ Len(streams[key]) \in Nat
      BY <3>2, LengthAt DEF ReadInv, MdTypes
    <3>4. mark[key] <= upto[key] /\ upto[key] <= Len(streams[key])
      BY <3>1, <3>2 DEF ReadInv, BoundsAt, InHand, Handling
    <3> QED BY <3>1, <3>2, <3>3, <3>4 DEF Ids1
  <2>2. /\ handled' = [handled EXCEPT ![key] = Append(handled[key], mark[key])]
        /\ key' \in {key, NoKey} /\ md' \in {"loop", "batch", "dead"}
        /\ UNCHANGED <<streams, glast, born, mark, upto, base, before>>
        /\ pel' = pel \/ pel' = [pel EXCEPT ![key] = pel[key] \ {mark[key]}]
        /\ pos' = pos \/ pos' = [pos EXCEPT ![key] = upto[key]]
    BY <1>11, EntryDoneAt DEF AckFails, redisVars
  <2>3. MdTypes'
    <3>1. Append(handled[key], mark[key]) \in Seq(Ids1)
      BY <2>1, LengthAt, AppendFacts DEF ReadInv
    <3>2. handled' \in [Keys -> Seq(Ids1)]
      BY <2>2, <3>1 DEF ReadInv, MdTypes
    <3>3. pel' \in [Keys -> SUBSET Ids1]
      <4>1. pel \in [Keys -> SUBSET Ids1]
        BY DEF ReadInv, MdTypes
      <4>2. pel[key] \ {mark[key]} \in SUBSET Ids1
        BY <2>1, <4>1
      <4>3. pel' = pel \/ pel' = [pel EXCEPT ![key] = pel[key] \ {mark[key]}]
        BY <2>2
      <4> QED BY <4>1, <4>2, <4>3
    <3>4. pos' \in [Keys -> Int]
      <4>1. pos \in [Keys -> Int] /\ upto[key] \in Int
        BY <2>1 DEF ReadInv, MdTypes
      <4>2. pos' = pos \/ pos' = [pos EXCEPT ![key] = upto[key]]
        BY <2>2
      <4> QED BY <4>1, <4>2
    <3> QED BY <1>1, <2>1, <2>2, <3>2, <3>3, <3>4
           DEF ReadInv, MdTypes, Places, Joined, Handling
  <2>4. ASSUME NEW k \in Keys PROVE BoundsAt(k)'
    <3>1. pel'[k] \subseteq pel[k]
      <4>1. pel \in [Keys -> SUBSET Ids1]
        BY DEF ReadInv, MdTypes
      <4>2. pel' = pel \/ pel' = [pel EXCEPT ![key] = pel[key] \ {mark[key]}]
        BY <2>2
      <4> QED BY <4>1, <4>2
    <3>2. pos'[k] = pos[k] \/ (k = key /\ pos'[k] = upto[k])
      <4>1. pos \in [Keys -> Int]
        BY DEF ReadInv, MdTypes
      <4>2. pos' = pos \/ pos' = [pos EXCEPT ![key] = upto[key]]
        BY <2>2
      <4> QED BY <4>1, <4>2
    <3>3. k # key => handled'[k] = handled[k]
      BY <2>2 DEF ReadInv, MdTypes
    <3>4. pos'[k] \in -1 .. Len(streams[k])
      BY <2>1, <3>2 DEF ReadInv, BoundsAt
    <3> QED BY <1>1, <2>1, <2>2, <3>1, <3>3, <3>4
           DEF ReadInv, BoundsAt, Joined, Handling, InHand
  <2> QED BY <1>1, <2>2, <2>3, <2>4 DEF ReadInv, InHand
<1> QED BY <1>2, <1>3, <1>4, <1>5, <1>6, <1>7, <1>8, <1>9, <1>10, <1>11 DEF Reader

-----------------------------------------------------------------------------
(* With a consumer group: what was handled lies below what the group has   *)
(* delivered, and below the response in hand; what was delivered is        *)
(* pending or was handled, and only a reader that died in XACK leaves an   *)
(* entry both.                                                             *)
GroupAt(k) ==
  /\ (glast[k] < 0) <=> (born[k] < 0)
  /\ Ids(k) \cup before[k] \subseteq 1 .. glast[k]
  /\ md \in Handling /\ k \in Subscribed => Ids(k) \cup before[k] \subseteq 1 .. Done(k)
  /\ \A i \in born[k] + 1 .. glast[k] : i \in pel[k] \cup before[k] \cup Ids(k)
  /\ md # "dead" => pel[k] \cap Ids(k) = {}
  /\ IsInjective(handled[k]) /\ Ids(k) \cap before[k] = {}

GroupInv == config.group => \A k \in Keys : GroupAt(k)

LEMMA NothingHandled == Range(<<>>) = {} /\ IsInjective(<<>>)
  BY DEF Range, IsInjective

LEMMA GroupSame ==
  ASSUME NEW k \in Keys, GroupAt(k), Subscribed' = Subscribed,
         glast'[k] = glast[k], born'[k] = born[k], pel'[k] = pel[k],
         before'[k] = before[k], handled'[k] = handled[k],
         md' \in Handling => md \in Handling /\ Done(k)' = Done(k),
         md = "dead" => md' = "dead"
  PROVE  GroupAt(k)'
<1>1. Ids(k)' = Ids(k)
  BY DEF Ids
<1> QED BY <1>1 DEF GroupAt

LEMMA GroupReader ==
  ASSUME ReadInv, config.group, NEW k \in Keys, GroupAt(k),
         Publish \/ MaybeStart \/ Reader \/ StrategyReturns
  PROVE  GroupAt(k)'
<1>1. /\ config \in Configs /\ config' = config /\ Subscribed' = Subscribed
  <2>1. config' = config
    BY DEF Publish, MaybeStart, Reader, StrategyReturns, OpenClient, OpenFails,
       ReaderSeesStop, ReadBegins, ReadReturns, ReadTimesOut, ReadFails, Reconnects,
       TakeEntry, process_one_stream_field, EntryDone, AckFails
  <2> QED BY <2>1
         DEF ReadInv, MdTypes, Subscribed, expand_market_data_stream_keys,
             resolve_stream_names
<1>2. /\ glast[k] \in Int /\ born[k] \in Int /\ mark[k] \in Nat /\ upto[k] \in Nat
      /\ Len(streams[k]) \in Nat /\ handled[k] \in Seq(Ids1)
      /\ glast[k] <= Len(streams[k]) /\ mark[k] <= Len(streams[k])
      /\ pel[k] \subseteq 1 .. glast[k]
  BY LengthAt DEF ReadInv, MdTypes, BoundsAt
<1>3. CASE Publish
  <2>1. UNCHANGED <<glast, pel, born, md, mark, key, handled, before>>
    BY <1>3 DEF Publish, readerVars
  <2> QED BY <1>1, <2>1, GroupSame DEF Done
<1>4. CASE MaybeStart \/ OpenFails \/ ReaderSeesStop \/ ReadTimesOut \/ ReadBegins
  <2>1. /\ md' \in {"none", "open", "dead", "ended", "loop", "read"} /\ md # "dead"
        /\ UNCHANGED <<glast, pel, born, handled, before>>
    BY <1>4 DEF MaybeStart, OpenFails, ReaderSeesStop, ReadTimesOut, ReadBegins, redisVars
  <2> QED BY <1>1, <2>1, GroupSame DEF Handling, InHand
<1>5. CASE OpenClient \/ Reconnects
  <2>1. /\ ensure_consumer_groups /\ md' = "loop" /\ md # "dead"
        /\ UNCHANGED <<pel, handled, before>>
    BY <1>5 DEF OpenClient, Reconnects
  <2>2. /\ glast'[k] = IF config.group /\ k \in Subscribed /\ glast[k] < 0
                       THEN Len(streams[k]) ELSE glast[k]
        /\ born'[k] = IF born[k] < 0 THEN glast'[k] ELSE born[k]
    BY <2>1, EnsuredAt DEF ReadInv
  <2>3. Ids(k)' = Ids(k)
    BY <2>1 DEF Ids
  <2>4. CASE glast[k] < 0
    <3>1. Ids(k) = {} /\ before[k] = {} /\ born'[k] = glast'[k]
      BY <1>2, <2>2, <2>4 DEF GroupAt
    <3> QED BY <1>2, <2>1, <2>2, <2>3, <2>4, <3>1 DEF GroupAt, Handling, InHand
  <2>5. CASE ~(glast[k] < 0)
    <3>1. glast'[k] = glast[k] /\ born'[k] = born[k]
      BY <2>2, <2>5 DEF GroupAt
    <3> QED BY <1>1, <2>1, <3>1, GroupSame DEF Handling, InHand
  <2> QED BY <2>4, <2>5
<1>6. CASE (ReadReturns \/ ReadFails) /\ Delivers
  <2>1. /\ md = "read" /\ md' \in {"batch", "backoff"}
        /\ UNCHANGED <<born, mark, key, handled, before>>
    BY <1>6 DEF ReadReturns, ReadFails
  <2>2. /\ glast'[k] = IF New(k) THEN Answer(k) ELSE glast[k]
        /\ pel'[k] = pel[k] \cup (mark[k] + 1 .. Answer(k))
        /\ Answer(k) \in Nat /\ mark[k] <= Answer(k)
        /\ ~New(k) => Answer(k) = mark[k]
    BY <1>6, <2>1, AnswerAt, DeliversAt
  <2>3. /\ New(k) => k \in Subscribed
        /\ k \in Subscribed => mark[k] = glast[k]
    BY <2>1 DEF New, ReadInv, BoundsAt
  <2>4. Ids(k)' = Ids(k) /\ Done(k)' = mark[k]
    BY <2>1 DEF Ids, Done, InHand
  <2>5. Ids(k) \cup before[k] \subseteq 1 .. glast[k] /\ glast[k] <= glast'[k]
    BY <1>2, <2>2, <2>3 DEF GroupAt
  <2>6. glast'[k] \in Int /\ ((glast'[k] < 0) <=> (born'[k] < 0))
    BY <1>2, <2>1, <2>2, <2>3 DEF GroupAt
  <2>7. Ids(k) \cup before[k] \subseteq 1 .. glast'[k]
    BY <1>2, <2>5, <2>6
  <2>8. k \in Subscribed => Ids(k) \cup before[k] \subseteq 1 .. mark[k]
    BY <2>3, <2>5
  <2>9. \A i \in born[k] + 1 .. glast'[k] : i \in pel'[k] \cup before[k] \cup Ids(k)
    <3> SUFFICES ASSUME NEW i \in born[k] + 1 .. glast'[k]
                 PROVE  i \in pel'[k] \cup before[k] \cup Ids(k)
      OBVIOUS
    <3>1. CASE i <= glast[k]
      BY <1>2, <2>2, <3>1 DEF GroupAt
    <3>2. CASE ~(i <= glast[k])
      BY <1>2, <2>2, <2>3, <2>6, <3>2
    <3> QED BY <3>1, <3>2
  <2>10. pel'[k] \cap Ids(k) = {}
    <3>1. pel[k] \cap Ids(k) = {}
      BY <2>1 DEF GroupAt
    <3>2. (mark[k] + 1 .. Answer(k)) \cap Ids(k) = {}
      BY <1>2, <2>2, <2>3, <2>5
    <3> QED BY <2>2, <3>1, <3>2
  <2> QED BY <1>1, <2>1, <2>4, <2>6, <2>7, <2>8, <2>9, <2>10 DEF GroupAt
<1>7. CASE ReadFails /\ UNCHANGED <<glast, pel>>
  <2>1. /\ md = "read" /\ md' = "backoff" /\ UNCHANGED <<born, mark, key, handled, before>>
    BY <1>7 DEF ReadFails
  <2> QED BY <1>1, <1>7, <2>1, GroupSame DEF Handling, InHand
<1>8. CASE TakeEntry
  <2>1. PICK l \in Keys :
           /\ key' = l /\ mark' = [mark EXCEPT ![l] = mark[l] + 1]
           /\ md' \in {"field", "ack"} /\ md = "batch"
           /\ UNCHANGED <<glast, pel, born, handled, before>>
    BY <1>8, TakeEntryAt
  <2>2. Done(k)' = Done(k)
    <3>1. mark'[k] = IF k = l THEN mark[k] + 1 ELSE mark[k]
      BY <2>1 DEF ReadInv, MdTypes
    <3> QED BY <1>2, <2>1, <3>1 DEF Done, InHand
  <2> QED BY <1>1, <2>1, <2>2, GroupSame DEF Handling
<1>9. CASE process_one_stream_field \/ StrategyReturns
  <2>1. /\ md \in {"field", "strategy"} /\ md' \in {"dead", "strategy", "ack", "field"}
        /\ UNCHANGED <<glast, pel, born, mark, key, handled, before>>
    BY <1>9 DEF process_one_stream_field, StrategyReturns, redisVars
  <2>2. md' \in Handling => md \in Handling /\ Done(k)' = Done(k)
    BY <2>1 DEF Handling, InHand, Done
  <2> QED BY <1>1, <2>1, <2>2, GroupSame
<1>10. CASE EntryDone \/ AckFails
  <2>1. /\ md = "ack" /\ md' \in {"loop", "batch", "dead"}
        /\ handled' = [handled EXCEPT ![key] = Append(handled[key], mark[key])]
        /\ \/ md' # "dead" /\ pel' = [pel EXCEPT ![key] = pel[key] \ {mark[key]}]
           \/ md' = "dead" /\ pel' = pel
        /\ UNCHANGED <<glast, born, mark, before>>
    BY <1>10, EntryDoneAt DEF AckFails, redisVars
  <2>2. key \in Keys /\ key \in Subscribed /\ mark[key] >= 1
    BY <2>1 DEF ReadInv, InHand
  <2>3. CASE k # key
    <3>1. handled'[k] = handled[k] /\ pel'[k] = pel[k]
      BY <2>1, <2>3 DEF ReadInv, MdTypes
    <3>2. md' \in Handling => md \in Handling /\ Done(k)' = Done(k)
      BY <2>1, <2>3 DEF Handling, InHand, Done
    <3> QED BY <1>1, <2>1, <3>1, <3>2, GroupSame
  <2>4. CASE k = key
    <3>1. /\ mark[k] \in Ids1 /\ mark[k] <= upto[k] /\ upto[k] = glast[k]
          /\ Done(k) = mark[k] - 1
      BY <1>2, <2>1, <2>2, <2>4 DEF ReadInv, BoundsAt, Handling, InHand, Ids1, Done
    <3>2. /\ handled'[k] = Append(handled[k], mark[k])
          /\ IF md' = "dead" THEN pel'[k] = pel[k] ELSE pel'[k] = pel[k] \ {mark[k]}
      BY <2>1, <2>2, <2>4 DEF ReadInv, MdTypes
    <3>3. Ids(k) \cup before[k] \subseteq 1 .. mark[k] - 1
      BY <2>1, <2>2, <2>4, <3>1 DEF GroupAt, Handling, InHand
    <3>4. mark[k] \notin Ids(k) \cup before[k]
      BY <1>2, <3>3
    <3>5. Ids(k)' = Ids(k) \cup {mark[k]} /\ IsInjective(handled'[k])
      BY <1>2, <3>1, <3>2, <3>4, AppendFacts DEF Ids, GroupAt
    <3>6. md' \in Handling => Done(k)' = mark[k]
      BY <2>1 DEF Handling, InHand, Done
    <3>7. Ids(k)' \cup before[k] \subseteq 1 .. mark[k]
      BY <1>2, <3>1, <3>3, <3>5 DEF Ids1
    <3>8. Ids(k)' \cup before[k] \subseteq 1 .. glast[k]
      BY <1>2, <3>1, <3>7
    <3>9. \A i \in born[k] + 1 .. glast[k] : i \in pel'[k] \cup before[k] \cup Ids(k)'
      BY <3>2, <3>5 DEF GroupAt
    <3>10. md' # "dead" => pel'[k] \cap Ids(k)' = {}
      BY <2>1, <3>2, <3>5 DEF GroupAt
    <3>11. Ids(k)' \cap before[k] = {}
      BY <3>4, <3>5 DEF GroupAt
    <3>12. (glast[k] < 0) <=> (born[k] < 0)
      BY DEF GroupAt
    <3> QED BY <2>1, <3>5, <3>6, <3>7, <3>8, <3>9, <3>10, <3>11, <3>12 DEF GroupAt
  <2> QED BY <2>3, <2>4
<1>11. /\ ReadReturns => Delivers
       /\ ReadFails => Delivers \/ UNCHANGED <<glast, pel>>
  BY ReadReturnsAt DEF ReadFails
<1> QED BY <1>3, <1>4, <1>5, <1>6, <1>7, <1>8, <1>9, <1>10, <1>11 DEF Reader

-----------------------------------------------------------------------------
(* With XREAD: the position of a stream is the last entry handled of it,   *)
(* but for the response in hand, at whose end it will be; and behind an id *)
(* that was not "$" nothing is left out.                                   *)
LastOf(k) == handled[k][Len(handled[k])]

InTurn(k) ==
  handled[k] # <<>> =>
    /\ md \notin {"off", "none", "open"}
    /\ md \in {"loop", "read", "backoff"} => LastOf(k) = pos[k]
    /\ md = "read" => LastOf(k) = mark[k]
    /\ md \in Handling => LastOf(k) = Done(k) /\ (Done(k) = upto[k] => pos[k] = upto[k])

FromStart(k) ==
  k \in Subscribed /\ config.start # Latest =>
    /\ pos[k] >= 0 /\ 1 .. pos[k] \subseteq Ids(k)
    /\ md = "read" => mark[k] = pos[k]
    /\ md \in Handling => 1 .. Done(k) \subseteq Ids(k)

StreamAt(k) ==
  /\ \A i \in 1 .. Len(handled[k]) - 1 : handled[k][i + 1] = handled[k][i] + 1
  /\ InTurn(k) /\ FromStart(k)
  /\ base = Unset \/ base[k] >= 0
  /\ md = "read" => base[k] >= 0

StreamInv == ~config.group => \A k \in Keys : StreamAt(k)

LEMMA StreamSame ==
  ASSUME NEW k \in Keys, StreamAt(k), config' = config, Subscribed' = Subscribed,
         pos'[k] = pos[k], handled'[k] = handled[k], base' = base,
         md' # "read", md' \notin {"off", "none", "open"},
         md' \in {"loop", "backoff"} => md \in {"loop", "read", "backoff"},
         md' \in Handling => md \in Handling /\ Done(k)' = Done(k) /\ upto'[k] = upto[k]
  PROVE  StreamAt(k)'
<1>1. Ids(k)' = Ids(k) /\ LastOf(k)' = LastOf(k)
  BY DEF Ids, LastOf
<1>2. InTurn(k)' /\ FromStart(k)'
  BY <1>1 DEF StreamAt, InTurn, FromStart
<1> QED BY <1>2 DEF StreamAt

LEMMA StreamReader ==
  ASSUME ReadInv, ~config.group, NEW k \in Keys, StreamAt(k),
         Publish \/ MaybeStart \/ Reader \/ StrategyReturns
  PROVE  StreamAt(k)'
<1>1. /\ config \in Configs /\ config' = config /\ Subscribed' = Subscribed
      /\ config.start \in {Latest, 0}
  <2>1. config' = config
    BY DEF Publish, MaybeStart, Reader, StrategyReturns, OpenClient, OpenFails,
       ReaderSeesStop, ReadBegins, ReadReturns, ReadTimesOut, ReadFails, Reconnects,
       TakeEntry, process_one_stream_field, EntryDone, AckFails
  <2> QED BY <2>1, ConfigFacts
         DEF ReadInv, MdTypes, Subscribed, expand_market_data_stream_keys,
             resolve_stream_names
<1>2. /\ pos[k] \in Int /\ mark[k] \in Nat /\ upto[k] \in Nat /\ base[k] \in Int
      /\ Len(streams[k]) \in Nat /\ handled[k] \in Seq(Ids1) /\ Len(handled[k]) \in Nat
  BY LengthAt DEF ReadInv, MdTypes
<1>3. handled[k] # <<>> => k \in Subscribed /\ LastOf(k) \in Ids1
  BY <1>2 DEF ReadInv, BoundsAt, LastOf
<1>4. CASE Publish
  <2>1. UNCHANGED <<md, pos, mark, upto, key, base, handled>>
    BY <1>4 DEF Publish, readerVars
  <2>2. Ids(k)' = Ids(k) /\ LastOf(k)' = LastOf(k) /\ Done(k)' = Done(k)
    BY <2>1 DEF Ids, LastOf, Done
  <2> QED BY <1>1, <2>1, <2>2 DEF StreamAt, InTurn, FromStart
<1>5. CASE MaybeStart
  <2>1. /\ md = "off" /\ md' \in {"none", "open"} /\ pos'[k] = config.start
        /\ UNCHANGED <<base, handled>>
    BY <1>5 DEF MaybeStart
  <2>2. handled'[k] = <<>>
    BY <2>1 DEF StreamAt, InTurn
  <2>3. InTurn(k)'
    BY <2>2 DEF InTurn
  <2>4. FromStart(k)'
    BY <1>1, <2>1 DEF FromStart, Handling, InHand
  <2> QED BY <2>1, <2>3, <2>4 DEF StreamAt
<1>6. CASE OpenClient \/ OpenFails \/ ReaderSeesStop \/ Reconnects
  <2>1. /\ md \in {"open", "loop", "backoff"} /\ md' \in {"loop", "dead", "ended"}
        /\ UNCHANGED <<pos, base, handled>>
    BY <1>6 DEF OpenClient, OpenFails, ReaderSeesStop, Reconnects
  <2>2. CASE md = "open"
    <3>1. handled[k] = <<>>
      BY <2>2 DEF StreamAt, InTurn
    <3>2. InTurn(k)'
      BY <2>1, <3>1 DEF InTurn
    <3>3. Ids(k)' = Ids(k)
      BY <2>1 DEF Ids
    <3>4. FromStart(k)'
      BY <1>1, <2>1, <3>3 DEF StreamAt, FromStart, Handling, InHand
    <3> QED BY <2>1, <3>2, <3>4 DEF StreamAt
  <2>3. CASE md # "open"
    BY <1>1, <2>1, <2>3, StreamSame DEF Handling, InHand
  <2> QED BY <2>2, <2>3
<1>7. CASE ReadBegins
  <2>1. md = "loop" /\ md' = "read" /\ UNCHANGED <<pos, handled>>
    BY <1>7 DEF ReadBegins, redisVars
  <2>2. /\ mark'[k] = IF k \in Subscribed THEN ReadAfter(k) ELSE 0
        /\ base' = base \/ (base = Unset /\ base' = mark')
    BY <1>7, ReadBeginsAt
  <2>3. Ids(k)' = Ids(k) /\ LastOf(k)' = LastOf(k)
    BY <2>1 DEF Ids, LastOf
  <2>4. k \in Subscribed /\ pos[k] # Latest => mark'[k] = pos[k]
    BY <2>2 DEF ReadAfter
  <2>5. InTurn(k)'
    BY <1>3, <2>1, <2>3, <2>4 DEF StreamAt, InTurn, Handling, InHand, Latest, Ids1
  <2>6. FromStart(k)'
    BY <1>1, <1>2, <2>1, <2>3, <2>4 DEF StreamAt, FromStart, Handling, InHand, Latest
  <2>7. mark'[k] >= 0
    BY <1>2, <2>2 DEF ReadAfter, ReadInv, BoundsAt, Latest
  <2>8. base'[k] >= 0
    <3>1. CASE base # Unset
      BY <2>2, <3>1 DEF StreamAt
    <3>2. CASE base' = mark'
      BY <2>7, <3>2
    <3>3. CASE base = Unset /\ base' = base
      BY <1>7, <3>3, <2>7 DEF ReadBegins
    <3> QED BY <2>2, <3>1, <3>2, <3>3
  <2> QED BY <2>1, <2>5, <2>6, <2>8 DEF StreamAt
<1>8. CASE ReadReturns
  <2>1. /\ md = "read" /\ md' = "batch" /\ UNCHANGED <<pos, mark, key, base, handled>>
    BY <1>8 DEF ReadReturns
  <2>2. Ids(k)' = Ids(k) /\ LastOf(k)' = LastOf(k) /\ Done(k)' = mark[k]
    BY <2>1 DEF Ids, LastOf, Done, InHand
  <2>3. InTurn(k)'
    BY <2>1, <2>2 DEF StreamAt, InTurn
  <2>4. FromStart(k)'
    BY <1>1, <2>1, <2>2 DEF StreamAt, FromStart
  <2> QED BY <2>1, <2>3, <2>4 DEF StreamAt
<1>9. CASE ReadTimesOut \/ ReadFails
  <2>1. md = "read" /\ md' \in {"loop", "backoff"} /\ UNCHANGED <<pos, base, handled>>
    BY <1>9 DEF ReadTimesOut, ReadFails
  <2> QED BY <1>1, <2>1, StreamSame DEF Handling, InHand
<1>10. CASE TakeEntry
  <2>1. PICK l \in Keys :
           /\ key' = l /\ mark' = [mark EXCEPT ![l] = mark[l] + 1]
           /\ md' \in {"field", "ack"} /\ md = "batch"
           /\ UNCHANGED <<pos, upto, base, handled>>
    BY <1>10, TakeEntryAt
  <2>2. Done(k)' = Done(k)
    <3>1. mark'[k] = IF k = l THEN mark[k] + 1 ELSE mark[k]
      BY <2>1 DEF ReadInv, MdTypes
    <3> QED BY <1>2, <2>1, <3>1 DEF Done, InHand
  <2> QED BY <1>1, <2>1, <2>2, StreamSame DEF Handling
<1>11. CASE process_one_stream_field \/ StrategyReturns
  <2>1. /\ md \in {"field", "strategy"} /\ md' \in {"dead", "strategy", "ack", "field"}
        /\ UNCHANGED <<pos, mark, upto, key, base, handled>>
    BY <1>11 DEF process_one_stream_field, StrategyReturns
  <2>2. md' \in Handling => md \in Handling /\ Done(k)' = Done(k)
    BY <2>1 DEF Handling, InHand, Done
  <2> QED BY <1>1, <2>1, <2>2, StreamSame
<1>12. CASE EntryDone
  <2>1. /\ handled' = [handled EXCEPT ![key] = Append(handled[key], mark[key])]
        /\ pos' = IF mark[key] = upto[key] THEN [pos EXCEPT ![key] = upto[key]] ELSE pos
        /\ md' \in {"loop", "batch"} /\ md = "ack"
        /\ md' = "loop" => \A l \in Keys : mark[l] = upto[l]
        /\ UNCHANGED <<mark, upto, base>>
    BY <1>12, EntryDoneAt
  <2>2. key \in Keys /\ key \in Subscribed /\ mark[key] >= 1
    BY <2>1 DEF ReadInv, InHand
  <2>3. md' = "batch" => Done(k)' = mark[k]
    BY <2>1 DEF Done, InHand
  <2>4. CASE k # key
    <3>1. handled'[k] = handled[k] /\ pos'[k] = pos[k] /\ Done(k) = mark[k]
      BY <2>1, <2>4 DEF ReadInv, MdTypes, Done
    <3>2. Ids(k)' = Ids(k) /\ LastOf(k)' = LastOf(k)
      BY <3>1 DEF Ids, LastOf
    <3>3. InTurn(k)'
      BY <2>1, <2>3, <3>1, <3>2 DEF StreamAt, InTurn, Handling, InHand
    <3>4. FromStart(k)'
      BY <1>1, <2>1, <2>3, <3>1, <3>2 DEF StreamAt, FromStart, Handling, InHand
    <3> QED BY <2>1, <3>1, <3>3, <3>4 DEF StreamAt
  <2>5. CASE k = key
    <3>1. /\ mark[k] \in Ids1 /\ Done(k) = mark[k] - 1
      BY <1>2, <2>1, <2>2, <2>5 DEF Ids1, Done, InHand
    <3>2. /\ handled'[k] = Append(handled[k], mark[k])
          /\ pos'[k] = IF mark[k] = upto[k] THEN upto[k] ELSE pos[k]
      BY <2>1, <2>2, <2>5 DEF ReadInv, MdTypes
    <3>3. /\ Len(handled'[k]) = Len(handled[k]) + 1 /\ handled'[k][Len(handled[k]) + 1] = mark[k]
          /\ \A i \in 1 .. Len(handled[k]) : handled'[k][i] = handled[k][i]
          /\ Ids(k)' = Ids(k) \cup {mark[k]} /\ LastOf(k)' = mark[k]
      BY <1>2, <3>1, <3>2, AppendFacts DEF Ids, LastOf
    <3>4. handled[k] # <<>> => handled[k][Len(handled[k])] = mark[k] - 1
      BY <2>1, <3>1 DEF StreamAt, InTurn, LastOf, Handling, InHand
    <3>5. \A i \in 1 .. Len(handled'[k]) - 1 : handled'[k][i + 1] = handled'[k][i] + 1
      <4> SUFFICES ASSUME NEW i \in 1 .. Len(handled[k])
                   PROVE  handled'[k][i + 1] = handled'[k][i] + 1
        BY <1>2, <3>3
      <4>1. handled'[k][i] = handled[k][i]
        BY <3>3
      <4>2. CASE i = Len(handled[k])
        BY <1>2, <3>1, <3>3, <3>4, <4>1, <4>2 DEF Ids1
      <4>3. CASE i # Len(handled[k])
        <5>1. i \in 1 .. Len(handled[k]) - 1 /\ i + 1 \in 1 .. Len(handled[k])
          BY <1>2, <4>3
        <5> QED BY <3>3, <4>1, <5>1 DEF StreamAt
      <4> QED BY <4>2, <4>3
    <3>6. InTurn(k)'
      BY <1>2, <2>1, <2>3, <3>2, <3>3 DEF InTurn, Handling, InHand
    <3>7. FromStart(k)'
      <4> SUFFICES ASSUME k \in Subscribed, config.start # Latest
                   PROVE  /\ pos'[k] >= 0 /\ 1 .. pos'[k] \subseteq Ids(k)'
                          /\ md' # "read"
                          /\ md' \in Handling => 1 .. Done(k)' \subseteq Ids(k)'
        BY <1>1 DEF FromStart
      <4>1. 1 .. mark[k] - 1 \subseteq Ids(k) /\ pos[k] >= 0 /\ 1 .. pos[k] \subseteq Ids(k)
        BY <2>1, <3>1 DEF StreamAt, FromStart, Handling, InHand
      <4>2. 1 .. mark[k] \subseteq Ids(k)'
        BY <1>2, <3>3, <4>1
      <4> QED BY <1>2, <2>1, <2>3, <3>2, <3>3, <4>1, <4>2 DEF Handling, InHand
    <3> QED BY <2>1, <3>5, <3>6, <3>7 DEF StreamAt
  <2> QED BY <2>4, <2>5
<1>13. ~AckFails
  BY DEF AckFails
<1> QED BY <1>4, <1>5, <1>6, <1>7, <1>8, <1>9, <1>10, <1>11, <1>12, <1>13 DEF Reader

-----------------------------------------------------------------------------
(* The invariant of the market data feed.                                  *)
MdInv == ReadInv /\ GroupInv /\ StreamInv

LEMMA MdInvInit == Init => MdInv
<1> SUFFICES ASSUME Init PROVE MdInv
  OBVIOUS
<1> USE DEF Init, MdInit, NoId, Unset
<1>1. ReadInv
  <2>1. MdTypes
    BY DEF MdTypes, Places
  <2>2. ASSUME NEW k \in Keys PROVE BoundsAt(k)
    BY DEF BoundsAt, Handling, Joined, InHand
  <2> QED BY <2>1, <2>2 DEF ReadInv, InHand
<1>2. ASSUME NEW k \in Keys PROVE GroupAt(k)
  <2>1. Ids(k) = {} /\ IsInjective(handled[k])
    BY NothingHandled DEF Ids
  <2> QED BY <2>1 DEF GroupAt, Handling, InHand
<1>3. ASSUME NEW k \in Keys PROVE StreamAt(k)
  BY DEF StreamAt, InTurn, FromStart, Handling, InHand
<1> QED BY <1>1, <1>2, <1>3 DEF MdInv, GroupInv, StreamInv

LEMMA MdInvReader ==
  ASSUME MdInv, Publish \/ MaybeStart \/ Reader \/ StrategyReturns
  PROVE  MdInv'
<1>1. config' = config
  BY DEF Publish, MaybeStart, Reader, StrategyReturns, OpenClient, OpenFails,
     ReaderSeesStop, ReadBegins, ReadReturns, ReadTimesOut, ReadFails, Reconnects,
     TakeEntry, process_one_stream_field, EntryDone, AckFails
<1>2. ReadInv'
  BY ReadReader DEF MdInv
<1>3. GroupInv'
  BY <1>1, GroupReader DEF MdInv, GroupInv
<1>4. StreamInv'
  BY <1>1, StreamReader DEF MdInv, StreamInv
<1> QED BY <1>2, <1>3, <1>4 DEF MdInv

LEMMA MdInvSame == MdInv /\ UNCHANGED mdVars => MdInv'
<1> SUFFICES ASSUME MdInv, UNCHANGED mdVars PROVE MdInv'
  OBVIOUS
<1>1. UNCHANGED <<config, streams, glast, pel, born, md, pos, mark, upto, key, base, handled, before>>
  BY DEF mdVars, redisVars, readerVars
<1>2. Subscribed' = Subscribed
  BY <1>1 DEF Subscribed, expand_market_data_stream_keys, resolve_stream_names
<1>3. ReadInv'
  BY <1>1, <1>2 DEF MdInv, ReadInv, MdTypes, BoundsAt
<1>4. ASSUME NEW k \in Keys
      PROVE  Ids(k)' = Ids(k) /\ Done(k)' = Done(k) /\ LastOf(k)' = LastOf(k)
  BY <1>1 DEF Ids, Done, LastOf
<1>5. ASSUME NEW k \in Keys, GroupAt(k) PROVE GroupAt(k)'
  BY <1>1, <1>2, <1>4, <1>5 DEF GroupAt
<1>6. ASSUME NEW k \in Keys, StreamAt(k) PROVE StreamAt(k)'
  BY <1>1, <1>2, <1>4, <1>6 DEF StreamAt, InTurn, FromStart
<1> QED BY <1>1, <1>3, <1>5, <1>6 DEF MdInv, GroupInv, StreamInv

(* A launch after a crash: the groups and what they hold as pending stay,  *)
(* what the process had handled becomes history.                           *)
LEMMA MdInvCrash == MdInv /\ Crash => MdInv'
<1> SUFFICES ASSUME MdInv, Crash PROVE MdInv'
  OBVIOUS
<1>1. /\ md' = "off" /\ pos' = NoId /\ mark' = NoId /\ upto' = NoId /\ key' = NoKey
      /\ base' = Unset /\ UNCHANGED <<config, streams, glast, pel, born>>
      /\ before' = [k \in Keys |-> before[k] \cup Range(handled[k])]
      /\ handled' = [k \in Keys |-> <<>>]
  BY DEF Crash, redisVars
<1>2. Subscribed' = Subscribed
  BY <1>1 DEF Subscribed, expand_market_data_stream_keys, resolve_stream_names
<1>3. ASSUME NEW k \in Keys
      PROVE  /\ handled'[k] = <<>> /\ Ids(k)' = {} /\ IsInjective(handled'[k])
             /\ before'[k] = before[k] \cup Ids(k) /\ Range(handled[k]) \subseteq Ids1
  <2>1. handled[k] \in Seq(Ids1)
    BY DEF MdInv, ReadInv, MdTypes
  <2>2. Range(handled[k]) \subseteq Ids1
    <3>1. DOMAIN handled[k] = 1 .. Len(handled[k])
      BY <2>1
    <3> QED BY <2>1, <3>1 DEF Range
  <2>3. handled'[k] = <<>>
    BY <1>1
  <2>4. Ids(k)' = {} /\ IsInjective(handled'[k])
    BY <2>3, NothingHandled DEF Ids
  <2>5. before'[k] = before[k] \cup Ids(k)
    BY <1>1 DEF Ids
  <2> QED BY <2>2, <2>3, <2>4, <2>5
<1>4. ReadInv'
  <2>1. before' \in [Keys -> SUBSET Ids1]
    <3>1. \A k \in Keys : before[k] \cup Range(handled[k]) \in SUBSET Ids1
      BY <1>3 DEF MdInv, ReadInv, MdTypes
    <3> QED BY <1>1, <3>1
  <2>2. MdTypes'
    <3>1. /\ pos' \in [Keys -> Int] /\ mark' \in [Keys -> Nat] /\ upto' \in [Keys -> Nat]
          /\ base' \in [Keys -> Int] /\ handled' \in [Keys -> Seq(Ids1)]
      BY <1>1 DEF NoId, Unset
    <3> QED BY <1>1, <2>1, <3>1 DEF MdInv, ReadInv, MdTypes, Places
  <2>3. ASSUME NEW k \in Keys PROVE BoundsAt(k)'
    <3>1. pos'[k] = 0 /\ mark'[k] = 0 /\ Len(streams[k]) \in Nat
      BY <1>1, LengthAt DEF NoId, MdInv, ReadInv
    <3> QED BY <1>1, <1>2, <1>3, <3>1 DEF MdInv, ReadInv, BoundsAt, Joined, Handling, InHand
  <2> QED BY <1>1, <2>2, <2>3 DEF ReadInv, InHand
<1>5. ASSUME NEW k \in Keys, GroupAt(k) PROVE GroupAt(k)'
  BY <1>1, <1>2, <1>3, <1>5 DEF GroupAt, Handling, InHand
<1>6. ASSUME NEW k \in Keys PROVE StreamAt(k)'
  BY <1>1, <1>3 DEF StreamAt, InTurn, FromStart, Handling, InHand, NoId
<1> QED BY <1>1, <1>4, <1>5, <1>6 DEF MdInv, GroupInv, StreamInv

LEMMA MdInvNext == MdInv /\ [Next]_vars => MdInv'
<1>1. \/ Publish \/ MaybeStart \/ Reader \/ StrategyReturns \/ Crash
      \/ UNCHANGED mdVars \/ ~[Next]_vars
  BY DEF Next, vars, ReadStamp, ReadCash, StrategyEnds, StopStep
<1> QED BY <1>1, MdInvReader, MdInvCrash, MdInvSame

(* The invariant of the two feeds and stop().                              *)
FeedsInv == FlagsInv /\ SnapInv /\ ViewInv /\ MdInv

THEOREM FeedsInvariant == Spec => []FeedsInv
<1>1. Init => FeedsInv
  BY AccountInit, MdInvInit DEF FeedsInv
<1>2. FeedsInv /\ [Next]_vars => FeedsInv'
  BY FlagsNext, AccountNext, MdInvNext DEF FeedsInv
<1> QED BY <1>1, <1>2, PTL DEF Spec

(* Every variable keeps to its values: no reader is past the end of a      *)
(* stream, no group past it either.                                        *)
THEOREM FeedTypes == Spec => []TypeOK
<1>1. FeedsInv => TypeOK
  <2> SUFFICES ASSUME FeedsInv PROVE TypeOK
    OBVIOUS
  <2>1. /\ FlagsInv /\ SnapInv /\ ReadInv
    BY DEF FeedsInv, MdInv
  <2>2. ASSUME NEW k \in Keys
        PROVE  /\ glast[k] \in -1 .. Len(streams[k]) /\ pel[k] \subseteq 1 .. Len(streams[k])
               /\ pos[k] \in -1 .. Len(streams[k])
               /\ mark[k] <= upto[k] \/ md \notin {"batch", "ack"}
    <3>1. BoundsAt(k) /\ glast[k] \in Int /\ Len(streams[k]) \in Nat
      BY <2>1, LengthAt DEF ReadInv, MdTypes
    <3>2. pel[k] \subseteq 1 .. Len(streams[k])
      BY <3>1 DEF BoundsAt
    <3> QED BY <3>1, <3>2 DEF BoundsAt, Handling, InHand
  <2>3. snapshot.stamp \in 0 .. published /\ snapshot.cash \in 0 .. published
    BY <2>1 DEF SnapInv
  <2>4. md \in {"off", "none", "open", "loop", "read", "backoff", "batch",
                "field", "strategy", "ack", "ended", "dead"} /\ key \in Keys \cup {NoKey}
    BY <2>1 DEF ReadInv, MdTypes, Places, Joined, Handling, InHand
  <2> QED BY <2>1, <2>2, <2>3, <2>4 DEF TypeOK, FlagsInv
<1> QED BY <1>1, FeedsInvariant, PTL

(* XREAD loses and repeats nothing within a process: positions are kept    *)
(* over lost connections and moved only at the end of a stream's part of a *)
(* response.                                                               *)
THEOREM NothingSkipped == Spec => []ConsecutiveEntries
<1>1. FeedsInv => ConsecutiveEntries
  <2> SUFFICES ASSUME FeedsInv, ~config.group, NEW k \in Keys
               PROVE  /\ \A i \in 1 .. Len(handled[k]) - 1 :
                           handled[k][i + 1] = handled[k][i] + 1
                      /\ k \in Subscribed /\ config.start # Latest /\ md = "read" =>
                           \A i \in base[k] + 1 .. mark[k] : i \in Ids(k)
    BY DEF ConsecutiveEntries
  <2>1. StreamAt(k) /\ base[k] \in Int /\ pos[k] \in Int
    BY DEF FeedsInv, MdInv, StreamInv, ReadInv, MdTypes
  <2>2. k \in Subscribed /\ config.start # Latest /\ md = "read" =>
          \A i \in base[k] + 1 .. mark[k] : i \in Ids(k)
    BY <2>1 DEF StreamAt, FromStart
  <2> QED BY <2>1, <2>2 DEF StreamAt
<1> QED BY <1>1, FeedsInvariant, PTL

(* XREADGROUP with one group and ">" hands every entry out once, to one    *)
(* process of the worker.                                                  *)
THEOREM HandedOutOnce == Spec => []GroupNeverTwice
<1>1. FeedsInv => GroupNeverTwice
  BY DEF FeedsInv, MdInv, GroupInv, GroupAt, GroupNeverTwice
<1> QED BY <1>1, FeedsInvariant, PTL

(* XACK comes after processing: what is no longer pending was handled, and *)
(* a reader that asks for more has acknowledged all it handled.            *)
THEOREM AckedAfterHandling == Spec => []AckedWasHandled
<1>1. FeedsInv => AckedWasHandled
  <2> SUFFICES ASSUME FeedsInv, config.group, NEW k \in Subscribed
               PROVE  /\ \A i \in born[k] + 1 .. glast[k] :
                           i \in pel[k] \cup before[k] \cup Ids(k)
                      /\ md \in {"loop", "read"} => pel[k] \cap Ids(k) = {}
    BY DEF AckedWasHandled
  <2>1. k \in Keys
    BY ConfigFacts DEF FeedsInv, MdInv, ReadInv, MdTypes
  <2>2. GroupAt(k)
    BY <2>1 DEF FeedsInv, MdInv, GroupInv
  <2> QED BY <2>2 DEF GroupAt
<1> QED BY <1>1, FeedsInvariant, PTL
=============================================================================
