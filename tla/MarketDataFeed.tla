--------------------------- MODULE MarketDataFeed ---------------------------
(***************************************************************************)
(* The thread swr-market-data-redis-feed: it tails the Redis streams of    *)
(* the strategy's partition with XREAD or XREADGROUP and hands the ticks   *)
(* to the strategy.                                                        *)
(*                                                                         *)
(* A stream is the sequence of its entries, an entry's id its place, and   *)
(* an entry the sequence of its hash fields; <<>> is an entry without a    *)
(* field map.  Of a field the reader tells apart: "own" a tick of the      *)
(* strategy's symbol, "other" one of another symbol of the partition,      *)
(* "bad" what stream_payload_to_tick returns None for, and "poison" a      *)
(* number float() refuses, which no handler catches.                       *)
(***************************************************************************)
EXTENDS LiveWorker, Integers, SequencesExt

CONSTANTS
  Feeds,        \* feed families the producer writes
  Parts,        \* market_data_realtime_partition_count
  Crc,          \* CRC32 of each symbol
  Symbols,
  Configs,      \* worker settings, see ConfigsAssumption
  Shapes,       \* field sequences of the entries the producer adds
  Count         \* market_data_xread_count

ASSUME MarketAssumption ==
  /\ Parts \in Nat \ {0} /\ Count \in Nat \ {0}
  /\ Crc \in [Symbols -> Nat]
  /\ Shapes \subseteq Seq({"own", "other", "bad", "poison"})

Latest == -1                \* the id "$"
Keys   == Feeds \X (0 .. Parts - 1)
NoKey  == <<"none", 0>>

(* feeds and symbol as the bundle sets them ("" when it has no symbol),    *)
(* group: XREADGROUP, start: market_data_stream_start_id, forever:         *)
(* block_ms = 0, minute: bar_timeframe is an alias of 1m, balances: the    *)
(* portfolio feed is configured too, entries: bound on the entries added.  *)
ASSUME ConfigsAssumption ==
  Configs \subseteq [feeds : SUBSET Feeds, symbol : Symbols \cup {""},
                     group : BOOLEAN, start : {Latest, 0},
                     forever : BOOLEAN, minute : BOOLEAN, parts : {Parts},
                     balances : BOOLEAN, entries : Nat]

VARIABLES
  config,
  streams,   \* Redis: entries of every stream
  glast,     \* Redis: last id delivered to the worker's group, -1: no group
  pel,       \* Redis: ids delivered to the group and not acknowledged
  born,      \* history: the id the group was created at
  md,        \* where the reader is
  pos,       \* positions of XREAD
  mark,      \* the ids the read in progress starts after
  upto,      \* last id of its response
  key, todo, \* stream and remaining fields of the entry in hand
  base,      \* history: the ids its first read started after
  handled,   \* history: entries this process handled, in order
  before     \* history: entries earlier processes handled

redisVars   == <<streams, glast, pel, born>>
readerVars  == <<md, pos, mark, upto, key, todo, base, handled>>
mdVars      == <<config, redisVars, readerVars, before>>

NoId  == [k \in Keys |-> 0]
Unset == [k \in Keys |-> -1]

(***************************************************************************)
(* Which streams to read.                                                  *)
(***************************************************************************)
(* CRC32 of the trimmed symbol, modulo the number of partitions.           *)
market_data_partition(s, n) == Crc[s] % n

(* The bars stream holds 1m aggregates only; other feeds pass.             *)
resolve_stream_names(feeds, minute) ==
  {f \in feeds \cap Feeds : f # "bars" \/ minute}

partitions_for_realtime_subscribe(n, filter) ==
  IF filter = {} THEN 0 .. n - 1
                 ELSE {market_data_partition(s, n) : s \in filter}

expand_market_data_stream_keys(bases, n, filter) ==
  bases \X partitions_for_realtime_subscribe(n, filter)

Subscribed ==
  IF config.symbol = "" THEN {}
  ELSE expand_market_data_stream_keys(
         resolve_stream_names(config.feeds, config.minute),
         config.parts, {config.symbol})

MdInit ==
  /\ config \in Configs
  /\ streams = [k \in Keys |-> <<>>]
  /\ glast = [k \in Keys |-> -1]
  /\ pel = [k \in Keys |-> {}]
  /\ born = Unset
  /\ md = "off"
  /\ pos = NoId /\ mark = NoId /\ upto = NoId /\ base = Unset
  /\ key = NoKey /\ todo = <<>>
  /\ handled = [k \in Keys |-> <<>>]
  /\ before = [k \in Keys |-> {}]

(* market-data-service: XADD to the partition of the symbol it publishes.  *)
Added == MapThenSumSet(LAMBDA k : Len(streams[k]), Keys)

Publish ==
  /\ Added < config.entries
  /\ \E f \in Feeds, s \in Symbols, e \in Shapes :
       LET k == <<f, market_data_partition(s, Parts)>>
       IN  streams' = [streams EXCEPT ![k] = Append(@, e)]
  /\ UNCHANGED <<config, glast, pel, born, readerVars, before, faultVars>>

(***************************************************************************)
(* Starting.                                                               *)
(***************************************************************************)
(* run() starts the thread once, when the configuration names a stream.    *)
MaybeStart ==
  /\ md = "off" /\ stopPc = "idle"
  /\ md' = IF Subscribed = {} THEN "none" ELSE "open"
  /\ pos' = [k \in Keys |-> config.start]
  /\ UNCHANGED <<config, redisVars, mark, upto, key, todo, base, handled,
                 before, faultVars>>

(* Mutants of ensure_consumer_groups: the group is created past the end of *)
(* the stream; the group is created anew at every launch, from the start.  *)
EnsureGroupsPastEnd ==
  /\ glast' = [k \in Keys |->
                  IF config.group /\ k \in Subscribed /\ glast[k] < 0
                    THEN Len(streams[k]) + 1 ELSE glast[k]]
  /\ born' = glast'

EnsureGroupsAnew ==
  /\ glast' = [k \in Keys |-> IF config.group /\ k \in Subscribed
                                THEN 0 ELSE glast[k]]
  /\ born' = glast'

(* XGROUP CREATE ... $ MKSTREAM; BUSYGROUP leaves a group as it is.        *)
ensure_consumer_groups ==
  /\ glast' = [k \in Keys |->
                  IF config.group /\ k \in Subscribed /\ glast[k] < 0
                    THEN Len(streams[k]) ELSE glast[k]]
  /\ born' = [k \in Keys |-> IF born[k] < 0 THEN glast'[k] ELSE born[k]]

OpenClient ==
  /\ md = "open"
  /\ ensure_consumer_groups
  /\ md' = "loop"
  /\ UNCHANGED <<config, streams, pel, pos, mark, upto, key, todo, base,
                 handled, before, faultVars>>

(* Creating the groups is outside every try: an error ends the thread.     *)
OpenFails ==
  /\ \/ md = "open"
     \/ md = "backoff" /\ ~mdStop
  /\ config.group
  /\ md' = "dead"
  /\ Fault
  /\ UNCHANGED <<config, redisVars, pos, mark, upto, key, todo, base, handled,
                 before>>

(***************************************************************************)
(* Reading.  "$" is the end of the stream at the moment of the call; ">"   *)
(* is what the group has not delivered yet.                                *)
(***************************************************************************)
ReaderSeesStop ==
  /\ md \in {"loop", "backoff"} /\ mdStop
  /\ md' = "ended"
  /\ UNCHANGED <<config, redisVars, pos, mark, upto, key, todo, base, handled,
                 before, faultVars>>

ReadAfter(k) ==
  IF config.group THEN glast[k]
  ELSE IF pos[k] = Latest THEN Len(streams[k]) ELSE pos[k]

ReadBegins ==
  /\ md = "loop" /\ ~mdStop
  /\ mark' = [k \in Keys |-> IF k \in Subscribed THEN ReadAfter(k) ELSE 0]
  /\ base' = IF base = Unset THEN mark' ELSE base
  /\ md' = "read"
  /\ UNCHANGED <<config, redisVars, pos, upto, key, todo, handled, before,
                 faultVars>>

New(k) == k \in Subscribed /\ Len(streams[k]) > mark[k]

(* The last id the answer has of a stream: COUNT bounds each of them.      *)
Answer(k) == IF New(k) THEN Min({Len(streams[k]), mark[k] + Count}) ELSE mark[k]

(* XREADGROUP delivers what it answers to the group, XREAD nothing.        *)
Delivers ==
  IF config.group
  THEN /\ glast' = [k \in Keys |-> IF New(k) THEN Answer(k) ELSE glast[k]]
       /\ pel' = [k \in Keys |-> pel[k] \cup (mark[k] + 1 .. Answer(k))]
  ELSE UNCHANGED <<glast, pel>>

ReadReturns ==
  /\ md = "read" /\ \E k \in Keys : New(k)
  /\ upto' = [k \in Keys |-> Answer(k)]
  /\ Delivers
  /\ md' = "batch"
  /\ UNCHANGED <<config, streams, born, pos, mark, key, todo, base, handled, before,
                 faultVars>>

(* BLOCK 0 never returns empty.                                            *)
ReadTimesOut ==
  /\ md = "read" /\ ~config.forever /\ ~\E k \in Keys : New(k)
  /\ md' = "loop"
  /\ UNCHANGED <<config, redisVars, pos, mark, upto, key, todo, base, handled,
                 before, faultVars>>

(* A lost connection; Redis may have answered, and delivered the entries   *)
(* to the group, although the answer never arrived.                        *)
ReadFails ==
  /\ md = "read"
  /\ Delivers \/ UNCHANGED <<glast, pel>>
  /\ md' = "backoff"
  /\ Fault
  /\ UNCHANGED <<config, streams, born, pos, mark, upto, key, todo, base, handled,
                 before>>

(* Mutant of Reconnects: the positions start over with the connection.     *)
ReconnectsFromStart ==
  /\ md = "backoff" /\ ~mdStop
  /\ ensure_consumer_groups
  /\ md' = "loop"
  /\ pos' = [k \in Keys |-> config.start]
  /\ UNCHANGED <<config, streams, pel, mark, upto, key, todo, base, handled,
                 before, faultVars>>

(* After the backoff the positions are kept and the groups ensured again.  *)
Reconnects ==
  /\ md = "backoff" /\ ~mdStop
  /\ ensure_consumer_groups
  /\ md' = "loop"
  /\ UNCHANGED <<config, streams, pel, pos, mark, upto, key, todo, base,
                 handled, before, faultVars>>

(***************************************************************************)
(* Handling a response: stream by stream, entry by entry, field by field.  *)
(* The stop event is not looked at before the whole response is handled.   *)
(***************************************************************************)
(* Mutant of TakeEntry: XACK before the entry is processed.                *)
TakeEntryAcks ==
  /\ md = "batch"
  /\ \E k \in Keys :
       /\ key \in {NoKey, k}
       /\ mark[k] < upto[k]
       /\ key' = k
       /\ mark' = [mark EXCEPT ![k] = @ + 1]
       /\ pel' = [pel EXCEPT ![k] = @ \ {mark'[k]}]
       /\ todo' = streams[k][mark'[k]]
       /\ md' = IF todo' = <<>> THEN "ack" ELSE "field"
  /\ UNCHANGED <<config, streams, glast, born, pos, upto, base, handled,
                 before, faultVars>>

TakeEntry ==
  /\ md = "batch"
  /\ \E k \in Keys :
       /\ key \in {NoKey, k}
       /\ mark[k] < upto[k]
       /\ key' = k
       /\ mark' = [mark EXCEPT ![k] = @ + 1]
       /\ todo' = streams[k][mark'[k]]
       /\ md' = IF todo' = <<>> THEN "ack" ELSE "field"
  /\ UNCHANGED <<config, redisVars, pos, upto, base, handled, before,
                 faultVars>>

(* What a payload becomes: a bar, trade or quote tick, None when the JSON, *)
(* its time or its symbol is unusable, an exception for a bad number.      *)
stream_payload_to_tick(f) ==
  CASE f \in {"own", "other"} -> "tick"
    [] f = "bad" -> "None"
    [] f = "poison" -> "raises"

(* _process_one_stream_field up to the strategy: a malformed field and one *)
(* of another symbol are dropped, and so is a tick while the worker is not *)
(* accepting; "poison" raises out of the loop.                             *)
process_one_stream_field ==
  /\ md = "field"
  /\ \/ /\ stream_payload_to_tick(Head(todo)) = "raises"
        /\ md' = "dead" /\ todo' = todo
     \/ /\ Head(todo) = "own" /\ Accepting
        /\ md' = "strategy" /\ todo' = todo
     \/ /\ \/ stream_payload_to_tick(Head(todo)) = "None"
           \/ Head(todo) = "other"
           \/ Head(todo) = "own" /\ ~Accepting
        /\ todo' = Tail(todo)
        /\ md' = IF todo' = <<>> THEN "ack" ELSE "field"
  /\ UNCHANGED <<config, redisVars, pos, mark, upto, key, base, handled,
                 before, faultVars>>

(* The strategy returned or raised; either way the field is done.          *)
StrategyReturns ==
  /\ md = "strategy"
  /\ todo' = Tail(todo)
  /\ md' = IF todo' = <<>> THEN "ack" ELSE "field"
  /\ UNCHANGED <<config, redisVars, pos, mark, upto, key, base, handled,
                 before, faultVars>>

(* The last field of an entry: XACK in group mode, the position of XREAD   *)
(* after the last entry of the stream.                                     *)
EntryDone ==
  /\ md = "ack"
  /\ handled' = [handled EXCEPT ![key] = Append(@, mark[key])]
  /\ pel' = IF config.group THEN [pel EXCEPT ![key] = @ \ {mark[key]}] ELSE pel
  /\ LET last == mark[key] = upto[key]
     IN  /\ pos' = IF last /\ ~config.group
                     THEN [pos EXCEPT ![key] = upto[key]] ELSE pos
         /\ key' = IF last THEN NoKey ELSE key
         /\ md' = IF last /\ \A k \in Keys : mark[k] = upto[k]
                    THEN "loop" ELSE "batch"
  /\ UNCHANGED <<config, streams, glast, born, mark, upto, todo, base, before,
                 faultVars>>

(* XACK is outside the try that reconnects: its error ends the thread.     *)
AckFails ==
  /\ md = "ack" /\ config.group
  /\ md' = "dead"
  /\ handled' = [handled EXCEPT ![key] = Append(@, mark[key])]
  /\ Fault
  /\ UNCHANGED <<config, redisVars, pos, mark, upto, key, todo, base, before>>

MdGone  == md \in {"off", "none", "ended", "dead"}
MdStuck == md = "read" /\ config.forever

Reader ==
  \/ OpenClient \/ OpenFails \/ ReaderSeesStop \/ ReadBegins \/ ReadReturns
  \/ ReadTimesOut \/ ReadFails \/ Reconnects \/ TakeEntry
  \/ process_one_stream_field \/ EntryDone \/ AckFails
=============================================================================
