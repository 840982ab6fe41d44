----------------------------- MODULE UptimeRead -----------------------------
(***************************************************************************)
(* The uptime API: UptimeDataHandler and UptimeDataByRegionHandler         *)
(* (server.go), and the uptime part of the root page, answer from the      *)
(* daily aggregates.  A request holds one of the read permits; for each of *)
(* its monitors a goroutine takes the finished days from a cache           *)
(* (uptime_cache.go, uptime_cache_backend.go) whose misses go through a    *)
(* singleflight group, reads the current day afresh, appends it and        *)
(* summarizes.  When any of that fails it falls back to the raw rows.      *)
(*                                                                         *)
(* Meanwhile the ingester rewrites aggregates, those of past days too, the *)
(* clock passes midnight and clients go away.  An aggregate is known by    *)
(* the time it was written.  In the memory backend, and for everyone who   *)
(* waited for the same load, the finished days are one Go slice: append    *)
(* writes into its spare room, so what a goroutine reads back there may be *)
(* what another one appended.                                              *)
(***************************************************************************)
EXTENDS Integers, Sequences, FiniteSets, SequencesExt

CONSTANTS
    Requests,       \* each arrives at most once
    Monitors,
    Regions,
    Settings,       \* cache.backend, database.read_concurrency_limit, and the
                    \* endpoint that the requests ask: [backend, configured, kind]
    DayLength,      \* ticks of a day
    TTL,            \* uptimeDataCacheTTL
    gomaxprocs,
    None,
    \* Bounds:
    FirstTime, MaxTime, MaxWrites, MaxFaults

ASSUME UptimeAssumption ==
    /\ Settings \subseteq
            [backend : {"memory", "redis"}, configured : Nat, kind : {"daily", "region"}]
    /\ None \notin Requests \X Monitors
    /\ IsFiniteSet(Regions) /\ Regions # {}
    /\ DayLength \in Nat \ {0} /\ TTL \in Nat
    /\ gomaxprocs \in Nat \ {0}
    /\ FirstTime \in Nat /\ MaxTime \in Nat /\ FirstTime <= MaxTime
    /\ MaxWrites \in Nat /\ MaxFaults \in Nat

VARIABLES
    now,
    setting,    \* one of Settings
    log,        \* every aggregate row written: monitor, day, line, time
    request,    \* by request: its monitors and its progress
    fetch,      \* by request and monitor: the progress of the goroutine
    cache,      \* by key: the cached slice and when it expires
    faults

vars == <<now, setting, log, request, fetch, cache, faults>>

backend == setting.backend
kind    == setting.kind
Fetches == Requests \X Monitors
Day(t)  == t \div DayLength
Days    == 0 .. Day(MaxTime)

\* A day has one line in monitor_historical_daily_aggregate and one per region
\* in monitor_historical_region_daily_aggregate.  The two tables, their caches
\* and namespaces have nothing in common, so a behaviour looks at one of them.
Lines == IF kind = "daily" THEN {"all"} ELSE Regions
Row == [monitor : Monitors, day : Days, line : Lines, at : 0 .. MaxTime]
SameLine(a, b) == a.monitor = b.monitor /\ a.day = b.day /\ a.line = b.line

\* The tables as they are now: of each line, the row written last.
Table == {row \in log : \A other \in log : SameLine(row, other) => other.at <= row.at}

RowsOf(f)    == {row \in Table : row.monitor = f[2]}
cancelled(f) == request[f[1]].cancelled

Keys == Monitors \X Days

\* Mutant: the key does not name the day.
aggregateCacheKey_NoDay(monitor, day) == <<monitor, 0>>

aggregateCacheKey(monitor, day) == <<monitor, day>>

Key(f) == aggregateCacheKey(f[2], fetch[f].today)

resolveDuckDBReadConcurrencyLimit ==
    IF setting.configured > 0 THEN setting.configured
    ELSE IF gomaxprocs \div 2 < 1 THEN 1 ELSE gomaxprocs \div 2

\* The slice of the finished days: `array` names the load that made it and
\* `room` its spare room; a slice that is nobody else's has no name.
NoSlice  == [rows |-> {}, array |-> None, room |-> 0]
NoFetch  == [pc |-> "off", today |-> 0, began |-> 0, slice |-> NoSlice, tail |-> <<>>,
             from |-> None]
NoEntry  == [slice |-> NoSlice, expires |-> -1]

Init ==
    /\ now = FirstTime
    /\ setting \in Settings
    /\ log = {row \in Row : row.at = 0 /\ row.day <= Day(FirstTime)}
    /\ request = [q \in Requests |-> [pc |-> "new", of |-> {}, cancelled |-> FALSE]]
    /\ fetch = [f \in Fetches |-> NoFetch]
    /\ cache = [k \in Keys |-> NoEntry]
    /\ faults = 0

\* Clients that leave and failures have a bound in common.
Left == Cardinality({q \in Requests : request[q].cancelled \/ request[q].pc = "refused"})
Fault == faults + Left < MaxFaults /\ faults' = faults + 1

\* ttlCache.get keeps an entry through the instant it expires, Redis does not.
\* An expired entry is never served; whether the memory cache has deleted it yet
\* makes no difference.
Expired(entry, time) == IF backend = "memory" THEN time > entry.expires ELSE time >= entry.expires

(***************************************************************************)
(* Around the handlers.                                                    *)
(***************************************************************************)
\* A tick is longer than it takes from a query's result to the cache or the answer.
Tick ==
    /\ now < MaxTime /\ now' = now + 1
    /\ cache' = [k \in Keys |-> IF Expired(cache[k], now + 1) THEN NoEntry ELSE cache[k]]
    /\ \A f \in Fetches : fetch[f].pc \notin {"store", "append", "sum", "done"}
    /\ UNCHANGED <<setting, log, request, fetch, faults>>

\* The ingester upserts the aggregates of a day, one statement per table.
Upsert(m, day, lines) ==
    /\ Cardinality({row \in log : row.at > 0}) < MaxWrites
    /\ day <= Day(now)
    /\ log' = log \cup [monitor : {m}, day : {day}, line : lines, at : {now}]
    /\ UNCHANGED <<now, setting, request, fetch, cache, faults>>

Arrive(q, monitors) ==
    /\ request[q].pc = "new"
    /\ request' = [request EXCEPT ![q].pc = "waiting", ![q].of = monitors]
    /\ UNCHANGED <<now, setting, log, fetch, cache, faults>>

\* The client goes away.  A request that waits for a permit answers 503.
Cancel(q) ==
    /\ faults + Left < MaxFaults
    /\ \/ request[q].pc = "waiting" /\ request' = [request EXCEPT ![q].pc = "refused"]
       \/ /\ request[q].pc = "running" /\ ~request[q].cancelled
          /\ request' = [request EXCEPT ![q].cancelled = TRUE]
    /\ UNCHANGED <<now, setting, log, fetch, cache, faults>>

Holders == {q \in Requests : request[q].pc = "running"}

\* acquireDuckDBReadPermit, and the handler starts one goroutine per monitor.
withDuckDBReadPermit(q) ==
    /\ request[q].pc = "waiting"
    /\ Cardinality(Holders) < resolveDuckDBReadConcurrencyLimit
    /\ request' = [request EXCEPT ![q].pc = "running"]
    /\ fetch' = [f \in Fetches |-> IF f[1] = q /\ f[2] \in request[q].of
                                   THEN [fetch[f] EXCEPT !.pc = "get"] ELSE fetch[f]]
    /\ UNCHANGED <<now, setting, log, cache, faults>>

\* wg.Wait, the response, and the permit is given back.
Respond(q) ==
    /\ request[q].pc = "running"
    /\ \A m \in request[q].of : fetch[<<q, m>>].pc = "done"
    /\ request' = [request EXCEPT ![q].pc = "answered"]
    /\ fetch' = [f \in Fetches |-> IF f[1] = q THEN NoFetch ELSE fetch[f]]
    /\ UNCHANGED <<now, setting, log, cache, faults>>

(***************************************************************************)
(* getOrLoadContext                                                        *)
(***************************************************************************)
\* group.Do: somebody is loading the key.
InFlight(key) == \E g \in Fetches : fetch[g].pc \in {"load", "store"} /\ Key(g) = key

\* Redis stores a copy of the value and every get makes another one.
Copied(slice) == IF backend = "memory" THEN slice ELSE [slice EXCEPT !.array = None, !.room = 0]

\* The given fetches go on with a slice, or fall back to the raw rows.
Resume(fs, slice) ==
    [f \in Fetches |-> IF f \in fs THEN [fetch[f] EXCEPT !.pc = "today", !.slice = slice]
                       ELSE fetch[f]]
FallBack(fs) ==
    [f \in Fetches |-> IF f \in fs THEN [NoFetch EXCEPT !.pc = "raw"]
                       ELSE fetch[f]]

\* The day is fixed here for both reads; then the first look into the cache.
\* Redis is asked in the context of the request.
Get(f) ==
    LET key   == aggregateCacheKey(f[2], Day(now))
        begun == [fetch[f] EXCEPT !.today = Day(now), !.began = now]
    IN  /\ fetch[f].pc = "get"
        /\ \/ /\ backend = "redis" => ~cancelled(f)
              /\ fetch' = [fetch EXCEPT ![f] =
                    IF cache[key] # NoEntry THEN [begun EXCEPT !.pc = "today", !.slice = cache[key].slice]
                    ELSE [begun EXCEPT !.pc = "join"]]
              /\ UNCHANGED faults
           \/ /\ backend = "redis"
              /\ (cancelled(f) /\ UNCHANGED faults) \/ Fault
              /\ fetch' = FallBack({f})
        /\ UNCHANGED <<now, setting, log, request, cache>>

\* Mutant: the leader does not look into the cache again.
Lead_NoSecondLook(f) ==
    /\ fetch[f].pc = "join" /\ ~InFlight(Key(f))
    /\ fetch' = [fetch EXCEPT ![f].pc = "load"]
    /\ UNCHANGED <<now, setting, log, request, cache, faults>>

\* group.Do with nobody loading: a second look, then the load.
Lead(f) ==
    /\ fetch[f].pc = "join" /\ ~InFlight(Key(f))
    /\ IF cache[Key(f)] # NoEntry
       THEN fetch' = Resume({f}, cache[Key(f)].slice)
       ELSE fetch' = [fetch EXCEPT ![f].pc = "load"]
    /\ UNCHANGED <<now, setting, log, request, cache, faults>>

\* group.Do with somebody loading.
Join(f) ==
    /\ fetch[f].pc = "join" /\ InFlight(Key(f))
    /\ fetch' = [fetch EXCEPT ![f].pc = "wait"]
    /\ UNCHANGED <<now, setting, log, request, cache, faults>>

\* Everyone the flight of f brings home.
Flown(f) == {f} \cup {g \in Fetches : fetch[g].pc = "wait" /\ Key(g) = Key(f)}

\* Mutant: the current day is loaded with the finished ones.
Load_Today(f) ==
    LET rows == {row \in RowsOf(f) : row.day <= fetch[f].today}
    IN  /\ fetch[f].pc = "load"
        /\ \E room \in IF rows = {} THEN {0} ELSE 0 .. Cardinality(Lines) :
                fetch' = [fetch EXCEPT ![f].pc = "store",
                                       ![f].slice = [rows |-> rows, array |-> f, room |-> room]]
        /\ UNCHANGED <<now, setting, log, request, cache, faults>>

\* Mutant: the load runs in the context of its first caller.
Load_CallersContext(f) ==
    LET rows == {row \in RowsOf(f) : row.day < fetch[f].today}
    IN  /\ fetch[f].pc = "load"
        /\ IF cancelled(f)
           THEN fetch' = FallBack(Flown(f))
           ELSE fetch' = [fetch EXCEPT ![f].pc = "store",
                                       ![f].slice = [rows |-> rows, array |-> f, room |-> 0]]
        /\ UNCHANGED <<now, setting, log, request, cache, faults>>

\* Mutant: the load waits for a permit of its own.
Load_TakesPermit(f) ==
    LET rows == {row \in RowsOf(f) : row.day < fetch[f].today}
    IN  /\ fetch[f].pc = "load"
        /\ Cardinality(Holders) < resolveDuckDBReadConcurrencyLimit
        /\ fetch' = [fetch EXCEPT ![f].pc = "store",
                                  ![f].slice = [rows |-> rows, array |-> f, room |-> 0]]
        /\ UNCHANGED <<now, setting, log, request, cache, faults>>

\* loadHistorical...BeforeDate, without the caller's cancellation.  How much
\* room append has left in the slice depends on the number of days.
Load(f) ==
    LET rows == {row \in RowsOf(f) : row.day < fetch[f].today}
    IN  /\ fetch[f].pc = "load"
        /\ \E room \in IF rows = {} THEN {0} ELSE 0 .. Cardinality(Lines) :
                fetch' = [fetch EXCEPT ![f].pc = "store",
                                       ![f].slice = [rows |-> rows, array |-> f, room |-> room]]
        /\ UNCHANGED <<now, setting, log, request, cache, faults>>

\* The value is cached and handed to everyone who joined.
Store(f) ==
    /\ fetch[f].pc = "store"
    /\ cache' = [cache EXCEPT ![Key(f)] = [slice |-> Copied(fetch[f].slice), expires |-> now + TTL]]
    /\ fetch' = Resume(Flown(f), fetch[f].slice)
    /\ UNCHANGED <<now, setting, log, request, faults>>

\* The query fails, or Redis: at the second look or, after or before storing the
\* value, at the set.  Everyone who joined gets the error.
LoadFails(f) ==
    /\ Fault
    /\ fetch[f].pc = "load" \/ (fetch[f].pc = "store" /\ backend = "redis")
    /\ \/ UNCHANGED cache
       \/ /\ fetch[f].pc = "store"
          /\ cache' = [cache EXCEPT ![Key(f)] = [slice |-> Copied(fetch[f].slice), expires |-> now + TTL]]
    /\ fetch' = FallBack(Flown(f))
    /\ UNCHANGED <<now, setting, log, request>>

(***************************************************************************)
(* fetchFromAggregateMonitorHistorical and its regional counterpart        *)
(***************************************************************************)
\* loadHistorical...ForDate, in the request's context; the order of the regions
\* of a day is not specified.
Today(f) ==
    /\ fetch[f].pc = "today"
    /\ \/ /\ ~cancelled(f)
          /\ \E rows \in SetToSeqs({row \in RowsOf(f) : row.day = fetch[f].today}) :
                fetch' = [fetch EXCEPT ![f].pc = "append", ![f].tail = [k \in DOMAIN rows |-> {rows[k]}]]
          /\ UNCHANGED faults
       \/ /\ (cancelled(f) /\ UNCHANGED faults) \/ Fault
          /\ fetch' = FallBack({f})
    /\ UNCHANGED <<now, setting, log, request, cache>>

\* append: in place when the room suffices, and then whoever has appended to the
\* same array and not summarized yet may read these rows instead of its own.
AppendToday(f) ==
    LET mine    == fetch[f]
        inPlace == mine.slice.array # None /\ Len(mine.tail) <= mine.slice.room
        shares(g) == fetch[g].pc = "sum" /\ fetch[g].slice.array = mine.slice.array
    IN  /\ mine.pc = "append"
        /\ fetch' =
            IF mine.slice.rows = {} /\ mine.tail = <<>> THEN FallBack({f})
            ELSE [g \in Fetches |->
                    IF g = f
                    THEN [mine EXCEPT !.pc = "sum",
                                      !.slice.array = IF inPlace THEN @ ELSE None]
                    ELSE IF inPlace /\ shares(g)
                    THEN [fetch[g] EXCEPT !.tail = [k \in DOMAIN @ |->
                            IF k <= Len(mine.tail) THEN @[k] \cup mine.tail[k] ELSE @[k]]]
                    ELSE fetch[g]]
        /\ UNCHANGED <<now, setting, log, request, cache, faults>>

\* Done(f, ...): what is left of a fetch is its answer.
Done(f, from, rows, tail) ==
    fetch' = [fetch EXCEPT ![f] = [@ EXCEPT !.pc = "done", !.from = from, !.tail = tail,
                                            !.slice = [NoSlice EXCEPT !.rows = rows]]]

\* summarize...Aggregates: one of the possible rows at each place of the tail.
Summarize(f) ==
    /\ fetch[f].pc = "sum"
    /\ \E tail \in [DOMAIN fetch[f].tail -> UNION Range(fetch[f].tail)] :
            /\ \A k \in DOMAIN tail : tail[k] \in fetch[f].tail[k]
            /\ Done(f, "aggregates", fetch[f].slice.rows, tail)
    /\ UNCHANGED <<now, setting, log, request, cache, faults>>

\* The raw rows, read in the request's context.  When that fails the status page
\* shows an empty history, and the regional request answers 500.
Raw(f) ==
    /\ fetch[f].pc = "raw"
    /\ \/ /\ ~cancelled(f)
          /\ Done(f, "raw", {}, <<>>)
          /\ UNCHANGED faults
       \/ /\ (cancelled(f) /\ UNCHANGED faults) \/ Fault
          /\ Done(f, "failed", {}, <<>>)
    /\ UNCHANGED <<now, setting, log, request, cache>>

-----------------------------------------------------------------------------
Fetch(f) ==
    \/ Get(f) \/ Lead(f) \/ Join(f) \/ Load(f) \/ Store(f)
    \/ Today(f) \/ AppendToday(f) \/ Summarize(f) \/ Raw(f)

Serve(q) == withDuckDBReadPermit(q) \/ Respond(q) \/ \E m \in Monitors : Fetch(<<q, m>>)

Clients ==
    \E q \in Requests :
        \/ kind = "daily" /\ Arrive(q, Monitors)
        \/ kind = "region" /\ \E m \in Monitors : Arrive(q, {m})
        \/ Cancel(q)

Ingester ==
    \E m \in Monitors, day \in Days, lines \in SUBSET Lines \ {{}} : Upsert(m, day, lines)

Next ==
    \/ \E q \in Requests : Serve(q)
    \/ \E f \in Fetches : LoadFails(f)
    \/ Clients
    \/ Ingester
    \/ Tick

Spec == Init /\ [][Next]_vars

\* The goroutines of a request are scheduled, and the semaphore lets it in when
\* there is room.  A request arrives once, so weak fairness is enough.
FairSpec == Spec /\ \A q \in Requests : WF_vars(Serve(q))
-----------------------------------------------------------------------------
Answered(f) == fetch[f].pc = "done" /\ fetch[f].from = "aggregates"

\* The lines of the answer: the finished days, then the current one.
Finished(f) == fetch[f].slice.rows
Current(f)  == fetch[f].tail

\* The averages and the age count every line of the status page's history once:
\* the cached days and the current one neither overlap nor repeat, midnight,
\* other requests appending to the same slice and both backends included.
EachDayOnce ==
    \A f \in Fetches : Answered(f) /\ kind = "daily" =>
        /\ \A a, b \in Finished(f) : SameLine(a, b) => a = b
        /\ \A k \in DOMAIN Current(f) :
                /\ \A a \in Finished(f) : ~SameLine(a, Current(f)[k])
                /\ \A j \in 1 .. k - 1 : ~SameLine(Current(f)[j], Current(f)[k])

\* No aggregate stays hidden behind the cache for longer than its TTL: what was
\* written before that is in the answer, or something newer.  (Lines of the
\* current day of several regions are left out: see AppendToday.)
NothingHidden ==
    \A f \in Fetches : Answered(f) =>
        \A row \in log :
            /\ row.monitor = f[2]
            /\ row.day < fetch[f].today \/ (kind = "daily" /\ row.day = fetch[f].today)
            /\ row.at < fetch[f].began - TTL
            => \E seen \in Finished(f) \cup Range(Current(f)) :
                    SameLine(seen, row) /\ seen.at >= row.at

\* A key is loaded once per TTL however many requests miss it at the same time:
\* nobody replaces an entry that others may still be served.
OneLoad ==
    [][\A k \in Keys : cache'[k] # cache[k] => cache[k] = NoEntry \/ now' > now]_vars

\* Another client that goes away, the leader of the load among them, costs
\* nobody the aggregates: with them there, only the own client or a failed query
\* makes a request answer from anything else.
CancelIsPrivate ==
    \A f \in Fetches :
        fetch[f].pc = "done" /\ ~cancelled(f) /\ faults = 0 => fetch[f].from = "aggregates"

\* Every request is eventually answered and gives its permit back.
RequestsAnswered == <>[](\A q \in Requests : request[q].pc \notin {"waiting", "running"})
=============================================================================
