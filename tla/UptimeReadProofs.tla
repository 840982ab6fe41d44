-------------------------- MODULE UptimeReadProofs --------------------------
(***************************************************************************)
(* Proofs about UptimeRead for every set of requests, monitors and         *)
(* regions, day length, TTL, number of permits and of writes.              *)
(***************************************************************************)
EXTENDS UptimeRead, FiniteSetTheorems, WellFoundedInduction, TLAPS

(***************************************************************************)
(* What a slice of finished days, a tail of the current day and the answer *)
(* made of them promise: stated of values, for it is the same promise of   *)
(* every request that is handed the slice and of the cache that keeps it.  *)
(***************************************************************************)
AnyLine == Regions \cup {"all"}
LogRow  == [monitor : Monitors, day : Days, line : AnyLine, at : Nat]

\* Finished days of a monitor, each line once.
SliceRows(seen, m, today) ==
    /\ seen \subseteq LogRow
    /\ \A a \in seen : a.monitor = m /\ a.day < today
    /\ \A a, b \in seen : SameLine(a, b) => a = b
    /\ today > 0 => seen # {}

\* Nothing that was written about the finished days before `time` is missing.
Covers(written, seen, m, today, time) ==
    \A row \in written :
        row.monitor = m /\ row.day < today /\ row.at < time =>
            \E a \in seen : SameLine(a, row) /\ a.at >= row.at

\* The current day of a monitor, at each place one or more rows, which others
\* that append to the same array may have put there.
TailRows(daily, written, tail, m, today, time) ==
    /\ tail \in Seq(SUBSET LogRow)
    /\ \A k \in 1 .. Len(tail) : \A a \in tail[k] : a.monitor = m /\ a.day = today
    /\ daily =>
        /\ Len(tail) <= 1
        /\ \A row \in written :
            row.monitor = m /\ row.day = today /\ row.at < time =>
                Len(tail) = 1 /\ \A a \in tail[1] : SameLine(a, row) /\ a.at >= row.at

\* The current day of a daily answer.
AnswerRows(written, tail, m, today, time) ==
    /\ \A k \in DOMAIN tail : k = 1 /\ tail[k].monitor = m /\ tail[k].day = today
    /\ \A row \in written :
        row.monitor = m /\ row.day = today /\ row.at < time =>
            1 \in DOMAIN tail /\ SameLine(tail[1], row) /\ tail[1].at >= row.at

Steps   == {"off", "get", "join", "wait", "load", "store", "today", "append", "sum", "raw", "done"}
Begun   == {"join", "wait", "load", "store", "today", "append", "sum", "done"}
Holding == {"today", "append", "sum", "done"}

\* A goroutine for the monitor m.
FetchOK(daily, written, time, m, r) ==
    /\ DOMAIN r = {"pc", "today", "began", "slice", "tail", "from"}
    /\ DOMAIN r.slice = {"rows", "array", "room"} /\ r.slice.array \in Fetches \cup {None}
    /\ r.pc \in Steps
    /\ r.pc \in Begun /\ (r.pc = "done" => r.from = "aggregates") =>
        /\ r.today \in Days /\ r.began \in Nat /\ r.began <= time
        /\ r.pc \in Holding \cup {"store"} => SliceRows(r.slice.rows, m, r.today)
        /\ r.pc = "store" => Covers(written, r.slice.rows, m, r.today, time)
        /\ r.pc \in Holding => Covers(written, r.slice.rows, m, r.today, r.began - TTL)
        /\ r.pc \in {"append", "sum"} => TailRows(daily, written, r.tail, m, r.today, time)
        /\ r.pc = "append" => r.slice.rows # {} \/ Len(r.tail) > 0
        /\ r.pc = "done" /\ daily => AnswerRows(written, r.tail, m, r.today, r.began - TTL)

EntryOK(written, time, k, entry) ==
    entry # NoEntry =>
        /\ DOMAIN entry = {"slice", "expires"}
        /\ DOMAIN entry.slice = {"rows", "array", "room"}
        /\ entry.slice.array \in Fetches \cup {None}
        /\ entry.expires \in Int /\ time <= entry.expires /\ entry.expires - TTL <= time
        /\ SliceRows(entry.slice.rows, k[1], k[2])
        /\ Covers(written, entry.slice.rows, k[1], k[2], entry.expires - TTL)

(***************************************************************************)
(* The invariant.                                                          *)
(***************************************************************************)
\* Every monitor had all its lines when the process started, and time passes.
LogInv ==
    /\ setting \in Settings
    /\ now \in Nat /\ now <= MaxTime
    /\ log \subseteq LogRow
    /\ \A row \in log : row.at <= now /\ row.line \in Lines
    /\ \A m \in Monitors : \E row \in log : row.monitor = m /\ row.day = 0

FetchInv ==
    /\ DOMAIN fetch = Fetches
    /\ \A f \in Fetches : FetchOK(kind = "daily", log, now, f[2], fetch[f])

CacheInv ==
    /\ DOMAIN cache = Keys
    /\ \A k \in Keys : EntryOK(log, now, k, cache[k])

\* One load per key, and none while the cache has it.
LeaderInv ==
    \A f \in Fetches : fetch[f].pc \in {"load", "store"} =>
        /\ \A g \in Fetches : fetch[g].pc \in {"load", "store"} /\ Key(g) = Key(f) => g = f
        /\ cache[Key(f)] = NoEntry

\* An array belongs to one key, and was made by a load of it that is over.
Uses(k, array) ==
    \/ cache[k].slice.array = array
    \/ \E g \in Fetches : /\ fetch[g].pc \in {"store", "today", "append", "sum"}
                          /\ Key(g) = k /\ fetch[g].slice.array = array

Unmade(f) ==
    \/ request[f[1]].pc \in {"new", "waiting"}
    \/ fetch[f].pc \in {"get", "join", "wait", "load"}

ArrayInv ==
    /\ \A f \in Fetches : Unmade(f) => \A k \in Keys : ~Uses(k, f)
    /\ \A f \in Fetches : \A k, j \in Keys : Uses(k, f) /\ Uses(j, f) => k = j

\* As long as nothing failed, only who went away lost the aggregates.
CancelInv ==
    faults = 0 => \A f \in Fetches :
        fetch[f].pc = "raw" \/ (fetch[f].pc = "done" /\ fetch[f].from # "aggregates") => cancelled(f)

\* Goroutines run for requests that hold a permit.
RequestInv ==
    /\ faults \in Nat
    /\ DOMAIN request = Requests
    /\ \A q \in Requests : DOMAIN request[q] = {"pc", "of", "cancelled"}
    /\ \A f \in Fetches : fetch[f].pc # "off" => request[f[1]].pc \notin {"new", "waiting", "refused"}

UptimeInv ==
    LogInv /\ FetchInv /\ CacheInv /\ LeaderInv /\ ArrayInv /\ CancelInv /\ RequestInv

(***************************************************************************)
(* Days, lines and what the tables have of them.                           *)
(***************************************************************************)
\* A later time is not on an earlier day.
LEMMA DayMonotone ==
    ASSUME NEW a \in Nat, NEW b \in Nat, a <= b
    PROVE  Day(a) \in Nat /\ Day(b) \in Nat /\ Day(a) <= Day(b)
<1> DEFINE d == DayLength
<1>1. d \in Nat /\ d > 0
  BY UptimeAssumption
<1> HIDE DEF d
<1>2. \A n \in Nat : n \div d \in Nat /\ d * (n \div d) <= n /\ n < d * (n \div d) + d
  BY <1>1
<1>3. \A x, y \in Nat : y + 1 <= x => d * y + d <= d * x
  <2> SUFFICES ASSUME NEW x \in Nat, NEW y \in Nat, y + 1 <= x
               PROVE  d * y + d <= d * x
    OBVIOUS
  <2>1. x - (y + 1) \in Nat /\ x = y + 1 + (x - (y + 1))
    OBVIOUS
  <2>2. \A z \in Nat : d * (y + 1 + z) = d * y + d + d * z /\ d * z \in Nat
    BY <1>1
  <2>3. d * x = d * y + d + d * (x - (y + 1)) /\ d * (x - (y + 1)) \in Nat
    BY <2>1, <2>2
  <2>4. d * y \in Nat /\ d * x \in Nat
    BY <1>1
  <2> QED
    BY <1>1, <2>3, <2>4
<1>4. a \div d <= b \div d
  <2> SUFFICES ASSUME ~(a \div d <= b \div d) PROVE FALSE
    OBVIOUS
  <2> DEFINE qa == a \div d
             qb == b \div d
  <2>1. /\ qa \in Nat /\ qb \in Nat
        /\ d * qa <= a /\ b < d * qb + d
    BY <1>2
  <2>2. ~(qa <= qb)
    OBVIOUS
  <2> HIDE DEF qa, qb
  <2>3. qb + 1 <= qa
    BY <2>1, <2>2
  <2>4. d * qb + d <= d * qa
    BY <1>3, <2>1, <2>3
  <2>5. d * qa \in Nat /\ d * qb \in Nat
    BY <1>1, <2>1
  <2> QED
    BY <1>1, <2>1, <2>4, <2>5
<1> QED
  BY <1>1, <1>2, <1>4 DEF Day, d

\* The current day is a day.
LEMMA TodayIsDay ==
    ASSUME LogInv
    PROVE  Day(now) \in Days
BY DayMonotone, UptimeAssumption DEF LogInv, Days

\* The lines of a behaviour are lines.
LEMMA LinesType == Lines \subseteq AnyLine /\ (kind = "daily" => Lines = {"all"}) /\ IsFiniteSet(Lines)
BY UptimeAssumption, FS_Singleton DEF Lines, AnyLine

\* Of each line that was ever written the table has the row written last.
LEMMA TableHasLine ==
    ASSUME LogInv, NEW row \in log
    PROVE  \E a \in Table : SameLine(a, row) /\ a.at >= row.at
<1> DEFINE Same == {other \in log : SameLine(row, other)}
           T    == {now - other.at : other \in Same}
           Less == OpToRel(<, Nat)
<1>1. \A other \in log : other.at \in Nat /\ other.at <= now /\ now \in Nat
  BY DEF LogInv, LogRow
<1>2. T \subseteq Nat /\ T # {}
  <2>1. row \in Same
    BY DEF SameLine
  <2> QED
    BY <1>1, <2>1
<1>3. PICK t \in T : \A u \in T : ~ (<<u, t>> \in Less)
  <2>1. IsWellFoundedOn(Less, Nat)
    BY NatLessThanWellFounded
  <2> HIDE DEF Less, T
  <2> QED
    BY <1>2, <2>1, WFMin
<1>4. \A u \in T : ~(u < t)
  <2>1. \A u, v \in Nat : u < v => <<u, v>> \in Less
    BY DEF OpToRel
  <2> HIDE DEF Less
  <2> QED
    BY <1>2, <1>3, <2>1
<1>5. PICK last \in Same : t = now - last.at
  OBVIOUS
<1>6. \A other \in Same : other.at <= last.at
  <2> TAKE other \in Same
  <2>1. now - other.at \in T
    OBVIOUS
  <2>2. ~(now - other.at < now - last.at)
    BY <1>4, <1>5, <2>1
  <2> HIDE DEF T
  <2> QED
    BY <1>1, <2>2
<1>7. \A other \in log : SameLine(last, other) => other \in Same
  BY <1>5 DEF SameLine
<1>8. last \in Table
  BY <1>5, <1>6, <1>7 DEF Table
<1>9. SameLine(last, row) /\ last.at >= row.at
  <2>1. row \in Same
    BY DEF SameLine
  <2>2. row.at <= last.at
    BY <1>6, <2>1
  <2>3. SameLine(last, row)
    BY <1>5 DEF SameLine
  <2> QED
    BY <1>1, <1>5, <2>2, <2>3
<1> QED
  BY <1>8, <1>9

\* The table has each line once.
LEMMA TableOnce ==
    ASSUME LogInv
    PROVE  /\ Table \subseteq log
           /\ \A a, b \in Table : SameLine(a, b) => a = b
<1>1. Table \subseteq log
  BY DEF Table
<1>2. ASSUME NEW a \in Table, NEW b \in Table, SameLine(a, b) PROVE a = b
  <2>1. a \in LogRow /\ b \in LogRow
    BY <1>1 DEF LogInv
  <2>2. a.at <= b.at /\ b.at <= a.at
    BY <1>2 DEF Table, SameLine
  <2>3. a.at = b.at
    BY <2>1, <2>2 DEF LogRow
  <2> QED
    BY <1>2, <2>1, <2>3 DEF LogRow, SameLine
<1> QED
  BY <1>1, <1>2

\* A load reads the finished days of its monitor, each line once and at its
\* latest.
LEMMA LoadedRows ==
    ASSUME LogInv, NEW m \in Monitors, NEW today \in Days, NEW time,
           NEW seen, seen = {row \in Table : row.monitor = m /\ row.day < today}
    PROVE  SliceRows(seen, m, today) /\ Covers(log, seen, m, today, time)
<1>1. seen \subseteq LogRow /\ \A a \in seen : a.monitor = m /\ a.day < today
  BY TableOnce DEF LogInv
<1>2. \A a, b \in seen : SameLine(a, b) => a = b
  BY TableOnce
<1>3. today > 0 => seen # {}
  <2> SUFFICES ASSUME today > 0 PROVE seen # {}
    OBVIOUS
  <2>1. PICK row \in log : row.monitor = m /\ row.day = 0
    BY DEF LogInv
  <2>2. PICK a \in Table : SameLine(a, row)
    BY TableHasLine
  <2> QED
    BY <2>1, <2>2 DEF SameLine
<1>4. Covers(log, seen, m, today, time)
  <2> SUFFICES ASSUME NEW row \in log, row.monitor = m, row.day < today
               PROVE  \E a \in seen : SameLine(a, row) /\ a.at >= row.at
    BY DEF Covers
  <2>1. PICK a \in Table : SameLine(a, row) /\ a.at >= row.at
    BY TableHasLine
  <2> QED
    BY <2>1 DEF SameLine
<1> QED
  BY <1>1, <1>2, <1>3, <1>4 DEF SliceRows

\* The current day is read whole: the line of a daily request, or the lines of
\* the regions in some order.
LEMMA CurrentRows ==
    ASSUME LogInv, NEW m \in Monitors, NEW today \in Days,
           NEW part, part = {row \in Table : row.monitor = m /\ row.day = today},
           NEW order \in SetToSeqs(part), NEW tail, tail = [k \in DOMAIN order |-> {order[k]}]
    PROVE  /\ TailRows(kind = "daily", log, tail, m, today, now)
           /\ today = 0 => Len(tail) > 0
<1>1. /\ part \subseteq LogRow /\ part \subseteq log
      /\ \A a \in part : a.monitor = m /\ a.day = today /\ a.line \in Lines
      /\ \A a, b \in part : a.line = b.line => a = b
  BY TableOnce DEF LogInv, SameLine
<1>2. IsFiniteSet(part) /\ Cardinality(part) <= Cardinality(Lines)
  <2> DEFINE line == [a \in part |-> a.line]
  <2>1. line \in Injection(part, Lines)
    BY <1>1 DEF Injection, IsInjective
  <2> HIDE DEF line
  <2> QED
    BY <2>1, LinesType, FS_Injection
<1> DEFINE n == Cardinality(part)
<1>3. n \in Nat
  BY <1>2, FS_CardinalityType
<1>4. order \in [1 .. n -> part]
  BY DEF SetToSeqs
<1> HIDE DEF n
<1>5. /\ tail = [k \in 1 .. n |-> {order[k]}] /\ DOMAIN tail = 1 .. n
      /\ \A k \in 1 .. n : tail[k] = {order[k]} /\ order[k] \in part
  BY <1>4
<1>6. tail \in Seq(SUBSET LogRow) /\ Len(tail) = n
  <2>1. tail \in [1 .. n -> SUBSET LogRow]
    BY <1>1, <1>5
  <2> QED
    BY <1>3, <2>1
<1>7. \A k \in 1 .. Len(tail) : \A a \in tail[k] : a.monitor = m /\ a.day = today
  BY <1>1, <1>5, <1>6
<1>8. part # {} => n > 0
  BY <1>2, <1>3, FS_EmptySet DEF n
<1>9. today = 0 => Len(tail) > 0
  <2> SUFFICES ASSUME today = 0 PROVE part # {}
    BY <1>6, <1>8
  <2>1. PICK row \in log : row.monitor = m /\ row.day = 0
    BY DEF LogInv
  <2>2. PICK a \in Table : SameLine(a, row)
    BY TableHasLine
  <2> QED
    BY <2>1, <2>2 DEF SameLine
<1>10. ASSUME kind = "daily"
       PROVE  /\ Len(tail) <= 1
              /\ \A row \in log : row.monitor = m /\ row.day = today =>
                    Len(tail) = 1 /\ \A a \in tail[1] : SameLine(a, row) /\ a.at >= row.at
  <2>1. n <= 1
    BY <1>2, <1>3, <1>10, LinesType, FS_Singleton DEF n
  <2>2. ASSUME NEW row \in log, row.monitor = m, row.day = today
        PROVE  Len(tail) = 1 /\ \A a \in tail[1] : SameLine(a, row) /\ a.at >= row.at
    <3>1. PICK a \in Table : SameLine(a, row) /\ a.at >= row.at
      BY TableHasLine
    <3>2. a \in part
      BY <2>2, <3>1 DEF SameLine
    <3>3. n = 1
      BY <1>3, <1>8, <2>1, <3>2
    <3>4. order[1] \in part /\ order[1].line = "all" /\ a.line = "all"
      BY <1>1, <1>5, <1>10, <3>2, <3>3, LinesType
    <3>5. order[1] = a
      BY <1>1, <3>2, <3>4
    <3> QED
      BY <1>5, <1>6, <3>1, <3>3, <3>5
  <2> QED
    BY <1>6, <2>1, <2>2
<1> QED
  BY <1>6, <1>7, <1>9, <1>10 DEF TailRows

(***************************************************************************)
(* Promises are kept while others write and time passes.                   *)
(***************************************************************************)
\* What covers up to a time covers up to an earlier one, and rows written since
\* are not covered any worse.
LEMMA CoversStable ==
    ASSUME NEW written \in SUBSET LogRow, NEW more \in SUBSET LogRow, NEW seen, NEW m,
           NEW today, NEW time \in Int, NEW until \in Int, until <= time,
           Covers(written, seen, m, today, time),
           \A row \in more : row \in written \/ row.at >= time
    PROVE  Covers(more, seen, m, today, until)
<1>1. \A row \in more : row.at < until => row \in written /\ row.at < time
  BY DEF LogRow
<1> QED
  BY <1>1 DEF Covers

\* A row that is written now breaks no promise: they are all about the past.
LEMMA FetchGrows ==
    ASSUME NEW daily, NEW written \in SUBSET LogRow, NEW more \in SUBSET LogRow,
           NEW time \in Nat, NEW m, NEW r, FetchOK(daily, written, time, m, r),
           \A row \in more : row \in written \/ row.at = time
    PROVE  FetchOK(daily, more, time, m, r)
<1>1. TTL \in Nat
  BY UptimeAssumption
<1> DEFINE begun == r.pc \in Begun /\ (r.pc = "done" => r.from = "aggregates")
<1>2. ASSUME begun
      PROVE  /\ r.today \in Days /\ r.began \in Nat /\ r.began <= time
             /\ r.began - TTL \in Int /\ r.began - TTL <= time
  BY <1>1, <1>2 DEF FetchOK
<1>3. ASSUME NEW until \in Int, until <= time
      PROVE  \A row \in more : row \in written \/ row.at >= until
  BY <1>3 DEF LogRow
<1>4. ASSUME begun, r.pc = "store" PROVE Covers(more, r.slice.rows, m, r.today, time)
  <2>1. Covers(written, r.slice.rows, m, r.today, time)
    BY <1>4 DEF FetchOK
  <2> QED
    BY <1>3, <2>1, CoversStable
<1>5. ASSUME begun, r.pc \in Holding PROVE Covers(more, r.slice.rows, m, r.today, r.began - TTL)
  <2>1. Covers(written, r.slice.rows, m, r.today, r.began - TTL)
    BY <1>5 DEF FetchOK
  <2> QED
    BY <1>2, <1>3, <1>5, <2>1, CoversStable
<1>6. ASSUME begun, r.pc \in {"append", "sum"} PROVE TailRows(daily, more, r.tail, m, r.today, time)
  <2>1. TailRows(daily, written, r.tail, m, r.today, time)
    BY <1>6 DEF FetchOK
  <2>2. \A row \in more : row.at < time => row \in written
    BY DEF LogRow
  <2> QED
    BY <2>1, <2>2 DEF TailRows
<1>7. ASSUME begun, r.pc = "done", daily PROVE AnswerRows(more, r.tail, m, r.today, r.began - TTL)
  <2>1. AnswerRows(written, r.tail, m, r.today, r.began - TTL)
    BY <1>7 DEF FetchOK
  <2>2. \A row \in more : row.at < r.began - TTL => row \in written
    BY <1>2, <1>7 DEF LogRow
  <2> QED
    BY <2>1, <2>2 DEF AnswerRows
<1> QED
  BY <1>4, <1>5, <1>6, <1>7 DEF FetchOK

\* A cached entry is not told of rows that are written later.
LEMMA EntryGrows ==
    ASSUME NEW written \in SUBSET LogRow, NEW more \in SUBSET LogRow,
           NEW time \in Nat, NEW k, NEW entry, EntryOK(written, time, k, entry),
           \A row \in more : row \in written \/ row.at = time
    PROVE  EntryOK(more, time, k, entry)
<1> SUFFICES ASSUME entry # NoEntry
             PROVE  Covers(more, entry.slice.rows, k[1], k[2], entry.expires - TTL)
  BY DEF EntryOK
<1>1. /\ TTL \in Nat /\ entry.expires \in Int /\ entry.expires - TTL <= time
      /\ Covers(written, entry.slice.rows, k[1], k[2], entry.expires - TTL)
  BY UptimeAssumption DEF EntryOK
<1>2. \A row \in more : row \in written \/ row.at >= entry.expires - TTL
  BY <1>1 DEF LogRow
<1>3. entry.expires - TTL \in Int
  BY <1>1
<1> QED
  BY <1>1, <1>2, <1>3, CoversStable

\* Time only passes where nobody is about to answer for this moment.
LEMMA FetchLater ==
    ASSUME NEW daily, NEW written, NEW time \in Nat, NEW m, NEW r,
           FetchOK(daily, written, time, m, r), r.pc \notin {"store", "append", "sum"}
    PROVE  FetchOK(daily, written, time + 1, m, r)
BY DEF FetchOK

(***************************************************************************)
(* Handing slices on.                                                      *)
(***************************************************************************)
\* A goroutine that has not begun, or fell back, promises nothing.
LEMMA IdleFetchOK ==
    ASSUME NEW daily, NEW written, NEW time, NEW m
    PROVE  /\ FetchOK(daily, written, time, m, NoFetch)
           /\ FetchOK(daily, written, time, m, [NoFetch EXCEPT !.pc = "raw"])
<1>1. /\ DOMAIN NoFetch = {"pc", "today", "began", "slice", "tail", "from"} /\ NoFetch.pc = "off"
      /\ DOMAIN NoFetch.slice = {"rows", "array", "room"} /\ NoFetch.slice.array = None
  BY DEF NoFetch, NoSlice
<1> QED
  BY <1>1 DEF FetchOK, Steps, Begun

\* The promise a slice must keep to be handed to a goroutine.
Serves(written, slice, m, today, until) ==
    /\ DOMAIN slice = {"rows", "array", "room"} /\ slice.array \in Fetches \cup {None}
    /\ SliceRows(slice.rows, m, today)
    /\ Covers(written, slice.rows, m, today, until)

\* A goroutine that is handed such a slice goes on with it.
LEMMA ResumedOK ==
    ASSUME NEW daily, NEW written, NEW time, NEW m, NEW r, FetchOK(daily, written, time, m, r),
           r.pc \in {"join", "wait", "store"},
           NEW slice, Serves(written, slice, m, r.today, r.began - TTL)
    PROVE  FetchOK(daily, written, time, m, [r EXCEPT !.pc = "today", !.slice = slice])
<1> DEFINE x == [r EXCEPT !.pc = "today", !.slice = slice]
<1>1. /\ DOMAIN x = DOMAIN r /\ x.pc = "today" /\ x.slice = slice
      /\ x.today = r.today /\ x.began = r.began
  BY DEF FetchOK
<1> HIDE DEF x
<1>2. r.today \in Days /\ r.began \in Nat /\ r.began <= time
      /\ DOMAIN r = {"pc", "today", "began", "slice", "tail", "from"}
  BY DEF FetchOK, Begun
<1>3. FetchOK(daily, written, time, m, x)
  BY <1>1, <1>2 DEF FetchOK, Serves, Steps, Begun, Holding
<1> QED
  BY <1>3 DEF x

\* A cached slice serves whoever asks before the entry expires.
LEMMA EntryServes ==
    ASSUME NEW written \in SUBSET LogRow, NEW time \in Nat, NEW k, NEW entry,
           EntryOK(written, time, k, entry), entry # NoEntry,
           NEW began \in Nat, began <= time
    PROVE  Serves(written, entry.slice, k[1], k[2], began - TTL)
<1>1. /\ entry.expires \in Int /\ time <= entry.expires /\ TTL \in Nat
      /\ Covers(written, entry.slice.rows, k[1], k[2], entry.expires - TTL)
  BY UptimeAssumption DEF EntryOK
<1>2. began - TTL \in Int /\ entry.expires - TTL \in Int /\ began - TTL <= entry.expires - TTL
  BY <1>1
<1>3. Covers(written, entry.slice.rows, k[1], k[2], began - TTL)
  BY <1>1, <1>2, CoversStable
<1> QED
  BY <1>3 DEF Serves, EntryOK

\* A slice that was just loaded serves whoever began before.
LEMMA LoadServes ==
    ASSUME NEW daily, NEW written \in SUBSET LogRow, NEW time \in Nat, NEW m, NEW r,
           FetchOK(daily, written, time, m, r), r.pc = "store",
           NEW began \in Nat, began <= time
    PROVE  Serves(written, r.slice, m, r.today, began - TTL)
<1>1. TTL \in Nat /\ Covers(written, r.slice.rows, m, r.today, time)
  BY UptimeAssumption DEF FetchOK, Begun
<1>2. began - TTL \in Int /\ began - TTL <= time
  BY <1>1
<1>3. Covers(written, r.slice.rows, m, r.today, began - TTL)
  BY <1>1, <1>2, CoversStable
<1> QED
  BY <1>3 DEF Serves, FetchOK, Begun

\* Whoever is not moved keeps its promise.
LEMMA FetchMoves ==
    ASSUME FetchInv, UNCHANGED <<log, now, setting>>, DOMAIN fetch' = Fetches,
           \A g \in Fetches :
                \/ fetch'[g] = fetch[g]
                \/ FetchOK(kind = "daily", log, now, g[2], fetch'[g])
    PROVE  FetchInv'
<1>1. kind' = kind
  BY DEF kind
<1>2. \A g \in Fetches : FetchOK(kind = "daily", log, now, g[2], fetch'[g])
  BY Zenon DEF FetchInv
<1> QED
  BY <1>1, <1>2, Zenon DEF FetchInv

(***************************************************************************)
(* The log, the cache and the goroutines, step by step.                    *)
(***************************************************************************)
Served == LogInv /\ FetchInv /\ CacheInv

\* Who may touch what.
LEMMA StepsFrame ==
    ASSUME [Next]_vars
    PROVE  /\ setting' = setting
           /\ Tick \/ now' = now
           /\ Ingester \/ log' = log
           /\ \/ request' = request
              \/ Clients \/ \E q \in Requests : withDuckDBReadPermit(q) \/ Respond(q)
<1>1. ASSUME NEW f, Fetch(f) PROVE UNCHANGED <<setting, now, log, request>>
  <2>1. Get(f) => UNCHANGED <<setting, now, log, request>>
    BY DEF Get
  <2>2. Lead(f) \/ Join(f) => UNCHANGED <<setting, now, log, request>>
    BY DEF Lead, Join
  <2>3. Load(f) => UNCHANGED <<setting, now, log, request>>
    BY DEF Load
  <2>4. Store(f) => UNCHANGED <<setting, now, log, request>>
    BY DEF Store
  <2>5. Today(f) => UNCHANGED <<setting, now, log, request>>
    BY Zenon DEF Today
  <2>6. AppendToday(f) => UNCHANGED <<setting, now, log, request>>
    BY Zenon DEF AppendToday
  <2>7. Summarize(f) => UNCHANGED <<setting, now, log, request>>
    BY Zenon DEF Summarize
  <2>8. Raw(f) => UNCHANGED <<setting, now, log, request>>
    BY DEF Raw
  <2> QED
    BY <1>1, <2>1, <2>2, <2>3, <2>4, <2>5, <2>6, <2>7, <2>8, Zenon DEF Fetch
<1>2. ASSUME NEW q, withDuckDBReadPermit(q) \/ Respond(q) PROVE UNCHANGED <<setting, now, log>>
  BY <1>2 DEF withDuckDBReadPermit, Respond
<1>3. ASSUME NEW f, LoadFails(f) PROVE UNCHANGED <<setting, now, log, request>>
  BY <1>3 DEF LoadFails
<1>4. Clients => UNCHANGED <<setting, now, log>>
  BY DEF Clients, Arrive, Cancel
<1>5. Ingester => UNCHANGED <<setting, now, request>>
  BY DEF Ingester, Upsert
<1>6. Tick => UNCHANGED <<setting, log, request>>
  BY DEF Tick
<1>7. UNCHANGED vars => UNCHANGED <<setting, now, log, request>>
  BY DEF vars
<1> QED
  BY <1>1, <1>2, <1>3, <1>4, <1>5, <1>6, <1>7 DEF Next, Serve

\* A request is asked of one endpoint, by one backend.
LEMMA SettingFixed ==
    ASSUME [Next]_vars
    PROVE  setting' = setting /\ kind' = kind /\ backend' = backend /\ Lines' = Lines
<1>1. setting' = setting
  BY StepsFrame
<1> QED
  BY <1>1 DEF kind, backend, Lines

\* The rows that a step writes are well formed and written now.
LEMMA LogStep ==
    ASSUME LogInv, [Next]_vars
    PROVE  /\ LogInv'
           /\ \A row \in log' : row \in log \/ row.at = now
           /\ log \subseteq log'
<1>1. CASE Tick
  BY <1>1, SettingFixed, UptimeAssumption DEF Tick, LogInv, LogRow
<1>2. ASSUME NEW m \in Monitors, NEW day \in Days, NEW lines \in SUBSET Lines, Upsert(m, day, lines)
      PROVE  /\ LogInv'
             /\ \A row \in log' : row \in log \/ row.at = now
             /\ log \subseteq log'
  <2> DEFINE new == [monitor : {m}, day : {day}, line : lines, at : {now}]
  <2>1. log' = log \cup new /\ now' = now
    BY <1>2 DEF Upsert
  <2>2. new \subseteq LogRow /\ \A row \in new : row.at = now /\ row.line \in Lines
    BY LinesType DEF LogInv, LogRow
  <2> HIDE DEF new
  <2>3. log' \subseteq LogRow /\ \A row \in log' : row.at <= now
    BY <2>1, <2>2 DEF LogInv
  <2> QED
    BY <2>1, <2>2, <2>3, SettingFixed DEF LogInv
<1>3. CASE UNCHANGED <<log, now>>
  BY <1>3, SettingFixed DEF LogInv
<1>4. Tick \/ Ingester \/ UNCHANGED <<log, now>>
  BY StepsFrame
<1> QED
  BY <1>1, <1>2, <1>3, <1>4 DEF Ingester

\* An upsert: what was promised of the past stays true.
LEMMA UpsertServed ==
    ASSUME Served, [Next]_vars, Ingester
    PROVE  FetchInv' /\ CacheInv'
<1>1. /\ log \in SUBSET LogRow /\ log' \in SUBSET LogRow /\ now \in Nat /\ now' = now
      /\ UNCHANGED <<fetch, cache>>
      /\ \A row \in log' : row \in log \/ row.at = now
  BY LogStep DEF Served, LogInv, Ingester, Upsert
<1>2. \A f \in Fetches : FetchOK(kind = "daily", log', now, f[2], fetch[f])
  BY <1>1, FetchGrows DEF Served, FetchInv
<1>3. \A k \in Keys : EntryOK(log', now, k, cache[k])
  BY <1>1, EntryGrows DEF Served, CacheInv
<1>4. kind' = kind
  BY SettingFixed
<1> QED
  BY <1>1, <1>2, <1>3, <1>4, Zenon DEF Served, FetchInv, CacheInv

\* A tick: entries that would be too old are not served any more.
LEMMA TickServed ==
    ASSUME Served, [Next]_vars, Tick
    PROVE  FetchInv' /\ CacheInv'
<1>1. /\ now \in Nat /\ now' = now + 1 /\ UNCHANGED <<log, fetch>>
      /\ \A f \in Fetches : fetch[f].pc \notin {"store", "append", "sum"}
      /\ cache' = [k \in Keys |-> IF Expired(cache[k], now + 1) THEN NoEntry ELSE cache[k]]
  BY DEF Tick, Served, LogInv
<1>2. \A f \in Fetches : FetchOK(kind = "daily", log, now + 1, f[2], fetch[f])
  BY <1>1, FetchLater DEF Served, FetchInv
<1>3. ASSUME NEW k \in Keys PROVE EntryOK(log, now + 1, k, cache'[k])
  <2>1. CASE Expired(cache[k], now + 1)
    BY <1>1, <2>1 DEF EntryOK
  <2>2. CASE ~Expired(cache[k], now + 1)
    <3>1. cache'[k] = cache[k] /\ EntryOK(log, now, k, cache[k])
      BY <1>1, <2>2 DEF Served, CacheInv
    <3>2. TTL \in Nat
      BY UptimeAssumption
    <3> QED
      BY <1>1, <2>2, <3>1, <3>2 DEF EntryOK, Expired
  <2> QED
    BY <2>1, <2>2
<1>4. kind' = kind
  BY SettingFixed
<1>5. FetchInv'
  BY <1>1, <1>2, <1>4, Zenon DEF Served, FetchInv
<1> QED
  BY <1>1, <1>3, <1>5 DEF CacheInv

\* Permits, answers and clients that come and go.
LEMMA RequestServed ==
    ASSUME Served, [Next]_vars, NEW q \in Requests,
           withDuckDBReadPermit(q) \/ Respond(q) \/ Clients
    PROVE  FetchInv' /\ CacheInv'
<1>1. UNCHANGED <<log, now, setting, cache>>
  BY DEF withDuckDBReadPermit, Respond, Clients, Arrive, Cancel
<1>2. CacheInv'
  BY <1>1 DEF Served, CacheInv
<1>3. CASE withDuckDBReadPermit(q)
  <2>1. ASSUME NEW g \in Fetches
        PROVE  FetchOK(kind = "daily", log, now, g[2], [fetch[g] EXCEPT !.pc = "get"])
    <3>1. FetchOK(kind = "daily", log, now, g[2], fetch[g])
      BY DEF Served, FetchInv
    <3> QED
      BY <3>1 DEF FetchOK, Steps, Begun
  <2>2. DOMAIN fetch' = Fetches /\ \A g \in Fetches :
            fetch'[g] = fetch[g] \/ fetch'[g] = [fetch[g] EXCEPT !.pc = "get"]
    BY <1>3 DEF withDuckDBReadPermit
  <2> QED
    BY <1>1, <1>2, <2>1, <2>2, FetchMoves DEF Served
<1>4. CASE Respond(q)
  <2>1. DOMAIN fetch' = Fetches /\ \A g \in Fetches : fetch'[g] = fetch[g] \/ fetch'[g] = NoFetch
    BY <1>4 DEF Respond
  <2> QED
    BY <1>1, <1>2, <2>1, FetchMoves, IdleFetchOK DEF Served
<1>5. CASE Clients
  <2>1. fetch' = fetch
    BY <1>5 DEF Clients, Arrive, Cancel
  <2> QED
    BY <1>1, <1>2, <2>1, FetchMoves DEF Served, FetchInv
<1> QED
  BY <1>3, <1>4, <1>5

\* The first look into the cache, on behalf of the day it is.
LEMMA GetServed ==
    ASSUME Served, NEW f \in Fetches, Get(f)
    PROVE  FetchInv' /\ CacheInv'
<1> USE DEF Served
<1> DEFINE key   == <<f[2], Day(now)>>
           begun == [fetch[f] EXCEPT !.today = Day(now), !.began = now]
<1>1. UNCHANGED <<log, now, setting, cache>>
  BY DEF Get
<1>2. CacheInv'
  BY <1>1 DEF CacheInv
<1>3. /\ f[2] \in Monitors /\ key \in Keys /\ key[1] = f[2] /\ key[2] = Day(now)
      /\ now \in Nat /\ log \in SUBSET LogRow /\ Day(now) \in Days
  BY TodayIsDay DEF Fetches, Keys, LogInv
<1>4. FetchOK(kind = "daily", log, now, f[2], fetch[f]) /\ DOMAIN fetch = Fetches
  BY DEF FetchInv
<1>5. \/ fetch' = [fetch EXCEPT ![f] = [begun EXCEPT !.pc = "today", !.slice = cache[key].slice]]
         /\ cache[key] # NoEntry
      \/ fetch' = [fetch EXCEPT ![f] = [begun EXCEPT !.pc = "join"]]
      \/ fetch' = FallBack({f})
  BY DEF Get, aggregateCacheKey
<1>6. FetchOK(kind = "daily", log, now, f[2], [begun EXCEPT !.pc = "join"])
      /\ [begun EXCEPT !.pc = "join"].pc = "join"
      /\ [begun EXCEPT !.pc = "join"].today = Day(now)
      /\ [begun EXCEPT !.pc = "join"].began = now
  BY <1>3, <1>4 DEF FetchOK, Steps, Begun, Holding
<1>7. ASSUME cache[key] # NoEntry
      PROVE  FetchOK(kind = "daily", log, now, f[2],
                     [begun EXCEPT !.pc = "today", !.slice = cache[key].slice])
  <2> DEFINE joined == [begun EXCEPT !.pc = "join"]
             entry  == cache[key]
  <2>1. EntryOK(log, now, key, entry)
    BY <1>3 DEF CacheInv
  <2>2. Serves(log, entry.slice, key[1], key[2], now - TTL)
    <3> HIDE DEF entry, key
    <3>1. now <= now
      BY <1>3
    <3> QED
      BY <1>3, <1>7, <2>1, <3>1, EntryServes DEF entry
  <2>3. Serves(log, entry.slice, f[2], joined.today, joined.began - TTL)
    BY <1>3, <1>6, <2>2
  <2>4. [joined EXCEPT !.pc = "today", !.slice = entry.slice]
            = [begun EXCEPT !.pc = "today", !.slice = entry.slice]
    BY <1>4 DEF FetchOK
  <2>5. FetchOK(kind = "daily", log, now, f[2], joined) /\ joined.pc = "join"
    BY <1>6
  <2> HIDE DEF joined, entry
  <2>6. FetchOK(kind = "daily", log, now, f[2], [joined EXCEPT !.pc = "today", !.slice = entry.slice])
    BY <2>3, <2>5, ResumedOK
  <2> QED
    BY <2>4, <2>6 DEF entry
<1> HIDE DEF begun, key
<1>8. DOMAIN fetch' = Fetches /\ \A g \in Fetches : g # f => fetch'[g] = fetch[g]
  BY <1>4, <1>5 DEF FallBack
<1>9. FetchOK(kind = "daily", log, now, f[2], fetch'[f])
  BY <1>4, <1>5, <1>6, <1>7, IdleFetchOK DEF FallBack
<1> QED
  BY <1>1, <1>2, <1>8, <1>9, FetchMoves

\* The second look, the load and those who wait for it.
LEMMA LeadServed ==
    ASSUME Served, NEW f \in Fetches, Lead(f) \/ Join(f)
    PROVE  FetchInv' /\ CacheInv'
<1> USE DEF Served
<1>1. UNCHANGED <<log, now, setting, cache>>
  BY DEF Lead, Join
<1>2. CacheInv'
  BY <1>1 DEF CacheInv
<1>3. FetchOK(kind = "daily", log, now, f[2], fetch[f]) /\ DOMAIN fetch = Fetches /\ fetch[f].pc = "join"
  BY DEF FetchInv, Lead, Join
<1>4. /\ fetch[f].today \in Days /\ fetch[f].began \in Nat /\ fetch[f].began <= now
      /\ Key(f) = <<f[2], fetch[f].today>> /\ Key(f) \in Keys
      /\ Key(f)[1] = f[2] /\ Key(f)[2] = fetch[f].today
  BY <1>3 DEF FetchOK, Begun, Key, aggregateCacheKey, Keys, Fetches
<1>5. \/ fetch' = [fetch EXCEPT ![f].pc = "load"] \/ fetch' = [fetch EXCEPT ![f].pc = "wait"]
      \/ cache[Key(f)] # NoEntry /\ fetch' = Resume({f}, cache[Key(f)].slice)
  BY DEF Lead, Join
<1>6. \A pc \in {"load", "wait"} : FetchOK(kind = "daily", log, now, f[2], [fetch[f] EXCEPT !.pc = pc])
  BY <1>3, <1>4 DEF FetchOK, Steps, Begun, Holding
<1>7. ASSUME cache[Key(f)] # NoEntry
      PROVE  FetchOK(kind = "daily", log, now, f[2],
                     [fetch[f] EXCEPT !.pc = "today", !.slice = cache[Key(f)].slice])
  <2>1. EntryOK(log, now, Key(f), cache[Key(f)]) /\ log \in SUBSET LogRow /\ now \in Nat
    BY <1>4 DEF CacheInv, LogInv
  <2>2. Serves(log, cache[Key(f)].slice, Key(f)[1], Key(f)[2], fetch[f].began - TTL)
    BY <1>4, <1>7, <2>1, EntryServes
  <2> QED
    BY <1>3, <1>4, <2>2, ResumedOK
<1>8. DOMAIN fetch' = Fetches /\ \A g \in Fetches : g # f => fetch'[g] = fetch[g]
  BY <1>3, <1>5 DEF Resume
<1>9. FetchOK(kind = "daily", log, now, f[2], fetch'[f])
  BY <1>3, <1>5, <1>6, <1>7 DEF Resume
<1> QED
  BY <1>1, <1>2, <1>8, <1>9, FetchMoves

\* The load reads the tables as they are now.
LEMMA LoadServed ==
    ASSUME Served, NEW f \in Fetches, Load(f)
    PROVE  FetchInv' /\ CacheInv'
<1> USE DEF Served
<1>1. UNCHANGED <<log, now, setting, cache>>
  BY DEF Load
<1>2. CacheInv'
  BY <1>1 DEF CacheInv
<1>3. FetchOK(kind = "daily", log, now, f[2], fetch[f]) /\ DOMAIN fetch = Fetches /\ fetch[f].pc = "load"
  BY DEF FetchInv, Load
<1>4. fetch[f].today \in Days /\ fetch[f].began \in Nat /\ fetch[f].began <= now /\ f[2] \in Monitors
  BY <1>3 DEF FetchOK, Begun, Fetches
<1> DEFINE seen == {row \in Table : row.monitor = f[2] /\ row.day < fetch[f].today}
<1>5. PICK room : fetch' = [fetch EXCEPT ![f].pc = "store",
                                        ![f].slice = [rows |-> seen, array |-> f, room |-> room]]
  <2>1. seen = {row \in RowsOf(f) : row.day < fetch[f].today}
    BY DEF RowsOf
  <2> QED
    BY <2>1 DEF Load
<1>6. SliceRows(seen, f[2], fetch[f].today) /\ Covers(log, seen, f[2], fetch[f].today, now)
  <2> HIDE DEF seen
  <2> QED
    BY <1>4, LoadedRows DEF seen
<1> HIDE DEF seen
<1>7. /\ DOMAIN fetch' = Fetches /\ \A g \in Fetches : g # f => fetch'[g] = fetch[g]
      /\ fetch'[f] = [fetch[f] EXCEPT !.pc = "store",
                                      !.slice = [rows |-> seen, array |-> f, room |-> room]]
  BY <1>3, <1>5
<1>8. /\ DOMAIN fetch'[f] = {"pc", "today", "began", "slice", "tail", "from"}
      /\ fetch'[f].pc = "store" /\ fetch'[f].slice = [rows |-> seen, array |-> f, room |-> room]
      /\ fetch'[f].today = fetch[f].today /\ fetch'[f].began = fetch[f].began
  BY <1>3, <1>7 DEF FetchOK
<1>9. FetchOK(kind = "daily", log, now, f[2], fetch'[f])
  BY <1>4, <1>6, <1>8 DEF FetchOK, Steps, Holding
<1> QED
  BY <1>1, <1>2, <1>7, <1>9, FetchMoves

\* What a load leaves in the cache serves until it expires.
LEMMA StoredEntryOK ==
    ASSUME Served, NEW f \in Fetches, fetch[f].pc = "store",
           cache' = [cache EXCEPT ![Key(f)] = [slice |-> Copied(fetch[f].slice), expires |-> now + TTL]],
           UNCHANGED <<log, now>>
    PROVE  CacheInv'
<1> USE DEF Served
<1> DEFINE slice == fetch[f].slice
           entry == [slice |-> Copied(slice), expires |-> now + TTL]
<1>1. FetchOK(kind = "daily", log, now, f[2], fetch[f])
  BY DEF FetchInv
<1>2. /\ fetch[f].today \in Days /\ Key(f) = <<f[2], fetch[f].today>> /\ Key(f) \in Keys
      /\ Key(f)[1] = f[2] /\ Key(f)[2] = fetch[f].today
      /\ SliceRows(slice.rows, f[2], fetch[f].today)
      /\ Covers(log, slice.rows, f[2], fetch[f].today, now)
      /\ DOMAIN slice = {"rows", "array", "room"} /\ slice.array \in Fetches \cup {None}
  BY <1>1 DEF FetchOK, Begun, Key, aggregateCacheKey, Keys, Fetches
<1> HIDE DEF slice
<1>3. /\ DOMAIN Copied(slice) = {"rows", "array", "room"} /\ Copied(slice).rows = slice.rows
      /\ Copied(slice).array \in {slice.array, None}
  BY <1>2 DEF Copied
<1>4. now \in Nat /\ TTL \in Nat
  BY UptimeAssumption DEF LogInv
<1>5. DOMAIN entry = {"slice", "expires"} /\ entry.slice = Copied(slice) /\ entry.expires = now + TTL
  OBVIOUS
<1>6. (now + TTL) - TTL = now /\ now <= now + TTL /\ now + TTL \in Int
  BY <1>4
<1> HIDE DEF entry
<1>7. EntryOK(log, now, Key(f), entry)
  BY <1>2, <1>3, <1>4, <1>5, <1>6 DEF EntryOK
<1>8. cache' = [cache EXCEPT ![Key(f)] = entry]
  BY DEF entry, slice
<1>9. DOMAIN cache' = Keys /\ \A k \in Keys : EntryOK(log, now, k, cache'[k])
  BY <1>7, <1>8 DEF CacheInv
<1> QED
  BY <1>9 DEF CacheInv

\* Everyone a flight brings home asked for the same days of the same monitor.
LEMMA FlownTogether ==
    ASSUME Served, NEW f \in Fetches, fetch[f].pc \in {"load", "store"}, NEW g \in Flown(f)
    PROVE  /\ g \in Fetches /\ g[2] = f[2] /\ fetch[g].today = fetch[f].today
           /\ fetch[g].pc \in {fetch[f].pc, "wait"}
<1>1. g = f \/ (g \in Fetches /\ fetch[g].pc = "wait" /\ Key(g) = Key(f))
  BY DEF Flown
<1>2. Key(f)[1] = f[2] /\ Key(f)[2] = fetch[f].today /\ Key(g)[1] = g[2] /\ Key(g)[2] = fetch[g].today
  BY DEF Key, aggregateCacheKey
<1> QED
  BY <1>1, <1>2

\* The value is cached and handed to everyone who waited for it.
LEMMA StoreServed ==
    ASSUME Served, NEW f \in Fetches, Store(f)
    PROVE  FetchInv' /\ CacheInv'
<1> USE DEF Served
<1>1. UNCHANGED <<log, now, setting>> /\ fetch[f].pc = "store"
      /\ fetch' = Resume(Flown(f), fetch[f].slice)
  BY DEF Store
<1>2. CacheInv'
  BY <1>1, StoredEntryOK DEF Store
<1>3. FetchOK(kind = "daily", log, now, f[2], fetch[f]) /\ log \in SUBSET LogRow /\ now \in Nat
  BY DEF FetchInv, LogInv
<1>4. ASSUME NEW g \in Fetches, g \in Flown(f)
      PROVE  FetchOK(kind = "daily", log, now, g[2],
                     [fetch[g] EXCEPT !.pc = "today", !.slice = fetch[f].slice])
  <2>1. g[2] = f[2] /\ fetch[g].today = fetch[f].today /\ fetch[g].pc \in {"store", "wait"}
    BY <1>1, <1>4, FlownTogether
  <2>2. FetchOK(kind = "daily", log, now, g[2], fetch[g])
    BY DEF FetchInv
  <2>3. fetch[g].began \in Nat /\ fetch[g].began <= now
    BY <2>1, <2>2 DEF FetchOK, Begun
  <2>4. Serves(log, fetch[f].slice, f[2], fetch[f].today, fetch[g].began - TTL)
    BY <1>1, <1>3, <2>3, LoadServes
  <2> QED
    BY <2>1, <2>2, <2>4, ResumedOK
<1>5. DOMAIN fetch' = Fetches /\ \A g \in Fetches :
        fetch'[g] = IF g \in Flown(f) THEN [fetch[g] EXCEPT !.pc = "today", !.slice = fetch[f].slice]
                    ELSE fetch[g]
  BY <1>1 DEF Resume
<1> QED
  BY <1>1, <1>2, <1>4, <1>5, FetchMoves

\* A load that fails sends everyone who waited for it to the raw rows.
LEMMA LoadFailsServed ==
    ASSUME Served, NEW f \in Fetches, LoadFails(f)
    PROVE  FetchInv' /\ CacheInv'
<1> USE DEF Served
<1>1. UNCHANGED <<log, now, setting>> /\ fetch' = FallBack(Flown(f))
  BY DEF LoadFails
<1>2. CacheInv'
  <2>1. CASE UNCHANGED cache
    BY <1>1, <2>1 DEF CacheInv
  <2> QED
    BY <1>1, <2>1, StoredEntryOK DEF LoadFails
<1>3. DOMAIN fetch' = Fetches /\ \A g \in Fetches :
        fetch'[g] = fetch[g] \/ fetch'[g] = [NoFetch EXCEPT !.pc = "raw"]
  BY <1>1 DEF FallBack
<1> QED
  BY <1>1, <1>2, <1>3, IdleFetchOK, FetchMoves

\* The current day is read.
LEMMA TodayServed ==
    ASSUME Served, NEW f \in Fetches, Today(f)
    PROVE  FetchInv' /\ CacheInv'
<1> USE DEF Served
<1>1. UNCHANGED <<log, now, setting, cache>> /\ fetch[f].pc = "today"
  BY Zenon DEF Today
<1>2. CacheInv'
  BY <1>1 DEF CacheInv
<1>3. FetchOK(kind = "daily", log, now, f[2], fetch[f]) /\ DOMAIN fetch = Fetches /\ f[2] \in Monitors
  BY DEF FetchInv, Fetches
<1>4. CASE fetch' = FallBack({f})
  <2>1. DOMAIN fetch' = Fetches /\ \A g \in Fetches :
            fetch'[g] = fetch[g] \/ fetch'[g] = [NoFetch EXCEPT !.pc = "raw"]
    BY <1>4 DEF FallBack
  <2> QED
    BY <1>1, <1>2, <2>1, IdleFetchOK, FetchMoves
<1>5. ASSUME NEW order \in SetToSeqs({row \in RowsOf(f) : row.day = fetch[f].today}),
             fetch' = [fetch EXCEPT ![f].pc = "append",
                                    ![f].tail = [k \in DOMAIN order |-> {order[k]}]]
      PROVE  FetchInv'
  <2> DEFINE tail == [k \in DOMAIN order |-> {order[k]}]
             part == {row \in Table : row.monitor = f[2] /\ row.day = fetch[f].today}
  <2>1. /\ fetch[f].today \in Days /\ fetch[f].began \in Nat /\ fetch[f].began <= now
        /\ SliceRows(fetch[f].slice.rows, f[2], fetch[f].today)
    BY <1>1, <1>3 DEF FetchOK, Begun, Holding
  <2>2. order \in SetToSeqs(part)
    <3>1. part = {row \in RowsOf(f) : row.day = fetch[f].today}
      BY DEF RowsOf
    <3> QED
      BY <3>1
  <2> HIDE DEF part
  <2>3. TailRows(kind = "daily", log, tail, f[2], fetch[f].today, now)
        /\ (fetch[f].today = 0 => Len(tail) > 0)
    <3> HIDE DEF tail
    <3> QED
      BY <1>3, <2>1, <2>2, CurrentRows DEF part, tail
  <2>4. fetch[f].slice.rows # {} \/ Len(tail) > 0
    BY <2>1, <2>3 DEF SliceRows, Days
  <2> HIDE DEF tail
  <2>5. fetch' = [fetch EXCEPT ![f].pc = "append", ![f].tail = tail]
    BY <1>5 DEF tail
  <2>6. /\ DOMAIN fetch' = Fetches /\ \A g \in Fetches : g # f => fetch'[g] = fetch[g]
        /\ fetch'[f] = [fetch[f] EXCEPT !.pc = "append", !.tail = tail]
    BY <1>3, <2>5
  <2>7. /\ DOMAIN fetch'[f] = {"pc", "today", "began", "slice", "tail", "from"}
        /\ fetch'[f].pc = "append" /\ fetch'[f].slice = fetch[f].slice /\ fetch'[f].tail = tail
        /\ fetch'[f].today = fetch[f].today /\ fetch'[f].began = fetch[f].began
    BY <1>3, <2>6 DEF FetchOK
  <2>8. FetchOK(kind = "daily", log, now, f[2], fetch'[f])
    BY <1>1, <1>3, <2>1, <2>3, <2>4, <2>7 DEF FetchOK, Steps, Begun, Holding
  <2> QED
    BY <1>1, <2>6, <2>8, FetchMoves
<1> QED
  BY <1>2, <1>4, <1>5, Zenon DEF Today

\* The raw rows, or nothing, are no answer from the aggregates.
LEMMA RawServed ==
    ASSUME Served, NEW f \in Fetches, Raw(f)
    PROVE  FetchInv' /\ CacheInv'
<1> USE DEF Served
<1>1. UNCHANGED <<log, now, setting, cache>>
  BY DEF Raw
<1>2. CacheInv'
  BY <1>1 DEF CacheInv
<1>3. FetchOK(kind = "daily", log, now, f[2], fetch[f]) /\ DOMAIN fetch = Fetches
  BY DEF FetchInv
<1>4. PICK from \in {"raw", "failed"} :
        fetch' = [fetch EXCEPT ![f] = [@ EXCEPT !.pc = "done", !.from = from, !.tail = <<>>,
                                                !.slice = [NoSlice EXCEPT !.rows = {}]]]
  BY DEF Raw, Done
<1>5. /\ DOMAIN fetch' = Fetches /\ \A g \in Fetches : g # f => fetch'[g] = fetch[g]
      /\ fetch'[f] = [fetch[f] EXCEPT !.pc = "done", !.from = from, !.tail = <<>>,
                                      !.slice = [NoSlice EXCEPT !.rows = {}]]
  BY <1>3, <1>4
<1>6. /\ DOMAIN fetch'[f] = {"pc", "today", "began", "slice", "tail", "from"}
      /\ fetch'[f].pc = "done" /\ fetch'[f].from = from
      /\ DOMAIN fetch'[f].slice = {"rows", "array", "room"} /\ fetch'[f].slice.array = None
  BY <1>3, <1>5 DEF FetchOK, NoSlice
<1>7. FetchOK(kind = "daily", log, now, f[2], fetch'[f])
  BY <1>6 DEF FetchOK, Steps
<1> QED
  BY <1>1, <1>2, <1>5, <1>7, FetchMoves

Mixed(tail, other) ==
    [k \in DOMAIN tail |-> IF k <= Len(other) THEN tail[k] \cup other[k] ELSE tail[k]]

\* Two tails of the same day of the same monitor mix into one of that day.
LEMMA MixedTail ==
    ASSUME NEW daily, NEW written, NEW m, NEW today, NEW time,
           NEW tail, TailRows(daily, written, tail, m, today, time),
           NEW other, TailRows(daily, written, other, m, today, time)
    PROVE  TailRows(daily, written, Mixed(tail, other), m, today, time)
<1> DEFINE mix == Mixed(tail, other)
<1>1. /\ tail \in Seq(SUBSET LogRow) /\ other \in Seq(SUBSET LogRow)
      /\ DOMAIN tail = 1 .. Len(tail) /\ Len(tail) \in Nat /\ Len(other) \in Nat
      /\ \A k \in 1 .. Len(tail) : tail[k] \in SUBSET LogRow
      /\ \A k \in 1 .. Len(other) : other[k] \in SUBSET LogRow
  BY DEF TailRows
<1>2. /\ DOMAIN mix = 1 .. Len(tail)
      /\ \A k \in 1 .. Len(tail) :
            mix[k] = IF k <= Len(other) THEN tail[k] \cup other[k] ELSE tail[k]
  BY <1>1 DEF Mixed
<1>3. \A k \in 1 .. Len(tail) : k <= Len(other) => k \in 1 .. Len(other)
  BY <1>1
<1>4. mix \in Seq(SUBSET LogRow) /\ Len(mix) = Len(tail)
  <2>1. mix \in [1 .. Len(tail) -> SUBSET LogRow]
    <3>1. \A k \in 1 .. Len(tail) : mix[k] \in SUBSET LogRow
      BY <1>1, <1>2, <1>3
    <3>2. mix = [k \in 1 .. Len(tail) |-> mix[k]]
      BY <1>1 DEF Mixed
    <3> HIDE DEF mix
    <3> QED
      BY <3>1, <3>2
  <2> HIDE DEF mix
  <2> QED
    BY <1>1, <2>1
<1> HIDE DEF mix
<1>5. \A k \in 1 .. Len(mix) : \A a \in mix[k] : a.monitor = m /\ a.day = today
  BY <1>2, <1>3, <1>4 DEF TailRows
<1>6. ASSUME daily
      PROVE  /\ Len(mix) <= 1
             /\ \A row \in written : row.monitor = m /\ row.day = today /\ row.at < time =>
                    Len(mix) = 1 /\ \A a \in mix[1] : SameLine(a, row) /\ a.at >= row.at
  <2>1. Len(mix) <= 1
    BY <1>4, <1>6 DEF TailRows
  <2>2. ASSUME NEW row \in written, row.monitor = m, row.day = today, row.at < time
        PROVE  Len(mix) = 1 /\ \A a \in mix[1] : SameLine(a, row) /\ a.at >= row.at
    <3>1. /\ Len(tail) = 1 /\ \A a \in tail[1] : SameLine(a, row) /\ a.at >= row.at
          /\ Len(other) = 1 /\ \A a \in other[1] : SameLine(a, row) /\ a.at >= row.at
      BY <1>6, <2>2 DEF TailRows
    <3>2. 1 \in 1 .. Len(tail) /\ mix[1] = tail[1] \cup other[1]
      BY <1>2, <3>1
    <3> QED
      BY <1>4, <3>1, <3>2
  <2> QED
    BY <2>1, <2>2
<1>7. TailRows(daily, written, mix, m, today, time)
  BY <1>4, <1>5, <1>6 DEF TailRows
<1> QED
  BY <1>7 DEF mix

\* Who appends to an array that others read touches rows of the same day of the
\* same monitor only: an array belongs to one key.
LEMMA AppendServed ==
    ASSUME Served, ArrayInv, NEW f \in Fetches, AppendToday(f)
    PROVE  FetchInv' /\ CacheInv'
<1> USE DEF Served
<1> DEFINE mine == fetch[f]
           inPlace == mine.slice.array # None /\ Len(mine.tail) <= mine.slice.room
           shares(g) == fetch[g].pc = "sum" /\ fetch[g].slice.array = mine.slice.array
           array == IF inPlace THEN mine.slice.array ELSE None
<1>1. UNCHANGED <<log, now, setting, cache>> /\ fetch[f].pc = "append"
  BY Zenon DEF AppendToday
<1>2. CacheInv'
  BY <1>1 DEF CacheInv
<1>3. \A g \in Fetches : FetchOK(kind = "daily", log, now, g[2], fetch[g])
      /\ DOMAIN fetch = Fetches
  BY DEF FetchInv
<1>4. /\ mine.today \in Days /\ mine.began \in Nat /\ mine.began <= now
      /\ SliceRows(mine.slice.rows, f[2], mine.today)
      /\ Covers(log, mine.slice.rows, f[2], mine.today, mine.began - TTL)
      /\ TailRows(kind = "daily", log, mine.tail, f[2], mine.today, now)
      /\ mine.slice.rows # {} \/ Len(mine.tail) > 0
      /\ DOMAIN mine = {"pc", "today", "began", "slice", "tail", "from"}
      /\ DOMAIN mine.slice = {"rows", "array", "room"} /\ mine.slice.array \in Fetches \cup {None}
  BY <1>1, <1>3 DEF FetchOK, Begun, Holding
<1>5. ~(mine.slice.rows = {} /\ mine.tail = <<>>)
  BY <1>4
<1>6. fetch' = [g \in Fetches |->
                    IF g = f THEN [mine EXCEPT !.pc = "sum", !.slice.array = array]
                    ELSE IF inPlace /\ shares(g)
                    THEN [fetch[g] EXCEPT !.tail = Mixed(@, mine.tail)]
                    ELSE fetch[g]]
  <2>1. \A g : [fetch[g] EXCEPT !.tail = [k \in DOMAIN @ |->
                            IF k <= Len(mine.tail) THEN @[k] \cup mine.tail[k] ELSE @[k]]]
               = [fetch[g] EXCEPT !.tail = Mixed(@, mine.tail)]
    BY DEF Mixed
  <2>2. [mine EXCEPT !.pc = "sum", !.slice.array = IF inPlace THEN @ ELSE None]
        = [mine EXCEPT !.pc = "sum", !.slice.array = array]
    OBVIOUS
  <2>3. fetch' = [g \in Fetches |->
                    IF g = f THEN [mine EXCEPT !.pc = "sum", !.slice.array = IF inPlace THEN @ ELSE None]
                    ELSE IF inPlace /\ shares(g)
                    THEN [fetch[g] EXCEPT !.tail = [k \in DOMAIN @ |->
                            IF k <= Len(mine.tail) THEN @[k] \cup mine.tail[k] ELSE @[k]]]
                    ELSE fetch[g]]
    BY <1>5, Zenon DEF AppendToday
  <2> QED
    BY <2>1, <2>2, <2>3, Zenon
<1> HIDE DEF inPlace, array
<1>7. /\ DOMAIN fetch' = Fetches
      /\ \A g \in Fetches : g # f =>
            \/ fetch'[g] = fetch[g]
            \/ inPlace /\ shares(g) /\ fetch'[g] = [fetch[g] EXCEPT !.tail = Mixed(@, mine.tail)]
      /\ fetch'[f] = [mine EXCEPT !.pc = "sum", !.slice.array = array]
  BY <1>6
<1>8. FetchOK(kind = "daily", log, now, f[2], fetch'[f])
  <2>1. array \in Fetches \cup {None}
    BY <1>4 DEF array
  <2>2. /\ DOMAIN fetch'[f] = {"pc", "today", "began", "slice", "tail", "from"}
        /\ fetch'[f].pc = "sum" /\ fetch'[f].slice = [mine.slice EXCEPT !.array = array]
        /\ fetch'[f].tail = mine.tail
        /\ fetch'[f].today = mine.today /\ fetch'[f].began = mine.began
    BY <1>4, <1>7
  <2>3. /\ DOMAIN fetch'[f].slice = {"rows", "array", "room"}
        /\ fetch'[f].slice.rows = mine.slice.rows /\ fetch'[f].slice.array = array
    BY <1>4, <2>2
  <2> HIDE DEF mine
  <2> QED
    BY <1>4, <2>1, <2>2, <2>3 DEF FetchOK, Steps, Begun, Holding
<1>9. ASSUME NEW g \in Fetches, g # f, inPlace, shares(g)
      PROVE  FetchOK(kind = "daily", log, now, g[2], [fetch[g] EXCEPT !.tail = Mixed(@, mine.tail)])
  <2> DEFINE r == fetch[g]
             x == [r EXCEPT !.tail = Mixed(@, mine.tail)]
  <2>1. FetchOK(kind = "daily", log, now, g[2], r) /\ r.pc = "sum"
    BY <1>3, <1>9
  <2>2. /\ r.today \in Days /\ r.began \in Nat /\ r.began <= now
        /\ SliceRows(r.slice.rows, g[2], r.today)
        /\ Covers(log, r.slice.rows, g[2], r.today, r.began - TTL)
        /\ TailRows(kind = "daily", log, r.tail, g[2], r.today, now)
        /\ DOMAIN r = {"pc", "today", "began", "slice", "tail", "from"}
        /\ DOMAIN r.slice = {"rows", "array", "room"} /\ r.slice.array \in Fetches \cup {None}
    BY <2>1 DEF FetchOK, Begun, Holding
  <2>3. mine.slice.array \in Fetches
    BY <1>4, <1>9 DEF inPlace
  <2>4. Key(f) \in Keys /\ Key(g) \in Keys /\ Key(f) = <<f[2], mine.today>> /\ Key(g) = <<g[2], r.today>>
    BY <1>4, <2>2 DEF Key, aggregateCacheKey, Keys, Fetches
  <2>5. Uses(Key(f), mine.slice.array) /\ Uses(Key(g), mine.slice.array)
    BY <1>1, <1>9 DEF Uses
  <2>6. g[2] = f[2] /\ r.today = mine.today
    <3>1. Key(f) = Key(g)
      BY <2>3, <2>4, <2>5 DEF ArrayInv
    <3> QED
      BY <2>4, <3>1
  <2>7. TailRows(kind = "daily", log, Mixed(r.tail, mine.tail), g[2], r.today, now)
    BY <1>4, <2>2, <2>6, MixedTail
  <2> HIDE DEF r, mine
  <2>8. /\ DOMAIN x = {"pc", "today", "began", "slice", "tail", "from"}
        /\ x.pc = "sum" /\ x.slice = r.slice /\ x.tail = Mixed(r.tail, mine.tail)
        /\ x.today = r.today /\ x.began = r.began
    BY <2>1, <2>2
  <2> HIDE DEF x
  <2>9. FetchOK(kind = "daily", log, now, g[2], x)
    BY <2>2, <2>7, <2>8 DEF FetchOK, Steps, Begun, Holding
  <2> QED
    BY <2>9 DEF x, r, mine
<1> HIDE DEF mine, shares
<1>10. \A g \in Fetches :
            fetch'[g] = fetch[g] \/ FetchOK(kind = "daily", log, now, g[2], fetch'[g])
  BY <1>7, <1>8, <1>9
<1> QED
  BY <1>1, <1>2, <1>7, <1>10, FetchMoves

\* The answer: what the slice and the tail promised.
LEMMA SummarizeServed ==
    ASSUME Served, NEW f \in Fetches, Summarize(f)
    PROVE  FetchInv' /\ CacheInv'
<1> USE DEF Served
<1> DEFINE mine == fetch[f]
<1>1. UNCHANGED <<log, now, setting, cache>> /\ mine.pc = "sum"
  BY Zenon DEF Summarize
<1>2. CacheInv'
  BY <1>1 DEF CacheInv
<1>3. FetchOK(kind = "daily", log, now, f[2], mine) /\ DOMAIN fetch = Fetches
  BY DEF FetchInv
<1>4. /\ mine.today \in Days /\ mine.began \in Nat /\ mine.began <= now
      /\ SliceRows(mine.slice.rows, f[2], mine.today)
      /\ Covers(log, mine.slice.rows, f[2], mine.today, mine.began - TTL)
      /\ TailRows(kind = "daily", log, mine.tail, f[2], mine.today, now)
      /\ DOMAIN mine = {"pc", "today", "began", "slice", "tail", "from"}
  BY <1>1, <1>3 DEF FetchOK, Begun, Holding
<1>5. PICK tail : /\ DOMAIN tail = DOMAIN mine.tail
                  /\ \A k \in DOMAIN tail : tail[k] \in mine.tail[k]
                  /\ fetch' = [fetch EXCEPT ![f] =
                        [@ EXCEPT !.pc = "done", !.from = "aggregates", !.tail = tail,
                                  !.slice = [NoSlice EXCEPT !.rows = mine.slice.rows]]]
  BY DEF Summarize, Done
<1> HIDE DEF mine
<1>6. /\ DOMAIN fetch' = Fetches /\ \A g \in Fetches : g # f => fetch'[g] = fetch[g]
      /\ fetch'[f] = [mine EXCEPT !.pc = "done", !.from = "aggregates", !.tail = tail,
                                  !.slice = [NoSlice EXCEPT !.rows = mine.slice.rows]]
  BY <1>3, <1>5 DEF mine
<1>7. /\ DOMAIN fetch'[f] = {"pc", "today", "began", "slice", "tail", "from"}
      /\ fetch'[f].pc = "done" /\ fetch'[f].from = "aggregates" /\ fetch'[f].tail = tail
      /\ fetch'[f].today = mine.today /\ fetch'[f].began = mine.began
      /\ fetch'[f].slice = [NoSlice EXCEPT !.rows = mine.slice.rows]
  BY <1>4, <1>6
<1>8. /\ DOMAIN fetch'[f].slice = {"rows", "array", "room"} /\ fetch'[f].slice.array = None
      /\ fetch'[f].slice.rows = mine.slice.rows
  BY <1>7 DEF NoSlice
<1>9. DOMAIN mine.tail = 1 .. Len(mine.tail) /\ Len(mine.tail) \in Nat
  BY <1>4 DEF TailRows
<1>10. \A k \in DOMAIN tail : tail[k].monitor = f[2] /\ tail[k].day = mine.today
  BY <1>4, <1>5, <1>9 DEF TailRows
<1>11. ASSUME kind = "daily" PROVE AnswerRows(log, tail, f[2], mine.today, mine.began - TTL)
  <2>1. \A k \in DOMAIN tail : k = 1
    BY <1>4, <1>5, <1>9, <1>11 DEF TailRows
  <2>2. ASSUME NEW row \in log, row.monitor = f[2], row.day = mine.today,
               row.at < mine.began - TTL
        PROVE  1 \in DOMAIN tail /\ SameLine(tail[1], row) /\ tail[1].at >= row.at
    <3>1. row.at < now
      BY <1>4, <2>2, UptimeAssumption DEF LogInv, LogRow
    <3>2. Len(mine.tail) = 1 /\ \A a \in mine.tail[1] : SameLine(a, row) /\ a.at >= row.at
      BY <1>4, <1>11, <2>2, <3>1 DEF TailRows
    <3>3. 1 \in DOMAIN tail /\ tail[1] \in mine.tail[1]
      BY <1>5, <1>9, <3>2
    <3> QED
      BY <3>2, <3>3
  <2> QED
    BY <1>10, <2>1, <2>2 DEF AnswerRows
<1>12. FetchOK(kind = "daily", log, now, f[2], fetch'[f])
  BY <1>4, <1>7, <1>8, <1>11 DEF FetchOK, Steps, Begun, Holding
<1> QED
  BY <1>1, <1>2, <1>6, <1>12, FetchMoves

\* Every step keeps the promises of the goroutines and of the cache.
LEMMA ServedStep ==
    ASSUME Served, ArrayInv, [Next]_vars
    PROVE  Served'
<1>1. LogInv'
  BY LogStep DEF Served
<1>2. ASSUME NEW f \in Fetches, Fetch(f) PROVE FetchInv' /\ CacheInv'
  <2>1. Get(f) => FetchInv' /\ CacheInv'
    BY GetServed
  <2>2. Lead(f) \/ Join(f) => FetchInv' /\ CacheInv'
    BY LeadServed
  <2>3. Load(f) => FetchInv' /\ CacheInv'
    BY LoadServed
  <2>4. Store(f) => FetchInv' /\ CacheInv'
    BY StoreServed
  <2>5. Today(f) => FetchInv' /\ CacheInv'
    BY TodayServed
  <2>6. AppendToday(f) => FetchInv' /\ CacheInv'
    BY AppendServed
  <2>7. Summarize(f) => FetchInv' /\ CacheInv'
    BY SummarizeServed
  <2>8. Raw(f) => FetchInv' /\ CacheInv'
    BY RawServed
  <2> QED
    BY <1>2, <2>1, <2>2, <2>3, <2>4, <2>5, <2>6, <2>7, <2>8, Zenon DEF Fetch
<1>3. ASSUME NEW q \in Requests, Serve(q) PROVE FetchInv' /\ CacheInv'
  <2>1. \A m \in Monitors : <<q, m>> \in Fetches
    BY DEF Fetches
  <2>2. withDuckDBReadPermit(q) \/ Respond(q) => FetchInv' /\ CacheInv'
    BY RequestServed
  <2> QED
    BY <1>2, <1>3, <2>1, <2>2, Zenon DEF Serve
<1>4. ASSUME Clients PROVE FetchInv' /\ CacheInv'
  <2>1. PICK q \in Requests : TRUE
    BY <1>4 DEF Clients
  <2> QED
    BY <1>4, RequestServed
<1>5. ASSUME UNCHANGED vars PROVE FetchInv' /\ CacheInv'
  <2>1. UNCHANGED <<log, now, setting, fetch, cache>>
    BY <1>5 DEF vars
  <2> QED
    BY <2>1, FetchMoves DEF Served, FetchInv, CacheInv
<1>6. ASSUME NEW f \in Fetches, LoadFails(f) PROVE FetchInv' /\ CacheInv'
  BY <1>6, LoadFailsServed
<1>7. Ingester \/ Tick => FetchInv' /\ CacheInv'
  BY UpsertServed, TickServed
<1>8. FetchInv' /\ CacheInv'
  BY <1>3, <1>4, <1>5, <1>6, <1>7, Zenon DEF Next
<1> QED
  BY <1>1, <1>8 DEF Served

(***************************************************************************)
(* Leaders, arrays and who is to blame: what a step can mean to each of    *)
(* the goroutines.                                                         *)
(***************************************************************************)
Kept(g) == /\ fetch'[g].pc = fetch[g].pc /\ fetch'[g].today = fetch[g].today
           /\ fetch'[g].from = fetch[g].from
           /\ fetch'[g].slice.array \in {fetch[g].slice.array, None}

Turn(g) ==
    \/ Kept(g)
    \/ fetch[g].pc # "off" /\ fetch'[g].pc = "raw" /\ (cancelled(g) \/ faults' > faults)
    \/ fetch[g].pc = "raw" /\ fetch'[g].pc = "done"
    \/ fetch[g].pc = "sum" /\ fetch'[g].pc = "done" /\ fetch'[g].from = "aggregates"
    \/ fetch[g].pc = "get" /\ fetch'[g].pc = "join"
    \/ fetch[g].pc = "join" /\ fetch'[g].pc = "wait"
    \/ /\ fetch[g].pc = "join" /\ fetch'[g].pc = "load" /\ fetch'[g].today = fetch[g].today
       /\ ~InFlight(Key(g)) /\ cache[Key(g)] = NoEntry
       /\ cache' = cache /\ \A h \in Fetches : h # g => fetch'[h] = fetch[h]
    \/ /\ fetch[g].pc = "load" /\ fetch'[g].pc = "store" /\ fetch'[g].today = fetch[g].today
       /\ fetch'[g].slice.array = g
    \/ /\ fetch[g].pc \in Steps \ {"off", "raw", "done"} /\ fetch'[g].pc \in {"today", "append", "sum"}
       /\ \/ fetch'[g].slice.array = None
          \/ Uses(<<g[2], fetch'[g].today>>, fetch'[g].slice.array)

CacheTurn ==
    \/ cache' = cache
    \/ \E f \in Fetches :
        /\ fetch[f].pc = "store" /\ fetch'[f].pc \notin {"load", "store"}
        /\ cache' = [cache EXCEPT ![Key(f)] = [slice   |-> Copied(fetch[f].slice),
                                               expires |-> now + TTL]]

GoTurn == (\A g \in Fetches : Turn(g)) /\ CacheTurn /\ request' = request /\ faults' \in {faults, faults + 1}

\* A key is a key.
LEMMA KeyIsKey ==
    ASSUME Served, NEW g \in Fetches, fetch[g].pc \in Begun \ {"done"}
    PROVE  Key(g) = <<g[2], fetch[g].today>> /\ Key(g) \in Keys
BY DEF Served, FetchInv, FetchOK, Key, aggregateCacheKey, Keys, Fetches

\* Going to the raw rows has somebody to blame.
LEMMA FallBackTurn ==
    ASSUME NEW fs \in SUBSET Fetches, fetch' = FallBack(fs),
           \A g \in fs : fetch[g].pc # "off" /\ (cancelled(g) \/ faults' > faults)
    PROVE  \A g \in Fetches : Turn(g)
<1>1. \A g \in Fetches : fetch'[g] = IF g \in fs THEN [NoFetch EXCEPT !.pc = "raw"] ELSE fetch[g]
  BY DEF FallBack
<1>2. [NoFetch EXCEPT !.pc = "raw"].pc = "raw"
  BY DEF NoFetch
<1> QED
  BY <1>1, <1>2 DEF Turn, Kept

\* The first look into the cache.
LEMMA GetTurn ==
    ASSUME Served, faults \in Nat, NEW f \in Fetches, Get(f)
    PROVE  GoTurn
<1>1. UNCHANGED <<cache, request>> /\ fetch[f].pc = "get" /\ faults' \in {faults, faults + 1}
  BY DEF Get, Fault
<1> DEFINE key   == <<f[2], Day(now)>>
           begun == [fetch[f] EXCEPT !.today = Day(now), !.began = now]
<1>2. DOMAIN fetch[f] = {"pc", "today", "began", "slice", "tail", "from"} /\ DOMAIN fetch = Fetches
  BY DEF Served, FetchInv, FetchOK
<1>3. \/ fetch' = [fetch EXCEPT ![f] = [begun EXCEPT !.pc = "today", !.slice = cache[key].slice]]
      \/ fetch' = [fetch EXCEPT ![f] = [begun EXCEPT !.pc = "join"]]
      \/ fetch' = FallBack({f}) /\ (cancelled(f) \/ faults' = faults + 1)
  BY DEF Get, aggregateCacheKey, Fault
<1>4. CASE fetch' = FallBack({f}) /\ (cancelled(f) \/ faults' = faults + 1)
  BY <1>1, <1>4, FallBackTurn DEF GoTurn, CacheTurn
<1>5. CASE fetch' = [fetch EXCEPT ![f] = [begun EXCEPT !.pc = "join"]]
  <2>1. fetch'[f].pc = "join" /\ \A g \in Fetches : g # f => fetch'[g] = fetch[g]
    BY <1>2, <1>5
  <2> QED
    BY <1>1, <2>1 DEF GoTurn, CacheTurn, Turn, Kept
<1>6. CASE fetch' = [fetch EXCEPT ![f] = [begun EXCEPT !.pc = "today", !.slice = cache[key].slice]]
  <2>1. /\ fetch'[f].pc = "today" /\ fetch'[f].today = Day(now)
        /\ fetch'[f].slice = cache[key].slice
        /\ \A g \in Fetches : g # f => fetch'[g] = fetch[g]
    BY <1>2, <1>6
  <2>2. Uses(<<f[2], fetch'[f].today>>, fetch'[f].slice.array)
    BY <2>1 DEF Uses
  <2> HIDE DEF key, begun
  <2>3. Turn(f)
    BY <1>1, <2>1, <2>2 DEF Turn, Steps
  <2>4. \A g \in Fetches : g # f => Turn(g)
    BY <2>1 DEF Turn, Kept
  <2> QED
    BY <1>1, <2>3, <2>4 DEF GoTurn, CacheTurn
<1> QED
  BY <1>3, <1>4, <1>5, <1>6

\* The second look, and those who lead or join a load.
LEMMA LeadTurn ==
    ASSUME Served, NEW f \in Fetches, Lead(f) \/ Join(f)
    PROVE  GoTurn
<1>1. UNCHANGED <<cache, request, faults>> /\ fetch[f].pc = "join"
  BY DEF Lead, Join
<1>2. DOMAIN fetch[f] = {"pc", "today", "began", "slice", "tail", "from"} /\ DOMAIN fetch = Fetches
      /\ Key(f) = <<f[2], fetch[f].today>>
  BY DEF Served, FetchInv, FetchOK, Key, aggregateCacheKey
<1>3. \/ fetch' = [fetch EXCEPT ![f].pc = "load"] /\ ~InFlight(Key(f)) /\ cache[Key(f)] = NoEntry
      \/ fetch' = [fetch EXCEPT ![f].pc = "wait"]
      \/ fetch' = Resume({f}, cache[Key(f)].slice)
  BY DEF Lead, Join
<1>4. CASE fetch' = [fetch EXCEPT ![f].pc = "load"] /\ ~InFlight(Key(f)) /\ cache[Key(f)] = NoEntry
  <2>1. /\ fetch'[f].pc = "load" /\ fetch'[f].today = fetch[f].today
        /\ \A g \in Fetches : g # f => fetch'[g] = fetch[g]
    BY <1>2, <1>4
  <2>2. Turn(f)
    BY <1>1, <1>4, <2>1 DEF Turn
  <2>3. \A g \in Fetches : g # f => Turn(g)
    BY <2>1 DEF Turn, Kept
  <2> QED
    BY <1>1, <2>2, <2>3 DEF GoTurn, CacheTurn
<1>5. CASE fetch' = [fetch EXCEPT ![f].pc = "wait"]
  <2>1. fetch'[f].pc = "wait" /\ \A g \in Fetches : g # f => fetch'[g] = fetch[g]
    BY <1>2, <1>5
  <2> QED
    BY <1>1, <2>1 DEF GoTurn, CacheTurn, Turn, Kept
<1>6. CASE fetch' = Resume({f}, cache[Key(f)].slice)
  <2>1. /\ fetch'[f].pc = "today" /\ fetch'[f].today = fetch[f].today
        /\ fetch'[f].slice = cache[Key(f)].slice
        /\ \A g \in Fetches : g # f => fetch'[g] = fetch[g]
    BY <1>2, <1>6 DEF Resume
  <2>2. Uses(<<f[2], fetch'[f].today>>, fetch'[f].slice.array)
    BY <1>2, <2>1 DEF Uses
  <2>3. Turn(f)
    BY <1>1, <2>1, <2>2 DEF Turn, Steps
  <2>4. \A g \in Fetches : g # f => Turn(g)
    BY <2>1 DEF Turn, Kept
  <2> QED
    BY <1>1, <2>3, <2>4 DEF GoTurn, CacheTurn
<1> QED
  BY <1>3, <1>4, <1>5, <1>6

\* The load makes an array.
LEMMA LoadTurn ==
    ASSUME Served, NEW f \in Fetches, Load(f)
    PROVE  GoTurn
<1>1. UNCHANGED <<cache, request, faults>> /\ fetch[f].pc = "load"
  BY DEF Load
<1>2. DOMAIN fetch[f] = {"pc", "today", "began", "slice", "tail", "from"} /\ DOMAIN fetch = Fetches
  BY DEF Served, FetchInv, FetchOK
<1>3. PICK rows, room : fetch' = [fetch EXCEPT ![f].pc = "store",
                                               ![f].slice = [rows |-> rows, array |-> f, room |-> room]]
  BY DEF Load
<1>4. /\ fetch'[f].pc = "store" /\ fetch'[f].today = fetch[f].today /\ fetch'[f].slice.array = f
      /\ \A g \in Fetches : g # f => fetch'[g] = fetch[g]
  BY <1>2, <1>3
<1>5. Turn(f)
  BY <1>1, <1>4 DEF Turn
<1>6. \A g \in Fetches : g # f => Turn(g)
  BY <1>4 DEF Turn, Kept
<1> QED
  BY <1>1, <1>5, <1>6 DEF GoTurn, CacheTurn

\* The loaded slice is cached and handed on.
LEMMA StoreTurn ==
    ASSUME Served, NEW f \in Fetches, Store(f)
    PROVE  GoTurn
<1>1. UNCHANGED <<request, faults>> /\ fetch[f].pc = "store"
      /\ fetch' = Resume(Flown(f), fetch[f].slice)
  BY DEF Store
<1>2. \A g \in Fetches :
        /\ DOMAIN fetch[g] = {"pc", "today", "began", "slice", "tail", "from"}
        /\ fetch'[g] = IF g \in Flown(f) THEN [fetch[g] EXCEPT !.pc = "today", !.slice = fetch[f].slice]
                       ELSE fetch[g]
  BY <1>1 DEF Served, FetchInv, FetchOK, Resume
<1>3. ASSUME NEW g \in Fetches, g \in Flown(f) PROVE Turn(g) /\ fetch'[g].pc = "today"
  <2>1. /\ fetch'[g].pc = "today" /\ fetch'[g].today = fetch[g].today
        /\ fetch'[g].slice = fetch[f].slice
    BY <1>2, <1>3
  <2>2. fetch[g].pc \in {"store", "wait"} /\ Key(f) = <<g[2], fetch'[g].today>>
    BY <1>1, <1>3, <2>1, FlownTogether DEF Key, aggregateCacheKey
  <2>3. Uses(<<g[2], fetch'[g].today>>, fetch'[g].slice.array)
    BY <1>1, <2>1, <2>2 DEF Uses
  <2> QED
    BY <2>1, <2>2, <2>3 DEF Turn, Steps
<1>4. \A g \in Fetches : g \notin Flown(f) => Turn(g)
  BY <1>2 DEF Turn, Kept
<1>5. CacheTurn
  <2>1. f \in Flown(f)
    BY DEF Flown
  <2> QED
    BY <1>1, <1>3, <2>1 DEF Store, CacheTurn
<1> QED
  BY <1>1, <1>3, <1>4, <1>5 DEF GoTurn

\* A load fails for everyone who waited for it.
LEMMA LoadFailsTurn ==
    ASSUME Served, faults \in Nat, NEW f \in Fetches, LoadFails(f)
    PROVE  GoTurn
<1>1. /\ UNCHANGED request /\ faults' = faults + 1 /\ fetch' = FallBack(Flown(f))
      /\ fetch[f].pc \in {"load", "store"}
  BY DEF LoadFails, Fault
<1>2. Flown(f) \in SUBSET Fetches /\ \A g \in Flown(f) : fetch[g].pc # "off"
  BY <1>1 DEF Flown
<1>3. \A g \in Fetches : Turn(g)
  BY <1>1, <1>2, FallBackTurn
<1>4. fetch'[f].pc = "raw"
  BY <1>1 DEF Flown, FallBack, NoFetch
<1>5. CacheTurn
  BY <1>4 DEF LoadFails, CacheTurn
<1> QED
  BY <1>1, <1>3, <1>5 DEF GoTurn

\* The current day is read, or that fails.
LEMMA TodayTurn ==
    ASSUME Served, faults \in Nat, NEW f \in Fetches, Today(f)
    PROVE  GoTurn
<1>1. UNCHANGED <<cache, request>> /\ fetch[f].pc = "today"
  BY Zenon DEF Today
<1>2. DOMAIN fetch[f] = {"pc", "today", "began", "slice", "tail", "from"} /\ DOMAIN fetch = Fetches
  BY DEF Served, FetchInv, FetchOK
<1>3. CASE fetch' = FallBack({f}) /\ ((cancelled(f) /\ UNCHANGED faults) \/ Fault)
  BY <1>1, <1>3, FallBackTurn DEF GoTurn, CacheTurn, Fault
<1>4. ASSUME UNCHANGED faults,
             NEW order \in SetToSeqs({row \in RowsOf(f) : row.day = fetch[f].today}),
             fetch' = [fetch EXCEPT ![f].pc = "append",
                                    ![f].tail = [k \in DOMAIN order |-> {order[k]}]]
      PROVE  GoTurn
  <2>1. /\ fetch'[f].pc = "append" /\ fetch'[f].today = fetch[f].today
        /\ fetch'[f].slice = fetch[f].slice
        /\ \A g \in Fetches : g # f => fetch'[g] = fetch[g]
    BY <1>2, <1>4
  <2>2. Uses(<<f[2], fetch'[f].today>>, fetch'[f].slice.array)
    BY <1>1, <2>1 DEF Uses, Key, aggregateCacheKey
  <2>3. Turn(f)
    BY <1>1, <2>1, <2>2 DEF Turn, Steps
  <2>4. \A g \in Fetches : g # f => Turn(g)
    BY <2>1 DEF Turn, Kept
  <2> QED
    BY <1>1, <1>4, <2>3, <2>4 DEF GoTurn, CacheTurn
<1> QED
  BY <1>3, <1>4, Zenon DEF Today

\* The current day is appended; the tails of others may change with it.
LEMMA AppendTurn ==
    ASSUME Served, NEW f \in Fetches, AppendToday(f)
    PROVE  GoTurn
<1> DEFINE mine == fetch[f]
           inPlace == mine.slice.array # None /\ Len(mine.tail) <= mine.slice.room
           shares(g) == fetch[g].pc = "sum" /\ fetch[g].slice.array = mine.slice.array
<1>1. UNCHANGED <<cache, request, faults>> /\ fetch[f].pc = "append"
  BY Zenon DEF AppendToday
<1>2. \A g \in Fetches : /\ DOMAIN fetch[g] = {"pc", "today", "began", "slice", "tail", "from"}
                         /\ DOMAIN fetch[g].slice = {"rows", "array", "room"}
  BY DEF Served, FetchInv, FetchOK
<1>3. ~(mine.slice.rows = {} /\ mine.tail = <<>>)
  <2>1. FetchOK(kind = "daily", log, now, f[2], mine)
    BY DEF Served, FetchInv
  <2>2. mine.slice.rows # {} \/ Len(mine.tail) > 0
    BY <1>1, <2>1 DEF FetchOK, Begun
  <2>3. mine.tail = <<>> => Len(mine.tail) = 0
    OBVIOUS
  <2> QED
    BY <2>2, <2>3
<1>4. fetch' = [g \in Fetches |->
                IF g = f
                THEN [mine EXCEPT !.pc = "sum", !.slice.array = IF inPlace THEN @ ELSE None]
                ELSE IF inPlace /\ shares(g)
                THEN [fetch[g] EXCEPT !.tail = [k \in DOMAIN @ |->
                        IF k <= Len(mine.tail) THEN @[k] \cup mine.tail[k] ELSE @[k]]]
                ELSE fetch[g]]
  BY <1>3, Zenon DEF AppendToday
<1>5. fetch'[f] = [mine EXCEPT !.pc = "sum", !.slice.array = IF inPlace THEN @ ELSE None]
  BY <1>4
<1>6. ASSUME NEW g \in Fetches, g # f
      PROVE  \/ fetch'[g] = fetch[g]
             \/ fetch'[g] = [fetch[g] EXCEPT !.tail = fetch'[g].tail]
  <2>1. CASE inPlace /\ shares(g)
    <3>1. PICK tail : fetch'[g] = [fetch[g] EXCEPT !.tail = tail]
      BY <1>4, <1>6, <2>1
    <3> QED
      BY <1>2, <3>1
  <2>2. CASE ~(inPlace /\ shares(g))
    BY <1>4, <1>6, <2>2
  <2> QED
    BY <2>1, <2>2
<1>7. ASSUME NEW g \in Fetches, g # f PROVE Turn(g)
  <2>1. /\ fetch'[g].pc = fetch[g].pc /\ fetch'[g].today = fetch[g].today
        /\ fetch'[g].from = fetch[g].from /\ fetch'[g].slice = fetch[g].slice
    <3>1. CASE fetch'[g] = fetch[g]
      BY <3>1
    <3>2. CASE fetch'[g] = [fetch[g] EXCEPT !.tail = fetch'[g].tail]
      BY <1>2, <3>2
    <3> QED
      BY <1>6, <1>7, <3>1, <3>2
  <2> QED
    BY <2>1 DEF Turn, Kept
<1>8. Turn(f)
  <2>1. /\ fetch'[f].pc = "sum" /\ fetch'[f].today = mine.today
        /\ fetch'[f].slice.array \in {mine.slice.array, None}
    BY <1>2, <1>5
  <2>2. Uses(<<f[2], mine.today>>, mine.slice.array)
    BY <1>1 DEF Uses, Key, aggregateCacheKey
  <2> HIDE DEF mine
  <2>3. fetch'[f].slice.array = None \/ Uses(<<f[2], fetch'[f].today>>, fetch'[f].slice.array)
    BY <2>1, <2>2
  <2> QED
    BY <1>1, <2>1, <2>3 DEF Turn, Steps
<1> QED
  BY <1>1, <1>7, <1>8 DEF GoTurn, CacheTurn

\* The answer.
LEMMA DoneTurn ==
    ASSUME Served, faults \in Nat, NEW f \in Fetches, Summarize(f) \/ Raw(f)
    PROVE  GoTurn
<1>1. DOMAIN fetch[f] = {"pc", "today", "began", "slice", "tail", "from"} /\ DOMAIN fetch = Fetches
  BY DEF Served, FetchInv, FetchOK
<1>2. UNCHANGED <<cache, request>> /\ fetch[f].pc \in {"sum", "raw"}
      /\ faults' \in {faults, faults + 1}
  <2>1. Summarize(f) => UNCHANGED <<cache, request, faults>> /\ fetch[f].pc = "sum"
    BY Zenon DEF Summarize
  <2>2. Raw(f) => /\ UNCHANGED <<cache, request>> /\ fetch[f].pc = "raw"
                  /\ faults' \in {faults, faults + 1}
    BY DEF Raw, Fault
  <2> QED
    BY <2>1, <2>2
<1>3. PICK from, rows, tail : Done(f, from, rows, tail) /\ (fetch[f].pc = "sum" => from = "aggregates")
  <2>1. Summarize(f) => \E rows, tail : Done(f, "aggregates", rows, tail)
    BY Zenon DEF Summarize
  <2>2. Raw(f) => fetch[f].pc = "raw" /\ \E from : Done(f, from, {}, <<>>)
    BY DEF Raw
  <2> QED
    BY <2>1, <2>2
<1>4. /\ fetch'[f].pc = "done" /\ fetch'[f].from = from
      /\ \A g \in Fetches : g # f => fetch'[g] = fetch[g]
  BY <1>1, <1>3 DEF Done
<1>5. Turn(f)
  BY <1>2, <1>3, <1>4 DEF Turn
<1>6. \A g \in Fetches : g # f => Turn(g)
  BY <1>4 DEF Turn, Kept
<1> QED
  BY <1>2, <1>5, <1>6 DEF GoTurn, CacheTurn

\* What a step of the goroutines can mean.
LEMMA FetchTurns ==
    ASSUME Served, faults \in Nat, NEW f \in Fetches, Fetch(f) \/ LoadFails(f)
    PROVE  GoTurn
<1>1. Get(f) => GoTurn
  BY GetTurn
<1>2. Lead(f) \/ Join(f) => GoTurn
  BY LeadTurn
<1>3. Load(f) => GoTurn
  BY LoadTurn
<1>4. Store(f) => GoTurn
  BY StoreTurn
<1>5. Today(f) => GoTurn
  BY TodayTurn
<1>6. AppendToday(f) => GoTurn
  BY AppendTurn
<1>7. Summarize(f) \/ Raw(f) => GoTurn
  BY DoneTurn
<1>8. LoadFails(f) => GoTurn
  BY LoadFailsTurn
<1> QED
  BY <1>1, <1>2, <1>3, <1>4, <1>5, <1>6, <1>7, <1>8, Zenon DEF Fetch

\* The other steps: goroutines start, their answers are taken, nothing is
\* cached, and nobody who went away comes back.
RestTurn ==
    /\ \A g \in Fetches :
        \/ fetch'[g] = fetch[g]
        \/ fetch'[g] = NoFetch
        \/ fetch'[g] = [fetch[g] EXCEPT !.pc = "get"] /\ request[g[1]].pc = "waiting"
           /\ request'[g[1]].pc = "running"
    /\ \A k \in Keys : cache'[k] = cache[k] \/ (cache'[k] = NoEntry /\ now' > now)
    /\ DOMAIN request' = Requests
    /\ \A q \in Requests :
        /\ DOMAIN request'[q] = {"pc", "of", "cancelled"}
        /\ request[q].cancelled => request'[q].cancelled
        /\ request'[q].pc \in {"new", "waiting"} => request[q].pc \in {"new", "waiting"}
        /\ request'[q].pc = "refused" => request[q].pc \in {"waiting", "refused"}
    /\ faults' = faults

\* That is what requests, clients, the ingester and the clock do.
LEMMA RestTurns ==
    ASSUME Served, RequestInv,
           \/ \E q \in Requests : withDuckDBReadPermit(q) \/ Respond(q)
           \/ Clients \/ Ingester \/ Tick \/ UNCHANGED vars
    PROVE  RestTurn
<1>1. DOMAIN fetch = Fetches /\ DOMAIN request = Requests
      /\ \A p \in Requests : DOMAIN request[p] = {"pc", "of", "cancelled"}
  BY DEF Served, FetchInv, RequestInv
<1>2. ASSUME NEW q \in Requests, withDuckDBReadPermit(q) PROVE RestTurn
  <2>1. /\ UNCHANGED <<cache, faults>> /\ request[q].pc = "waiting"
        /\ request' = [request EXCEPT ![q].pc = "running"]
        /\ \A g \in Fetches : fetch'[g] = fetch[g]
                              \/ (g[1] = q /\ fetch'[g] = [fetch[g] EXCEPT !.pc = "get"])
    BY <1>2 DEF withDuckDBReadPermit
  <2>2. /\ DOMAIN request' = Requests /\ request'[q].pc = "running"
        /\ \A p \in Requests : /\ DOMAIN request'[p] = {"pc", "of", "cancelled"}
                               /\ request'[p].cancelled = request[p].cancelled
                               /\ p # q => request'[p] = request[p]
    BY <1>1, <2>1
  <2> QED
    BY <2>1, <2>2 DEF RestTurn
<1>3. ASSUME NEW q \in Requests, Respond(q) PROVE RestTurn
  <2>1. /\ UNCHANGED <<cache, faults>>
        /\ request' = [request EXCEPT ![q].pc = "answered"]
        /\ \A g \in Fetches : fetch'[g] = fetch[g] \/ fetch'[g] = NoFetch
    BY <1>3 DEF Respond
  <2>2. /\ DOMAIN request' = Requests /\ request'[q].pc = "answered"
        /\ \A p \in Requests : /\ DOMAIN request'[p] = {"pc", "of", "cancelled"}
                               /\ request'[p].cancelled = request[p].cancelled
                               /\ p # q => request'[p] = request[p]
    BY <1>1, <2>1
  <2> QED
    BY <2>1, <2>2 DEF RestTurn
<1>4. ASSUME NEW p \in Requests, NEW monitors, Arrive(p, monitors) PROVE RestTurn
  <2>1. /\ UNCHANGED <<fetch, cache, faults>> /\ request[p].pc = "new"
        /\ request' = [request EXCEPT ![p].pc = "waiting", ![p].of = monitors]
    BY <1>4 DEF Arrive
  <2>2. /\ DOMAIN request' = Requests /\ request'[p].pc = "waiting"
        /\ \A r \in Requests : /\ DOMAIN request'[r] = {"pc", "of", "cancelled"}
                               /\ request'[r].cancelled = request[r].cancelled
                               /\ r # p => request'[r] = request[r]
    BY <1>1, <2>1
  <2> QED
    BY <2>1, <2>2 DEF RestTurn
<1>5. ASSUME NEW p \in Requests, Cancel(p) PROVE RestTurn
  <2>1. UNCHANGED <<fetch, cache, faults>>
    BY <1>5 DEF Cancel
  <2>2. CASE request[p].pc = "waiting" /\ request' = [request EXCEPT ![p].pc = "refused"]
    <3>1. /\ DOMAIN request' = Requests /\ request'[p].pc = "refused"
          /\ \A r \in Requests : /\ DOMAIN request'[r] = {"pc", "of", "cancelled"}
                                 /\ request'[r].cancelled = request[r].cancelled
                                 /\ r # p => request'[r] = request[r]
      BY <1>1, <2>2
    <3> QED
      BY <2>1, <2>2, <3>1 DEF RestTurn
  <2>3. CASE request' = [request EXCEPT ![p].cancelled = TRUE]
    <3>1. /\ DOMAIN request' = Requests /\ request'[p].cancelled
          /\ \A r \in Requests : /\ DOMAIN request'[r] = {"pc", "of", "cancelled"}
                                 /\ request'[r].pc = request[r].pc
                                 /\ r # p => request'[r] = request[r]
      BY <1>1, <2>3
    <3> QED
      BY <2>1, <3>1 DEF RestTurn
  <2> QED
    BY <1>5, <2>2, <2>3 DEF Cancel
<1>6. CASE Ingester
  BY <1>1, <1>6 DEF Ingester, Upsert, RestTurn
<1>7. CASE Tick
  <2>1. /\ UNCHANGED <<request, fetch, faults>> /\ now' > now
        /\ \A k \in Keys : cache'[k] \in {cache[k], NoEntry}
    BY <1>7 DEF Tick, Served, LogInv
  <2> QED
    BY <1>1, <2>1 DEF RestTurn
<1>8. CASE UNCHANGED vars
  BY <1>1, <1>8 DEF vars, RestTurn
<1>9. CASE Clients
  BY <1>4, <1>5, <1>9 DEF Clients
<1> QED
  BY <1>2, <1>3, <1>6, <1>7, <1>8, <1>9

\* Every step is of the one kind or of the other.
LEMMA StepTurns ==
    ASSUME Served, RequestInv, [Next]_vars
    PROVE  GoTurn \/ RestTurn
<1>1. CASE \E q \in Requests : Serve(q)
  <2>1. PICK q \in Requests : Serve(q)
    BY <1>1
  <2>2. ASSUME NEW m \in Monitors, Fetch(<<q, m>>) PROVE GoTurn
    <3>1. <<q, m>> \in Fetches /\ faults \in Nat
      BY DEF Fetches, RequestInv
    <3> QED
      BY <2>2, <3>1, FetchTurns
  <2>3. withDuckDBReadPermit(q) \/ Respond(q) => RestTurn
    BY RestTurns
  <2> QED
    BY <2>1, <2>2, <2>3, Zenon DEF Serve
<1>2. CASE \E f \in Fetches : LoadFails(f)
  BY <1>2, FetchTurns DEF RequestInv
<1>3. CASE Clients \/ Ingester \/ Tick \/ UNCHANGED vars
  BY <1>3, RestTurns
<1> QED
  BY <1>1, <1>2, <1>3, Zenon DEF Next

(***************************************************************************)
(* The invariants about leaders, arrays, blame and requests.               *)
(***************************************************************************)
\* Nobody loads a key that is being loaded or is in the cache.
LEMMA LeaderStep ==
    ASSUME Served, LeaderInv, RequestInv, [Next]_vars
    PROVE  LeaderInv'
<1> DEFINE Leads(g) == fetch[g].pc \in {"load", "store"}
<1>1. \A g \in Fetches : Leads(g) => Key(g) \in Keys
  BY KeyIsKey DEF Begun
<1>2. ASSUME \A g \in Fetches : Leads(g)' => Leads(g) /\ Key(g)' = Key(g),
             \A g \in Fetches : Leads(g)' => cache'[Key(g)] \in {cache[Key(g)], NoEntry}
      PROVE  LeaderInv'
  BY <1>2 DEF LeaderInv
<1>3. CASE RestTurn
  <2>1. ASSUME NEW g \in Fetches, Leads(g)' PROVE fetch'[g] = fetch[g]
    <3>1. NoFetch.pc = "off" /\ DOMAIN fetch[g] = {"pc", "today", "began", "slice", "tail", "from"}
      BY DEF NoFetch, Served, FetchInv, FetchOK
    <3>2. [fetch[g] EXCEPT !.pc = "get"].pc = "get"
      BY <3>1
    <3> QED
      BY <1>3, <2>1, <3>1, <3>2 DEF RestTurn
  <2>2. \A g \in Fetches : Leads(g)' => Leads(g) /\ Key(g)' = Key(g)
    BY <2>1 DEF Key, aggregateCacheKey
  <2>3. \A g \in Fetches : Leads(g)' => cache'[Key(g)] \in {cache[Key(g)], NoEntry}
    BY <1>1, <1>3, <2>2 DEF RestTurn
  <2> QED
    BY <1>2, <2>2, <2>3
<1>4. CASE GoTurn
  <2>1. ASSUME NEW g \in Fetches, Leads(g)'
        PROVE  /\ Key(g)' = Key(g)
               /\ \/ Leads(g)
                  \/ /\ ~InFlight(Key(g)) /\ cache[Key(g)] = NoEntry /\ cache' = cache
                     /\ \A h \in Fetches : h # g => fetch'[h] = fetch[h]
    BY <1>4, <2>1 DEF GoTurn, Turn, Kept, Key, aggregateCacheKey
  <2>2. CASE \E g \in Fetches : Leads(g)' /\ ~Leads(g)
    <3>1. PICK g \in Fetches : /\ Leads(g)' /\ ~Leads(g) /\ Key(g)' = Key(g)
                               /\ ~InFlight(Key(g)) /\ cache[Key(g)] = NoEntry /\ cache' = cache
                               /\ \A h \in Fetches : h # g => fetch'[h] = fetch[h]
      BY <2>1, <2>2
    <3>2. \A h \in Fetches : h # g => Key(h)' = Key(h) /\ Leads(h)' = Leads(h)
      BY <3>1 DEF Key, aggregateCacheKey
    <3>3. \A h \in Fetches : Leads(h) => Key(h) # Key(g)
      BY <3>1 DEF InFlight
    <3> QED
      BY <3>1, <3>2, <3>3 DEF LeaderInv
  <2>3. CASE \A g \in Fetches : Leads(g)' => Leads(g)
    <3>1. ASSUME NEW g \in Fetches, Leads(g)' PROVE cache'[Key(g)] \in {cache[Key(g)], NoEntry}
      <4>1. CASE cache' = cache
        BY <4>1
      <4>2. ASSUME NEW f \in Fetches, fetch[f].pc = "store", fetch'[f].pc \notin {"load", "store"},
                   NEW entry, cache' = [cache EXCEPT ![Key(f)] = entry]
            PROVE  cache'[Key(g)] = cache[Key(g)]
        <5>1. g # f /\ Leads(g) /\ Leads(f)
          BY <2>3, <3>1, <4>2
        <5>2. Key(g) # Key(f)
          BY <5>1 DEF LeaderInv
        <5> QED
          BY <4>2, <5>2
      <4> QED
        BY <1>4, <4>1, <4>2 DEF GoTurn, CacheTurn
    <3> QED
      BY <1>2, <2>1, <2>3, <3>1
  <2> QED
    BY <2>2, <2>3
<1> QED
  BY <1>3, <1>4, StepTurns

\* An array stays with the key it was loaded for.
LEMMA ArrayStep ==
    ASSUME Served, ArrayInv, RequestInv, [Next]_vars
    PROVE  ArrayInv'
<1> DEFINE Has == {"store", "today", "append", "sum"}
           Made(a) == fetch[a].pc = "load" /\ fetch'[a].pc = "store" /\ request' = request
<1>1. \A g \in Fetches : g # None /\ \A k \in Keys : NoEntry.slice.array # g
  BY UptimeAssumption DEF Fetches, NoEntry, NoSlice
<1>2. NoFetch.pc = "off" /\ \A g \in Fetches :
        /\ DOMAIN fetch[g] = {"pc", "today", "began", "slice", "tail", "from"}
        /\ [fetch[g] EXCEPT !.pc = "get"].pc = "get"
  BY DEF NoFetch, Served, FetchInv, FetchOK
<1>3. ASSUME RestTurn, NEW a \in Fetches, NEW k \in Keys, Uses(k, a)'
      PROVE  Uses(k, a)
  <2>1. cache'[k].slice.array = a => cache[k].slice.array = a
    BY <1>1, <1>3 DEF RestTurn
  <2>2. \A g \in Fetches : fetch'[g].pc \in Has => fetch'[g] = fetch[g]
    BY <1>2, <1>3 DEF RestTurn
  <2>3. \A g \in Fetches : fetch'[g] = fetch[g] => Key(g)' = Key(g)
    BY DEF Key, aggregateCacheKey
  <2> QED
    BY <1>3, <2>1, <2>2, <2>3 DEF Uses
<1>4. ASSUME RestTurn, NEW a \in Fetches, Unmade(a)' PROVE Unmade(a)
  <2>1. a[1] \in Requests
    BY DEF Fetches
  <2> QED
    BY <1>2, <1>4, <2>1 DEF RestTurn, Unmade
<1>5. ASSUME GoTurn, NEW a \in Fetches, NEW k \in Keys, Uses(k, a)'
      PROVE  Uses(k, a) \/ (Made(a) /\ k = Key(a))
  <2>1. ASSUME cache'[k].slice.array = a PROVE Uses(k, a)
    <3>1. CASE cache' = cache
      BY <2>1, <3>1 DEF Uses
    <3>2. ASSUME NEW f \in Fetches, fetch[f].pc = "store", NEW entry,
                 cache' = [cache EXCEPT ![Key(f)] = entry], entry.slice = Copied(fetch[f].slice)
          PROVE  Uses(k, a)
      <4>1. CASE k # Key(f)
        BY <2>1, <3>2, <4>1 DEF Uses
      <4>2. CASE k = Key(f)
        <5>1. DOMAIN cache = Keys /\ DOMAIN fetch[f].slice = {"rows", "array", "room"}
          BY DEF Served, CacheInv, FetchInv, FetchOK
        <5>2. Copied(fetch[f].slice).array = a
          BY <2>1, <3>2, <4>2, <5>1
        <5>3. Copied(fetch[f].slice).array \in {fetch[f].slice.array, None}
          BY <5>1 DEF Copied
        <5>4. fetch[f].slice.array = a
          BY <1>1, <5>2, <5>3
        <5> QED
          BY <3>2, <4>2, <5>4 DEF Uses
      <4> QED
        BY <4>1, <4>2
    <3> QED
      BY <1>5, <3>1, <3>2 DEF GoTurn, CacheTurn
  <2>2. ASSUME NEW g \in Fetches, fetch'[g].pc \in Has, Key(g)' = k, fetch'[g].slice.array = a
        PROVE  Uses(k, a) \/ (Made(a) /\ k = Key(a))
    <3>1. k = <<g[2], fetch'[g].today>> /\ Key(g) = <<g[2], fetch[g].today>> /\ a # None
      BY <1>1, <2>2 DEF Key, aggregateCacheKey
    <3>2. CASE Kept(g)
      BY <2>2, <3>1, <3>2 DEF Kept, Uses
    <3>3. CASE fetch[g].pc = "load" /\ fetch'[g].pc = "store" /\ fetch'[g].today = fetch[g].today
               /\ fetch'[g].slice.array = g
      BY <1>5, <2>2, <3>1, <3>3 DEF GoTurn
    <3>4. CASE Uses(<<g[2], fetch'[g].today>>, fetch'[g].slice.array)
      BY <2>2, <3>1, <3>4
    <3>5. Turn(g)
      BY <1>5 DEF GoTurn
    <3> QED
      BY <2>2, <3>1, <3>2, <3>3, <3>4, <3>5 DEF Turn
  <2> QED
    BY <1>5, <2>1, <2>2 DEF Uses
<1>6. ASSUME GoTurn, NEW a \in Fetches, Unmade(a)' PROVE Unmade(a)
  BY <1>6 DEF GoTurn, Turn, Kept, Unmade
<1>7. ASSUME NEW a \in Fetches, Made(a) PROVE Unmade(a) /\ ~Unmade(a)'
  <2>1. request'[a[1]].pc \notin {"new", "waiting"}
    BY <1>7 DEF RequestInv
  <2> QED
    BY <1>7, <2>1 DEF Unmade
<1> HIDE DEF Made
<1>8. ASSUME NEW a \in Fetches, NEW k \in Keys, Uses(k, a)'
      PROVE  Uses(k, a) \/ (Made(a) /\ k = Key(a))
  BY <1>3, <1>5, <1>8, StepTurns
<1>9. \A a \in Fetches : Unmade(a)' => Unmade(a)
  BY <1>4, <1>6, StepTurns
<1>10. \A a \in Fetches : Unmade(a)' => \A k \in Keys : ~Uses(k, a)'
  BY <1>7, <1>8, <1>9 DEF ArrayInv
<1>11. \A a \in Fetches : \A k, j \in Keys : Uses(k, a)' /\ Uses(j, a)' => k = j
  <2> SUFFICES ASSUME NEW a \in Fetches, NEW k \in Keys, NEW j \in Keys, Uses(k, a)', Uses(j, a)'
               PROVE  k = j
    OBVIOUS
  <2>1. CASE Made(a)
    <3>1. ~Uses(k, a) /\ ~Uses(j, a)
      BY <1>7, <2>1 DEF ArrayInv
    <3> QED
      BY <1>8, <3>1
  <2>2. CASE ~Made(a)
    BY <1>8, <2>2 DEF ArrayInv
  <2> QED
    BY <2>1, <2>2
<1> QED
  BY <1>10, <1>11 DEF ArrayInv

\* Without a failure, only who went away is sent to the raw rows.
LEMMA CancelStep ==
    ASSUME Served, CancelInv, RequestInv, [Next]_vars
    PROVE  CancelInv'
<1> DEFINE Lost(g) == fetch[g].pc = "raw" \/ (fetch[g].pc = "done" /\ fetch[g].from # "aggregates")
<1> SUFFICES ASSUME faults' = 0, NEW g \in Fetches, Lost(g)'
             PROVE  request'[g[1]].cancelled
  BY DEF CancelInv, cancelled
<1>1. faults \in Nat /\ g[1] \in Requests
  BY DEF RequestInv, Fetches
<1>2. faults = 0 /\ (Lost(g) => request[g[1]].cancelled)
  <2>1. faults' \in {faults, faults + 1}
    BY StepTurns DEF GoTurn, RestTurn
  <2> QED
    BY <1>1, <2>1 DEF CancelInv, cancelled
<1>3. CASE RestTurn
  <2>1. /\ NoFetch.pc = "off" /\ DOMAIN fetch[g] = {"pc", "today", "began", "slice", "tail", "from"}
        /\ [fetch[g] EXCEPT !.pc = "get"].pc = "get"
    BY DEF NoFetch, Served, FetchInv, FetchOK
  <2>2. fetch'[g] = fetch[g]
    BY <1>3, <2>1 DEF RestTurn
  <2> QED
    BY <1>1, <1>2, <1>3, <2>2 DEF RestTurn
<1>4. CASE GoTurn
  <2>1. Turn(g) /\ request' = request
    BY <1>4 DEF GoTurn
  <2> QED
    BY <1>2, <2>1 DEF Turn, Kept, cancelled
<1> QED
  BY <1>3, <1>4, StepTurns

\* No goroutine runs before its request has a permit.
LEMMA RequestStep ==
    ASSUME Served, RequestInv, [Next]_vars
    PROVE  RequestInv'
<1>1. \A g \in Fetches : g[1] \in Requests
  BY DEF Fetches
<1>2. CASE RestTurn
  <2>1. ASSUME NEW g \in Fetches, fetch'[g].pc # "off"
        PROVE  request'[g[1]].pc \notin {"new", "waiting", "refused"}
    <3>1. NoFetch.pc = "off"
      BY DEF NoFetch
    <3>2. CASE fetch'[g] = fetch[g]
      BY <1>1, <1>2, <2>1, <3>2 DEF RestTurn, RequestInv
    <3> QED
      BY <1>2, <2>1, <3>1, <3>2 DEF RestTurn
  <2> QED
    BY <1>2, <2>1 DEF RestTurn, RequestInv
<1>3. CASE GoTurn
  <2>1. \A g \in Fetches : fetch'[g].pc # "off" => fetch[g].pc # "off"
    BY <1>3 DEF GoTurn, Turn, Kept
  <2> QED
    BY <1>3, <2>1 DEF GoTurn, RequestInv
<1> QED
  BY <1>2, <1>3, StepTurns

(***************************************************************************)
(* The theorems.                                                           *)
(***************************************************************************)
\* The process starts with every day of every line aggregated.
LEMMA UptimeInit ==
    ASSUME Init
    PROVE  UptimeInv
<1> USE DEF Init
<1>1. /\ now \in Nat /\ now <= MaxTime /\ 0 \in Days
      /\ Lines \subseteq AnyLine /\ Lines # {}
  <2>1. /\ FirstTime \in Nat /\ FirstTime <= MaxTime /\ Regions # {}
        /\ 0 \in Nat /\ MaxTime \in Nat /\ 0 <= MaxTime
    BY UptimeAssumption
  <2>2. Day(MaxTime) \in Nat
    BY <2>1, DayMonotone
  <2> QED
    BY <2>1, <2>2, LinesType DEF Days, Lines
<1>2. LogInv
  <2>1. log \subseteq LogRow /\ \A row \in log : row.at <= now /\ row.line \in Lines
    BY <1>1 DEF Row, LogRow
  <2>2. ASSUME NEW m \in Monitors PROVE \E row \in log : row.monitor = m /\ row.day = 0
    <3>1. PICK line \in Lines : TRUE
      BY <1>1
    <3> DEFINE row == [monitor |-> m, day |-> 0, line |-> line, at |-> 0]
    <3>2. row \in Row
      BY <1>1, UptimeAssumption DEF Row
    <3>3. 0 <= Day(FirstTime)
      BY DayMonotone, UptimeAssumption
    <3>4. row \in log /\ row.monitor = m /\ row.day = 0
      BY <3>2, <3>3
    <3> QED
      BY <3>4
  <2> QED
    BY <1>1, <2>1, <2>2 DEF LogInv
<1>3. FetchInv
  BY IdleFetchOK DEF FetchInv
<1>4. CacheInv
  BY DEF CacheInv, EntryOK
<1>5. NoFetch.pc = "off"
  BY DEF NoFetch
<1>6. LeaderInv /\ CancelInv
  BY <1>5 DEF LeaderInv, CancelInv
<1>7. ArrayInv
  <2>1. \A f \in Fetches : f # None /\ NoEntry.slice.array = None
    BY UptimeAssumption DEF Fetches, NoEntry, NoSlice
  <2> QED
    BY <1>5, <2>1 DEF ArrayInv, Uses
<1>8. RequestInv
  BY <1>5 DEF RequestInv
<1> QED
  BY <1>2, <1>3, <1>4, <1>6, <1>7, <1>8 DEF UptimeInv

\* UptimeInv is inductive.
LEMMA UptimeStep ==
    ASSUME UptimeInv, [Next]_vars
    PROVE  UptimeInv'
<1>1. Served /\ LeaderInv /\ ArrayInv /\ CancelInv /\ RequestInv
  BY DEF UptimeInv, Served
<1>2. LogInv' /\ FetchInv' /\ CacheInv'
  BY <1>1, ServedStep DEF Served
<1>3. LeaderInv' /\ ArrayInv' /\ CancelInv' /\ RequestInv'
  BY <1>1, LeaderStep, ArrayStep, CancelStep, RequestStep
<1> QED
  BY <1>2, <1>3 DEF UptimeInv

\* UptimeInv holds in every reachable state.
LEMMA UptimeInvariant == Spec => []UptimeInv
<1>1. Init => UptimeInv
  BY UptimeInit
<1>2. UptimeInv /\ [Next]_vars => UptimeInv'
  BY UptimeStep
<1> QED
  BY <1>1, <1>2, PTL DEF Spec

\* fetchFromAggregateMonitorHistorical never counts a day twice, whatever else
\* reads, writes, expires or appends to the same slice at the same time.
THEOREM DaysCountOnce == Spec => []EachDayOnce
<1>1. ASSUME UptimeInv, NEW f \in Fetches, Answered(f), kind = "daily"
      PROVE  /\ \A a, b \in Finished(f) : SameLine(a, b) => a = b
             /\ \A k \in DOMAIN Current(f) :
                    /\ \A a \in Finished(f) : ~SameLine(a, Current(f)[k])
                    /\ \A j \in 1 .. k - 1 : ~SameLine(Current(f)[j], Current(f)[k])
  <2>1. /\ FetchOK(TRUE, log, now, f[2], fetch[f])
        /\ fetch[f].pc = "done" /\ fetch[f].from = "aggregates"
    BY <1>1 DEF UptimeInv, FetchInv, Answered
  <2>2. /\ fetch[f].today \in Days
        /\ SliceRows(fetch[f].slice.rows, f[2], fetch[f].today)
        /\ AnswerRows(log, fetch[f].tail, f[2], fetch[f].today, fetch[f].began - TTL)
    BY <2>1 DEF FetchOK, Begun, Holding
  <2>3. \A a \in Finished(f) : a.day < fetch[f].today /\ a.day \in Int
    BY <2>2 DEF SliceRows, Finished, LogRow, Days
  <2>4. \A k \in DOMAIN Current(f) : k = 1 /\ Current(f)[k].day = fetch[f].today
    BY <2>2 DEF AnswerRows, Current
  <2>5. \A a, b \in Finished(f) : SameLine(a, b) => a = b
    BY <2>2 DEF SliceRows, Finished
  <2> QED
    BY <2>2, <2>3, <2>4, <2>5 DEF SameLine, Days
<1>2. UptimeInv => EachDayOnce
  BY <1>1 DEF EachDayOnce
<1> QED
  BY <1>2, UptimeInvariant, PTL

\* An answer from the aggregates, by way of the cache and of other requests'
\* loads, misses nothing that was written a TTL before it began.
THEOREM CacheHidesNothing == Spec => []NothingHidden
<1>1. ASSUME UptimeInv, NEW f \in Fetches, Answered(f),
             NEW row \in log, row.monitor = f[2], row.at < fetch[f].began - TTL,
             row.day < fetch[f].today \/ (kind = "daily" /\ row.day = fetch[f].today)
      PROVE  \E seen \in Finished(f) \cup Range(Current(f)) :
                    SameLine(seen, row) /\ seen.at >= row.at
  <2>1. /\ FetchOK(kind = "daily", log, now, f[2], fetch[f])
        /\ fetch[f].pc = "done" /\ fetch[f].from = "aggregates"
    BY <1>1 DEF UptimeInv, FetchInv, Answered
  <2>2. CASE row.day < fetch[f].today
    <3>1. Covers(log, fetch[f].slice.rows, f[2], fetch[f].today, fetch[f].began - TTL)
      BY <2>1 DEF FetchOK, Begun, Holding
    <3> QED
      BY <1>1, <2>2, <3>1 DEF Covers, Finished
  <2>3. CASE kind = "daily" /\ row.day = fetch[f].today
    <3>1. AnswerRows(log, fetch[f].tail, f[2], fetch[f].today, fetch[f].began - TTL)
      BY <2>1, <2>3 DEF FetchOK, Begun
    <3>2. 1 \in DOMAIN Current(f) /\ SameLine(Current(f)[1], row) /\ Current(f)[1].at >= row.at
      BY <1>1, <2>3, <3>1 DEF AnswerRows, Current
    <3> QED
      BY <3>2 DEF Range
  <2> QED
    BY <1>1, <2>2, <2>3
<1>2. UptimeInv => NothingHidden
  BY <1>1 DEF NothingHidden
<1> QED
  BY <1>2, UptimeInvariant, PTL

\* context.WithoutCancel in getOrLoadContext: who leaves costs nobody else the
\* aggregates, the leader of a shared load included.
THEOREM LeavingIsPrivate == Spec => []CancelIsPrivate
<1>1. UptimeInv => CancelIsPrivate
  BY DEF UptimeInv, CancelInv, CancelIsPrivate
<1> QED
  BY <1>1, UptimeInvariant, PTL

\* The singleflight group with its second look: an entry that may still be
\* served is never replaced.
THEOREM LoadedOnce == Spec => OneLoad
<1>1. ASSUME UptimeInv, [Next]_vars, NEW k \in Keys, cache'[k] # cache[k]
      PROVE  cache[k] = NoEntry \/ now' > now
  <2>1. Served /\ LeaderInv /\ RequestInv
    BY <1>1 DEF UptimeInv, Served
  <2>2. CASE RestTurn
    BY <1>1, <2>2 DEF RestTurn
  <2>3. CASE GoTurn
    <3>1. PICK f \in Fetches :
                fetch[f].pc = "store" /\ \E entry : cache' = [cache EXCEPT ![Key(f)] = entry]
      BY <1>1, <2>3 DEF GoTurn, CacheTurn
    <3>2. k = Key(f)
      BY <1>1, <3>1
    <3> QED
      BY <2>1, <3>1, <3>2 DEF LeaderInv
  <2> QED
    BY <1>1, <2>1, <2>2, <2>3, StepTurns
<1>2. UptimeInv /\ [Next]_vars
        => [\A k \in Keys : cache'[k] # cache[k] => cache[k] = NoEntry \/ now' > now]_vars
  BY <1>1
<1> QED
  BY <1>2, UptimeInvariant, PTL DEF Spec, OneLoad
=============================================================================
