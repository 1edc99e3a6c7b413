------------------------------ MODULE Monitoring ------------------------------
(***************************************************************************)
(* The process-wide services of shared/monitoring: a run of all health     *)
(* checks (health-check.ts), which waits for one check after another while *)
(* checks are added and removed; the series of the metrics collector       *)
(* (metrics.ts) with a benchmark that feeds them (performance-benchmark.ts *)
(* and error-handler.ts); and what the logger prints (logger.ts).          *)
(*                                                                         *)
(* A Map keeps its entries in the order they were added: an iteration      *)
(* meets what is added behind it, and what is removed and added again a    *)
(* second time.  So an entry has a place, and a removed one stays there as *)
(* gone.  A logged value is a graph of nodes, each a sequence of children  *)
(* with their keys; the recursion over it is a stack of nodes, one step    *)
(* per entry.                                                              *)
(***************************************************************************)
EXTENDS Integers, Sequences, FiniteSets, SequencesExt, FiniteSetsExt

CONSTANTS
  None,
  Names,       \* of checks
  MaxPoints,   \* points of a series that are kept: 1000
  MaxDepth, MaxNodes, MaxEntries, \* of a value the logger prints: 8, 1000 and 100
  Timeout,     \* of a benchmark
  Services,    \* which service is used, and with what
  MaxChanges   \* bound: checks added and removed, observations, and iterations

MonitoringConstants ==
  /\ MaxPoints \in Nat \ {0} /\ MaxDepth \in Nat /\ MaxNodes \in Nat /\ MaxEntries \in Nat
  /\ Timeout \in Nat /\ MaxChanges \in Nat /\ None \notin Nat /\ IsFiniteSet(Names)
  /\ \A s \in Services :
       /\ s.kind \in {"health", "metrics", "operation", "benchmark", "logger"}
       /\ s.kind = "benchmark" => s.durations \subseteq Nat
       /\ s.kind = "logger" =>
            /\ s.root \in DOMAIN s.nodes \cup s.leaves
            /\ \A node \in DOMAIN s.nodes : s.nodes[node] \in
                 Seq([value : DOMAIN s.nodes \cup s.leaves, secret : BOOLEAN])

VARIABLES
  service, \* the one in use
  checks,  \* the entries of the Map by place, gone or not
  cursor,  \* the place the iteration has come to; None before the run
  running, \* a check is awaited
  results, \* results[name], of the report
  overall, \* overallStatus
  pc,      \* "running", "redacting", "reducing" or "done"
  watched, \* ghost: names registered since before the run
  changes, \* bound: what MaxChanges counts
  series,  \* the points of a series, its value and its kind
  total,   \* ghost: all the observations
  times,   \* what the iterations of a benchmark took, which failed, and when they began
  stats,   \* what calculateStats makes of the first of them
  walk     \* of redactValue: the nodes it is in, nodesVisited, and the leaves it prints

health == <<checks, cursor, running, results, overall, watched>>
observed == <<series, total>>
measured == <<times, stats>>

vars == <<service, health, pc, changes, observed, measured, walk>>

Statuses == {"healthy", "degraded", "unhealthy"}
Badness(status) == CASE status = "healthy" -> 0 [] status = "degraded" -> 1 [] OTHER -> 2

Init ==
  /\ service \in Services
  /\ checks = [i \in 1..Cardinality(Names) |-> [name |-> SetToSeq(Names)[i], gone |-> FALSE]]
  /\ cursor = None /\ running = FALSE
  /\ results = [n \in {} |-> None] /\ overall = "healthy" /\ watched = Names
  /\ pc = "running" /\ changes = 0
  /\ series = [kind |-> None, value |-> 0, points |-> <<>>] /\ total = <<>>
  /\ times = <<>> /\ stats = [seen |-> 0, valid |-> 0, duration |-> 0, min |-> 0, max |-> 0]
  /\ walk = [inside |-> <<>>, visited |-> 0, printed |-> {}]

Uses(kind) == service.kind = kind /\ pc = "running"

Change == changes < MaxChanges /\ changes' = changes + 1

-----------------------------------------------------------------------------
(* Health checks *)

Live(name) == {i \in DOMAIN checks : checks[i].name = name /\ ~checks[i].gone}

\* Map.set: an entry that is there keeps its place.
AddCheck(name) ==
  /\ Uses("health") /\ Live(name) = {} /\ Change
  /\ checks' = Append(checks, [name |-> name, gone |-> FALSE])
  /\ UNCHANGED <<service, cursor, running, results, overall, pc, watched, observed, measured, walk>>

RemoveCheck(name) ==
  /\ Uses("health") /\ Live(name) # {} /\ Change
  /\ checks' = [i \in DOMAIN checks |-> IF i \in Live(name) THEN [checks[i] EXCEPT !.gone = TRUE]
                                                           ELSE checks[i]]
  /\ watched' = watched \ {name}
  /\ UNCHANGED <<service, cursor, running, results, overall, pc, observed, measured, walk>>

Ahead == {i \in DOMAIN checks : ~checks[i].gone /\ (cursor # None => i > cursor)}

\* Mutant: the iteration begins anew after each check.
RunFirst ==
  /\ Uses("health") /\ ~running /\ Ahead # {}
  /\ cursor' = Min({i \in DOMAIN checks : ~checks[i].gone}) /\ running' = TRUE
  /\ UNCHANGED <<service, checks, results, overall, pc, watched, changes, observed, measured,
                 walk>>

\* The iteration goes on to the next entry, and runCheck calls its check.
RunCheck ==
  /\ Uses("health") /\ ~running /\ Ahead # {}
  /\ cursor' = Min(Ahead) /\ running' = TRUE
  /\ UNCHANGED <<service, checks, results, overall, pc, watched, changes, observed, measured,
                 walk>>

\* Mutant: the report has the status of the last check.
LastStatus(status) == status

\* The worst status so far.
Overall(status) ==
  IF status = "unhealthy" \/ (status = "degraded" /\ overall = "healthy") THEN status ELSE overall

\* The check answers, throws, or is overtaken by the timer.
CheckEnds(status) ==
  /\ Uses("health") /\ running
  /\ LET name == checks[cursor].name
     IN results' = [n \in DOMAIN results \cup {name} |-> IF n = name THEN status ELSE results[n]]
  /\ overall' = Overall(status) /\ running' = FALSE
  /\ UNCHANGED <<service, checks, cursor, pc, watched, changes, observed, measured,
                 walk>>

RunAllChecks ==
  /\ Uses("health") /\ ~running /\ Ahead = {}
  /\ pc' = "done"
  /\ UNCHANGED <<service, health, changes, observed, measured, walk>>

-----------------------------------------------------------------------------
(* Metrics *)

\* addPoint: the latest MaxPoints.
AddPoint(points) == SubSeq(points, Len(points) - Min({Len(points), MaxPoints}) + 1, Len(points))

\* The kind is that of the first observation of the key.
Observe(kind, value, point) ==
  /\ series' = [kind |-> IF series.kind = None THEN kind ELSE series.kind,
                value |-> value, points |-> AddPoint(Append(series.points, point))]
  /\ total' = Append(total, point)

Counter(n) ==
  /\ Uses("metrics") /\ Change
  /\ Observe("counter", series.value + n, series.value + n)
  /\ UNCHANGED <<service, health, pc, measured, walk>>

Gauge(v) ==
  /\ Uses("metrics") /\ Change
  /\ Observe("gauge", v, v)
  /\ UNCHANGED <<service, health, pc, measured, walk>>

\* Its value stays zero.
Histogram(v) ==
  /\ Uses("metrics") /\ Change
  /\ Observe("histogram", series.value, v)
  /\ UNCHANGED <<service, health, pc, measured, walk>>

Clear ==
  /\ Uses("metrics") /\ Change
  /\ series' = [kind |-> None, value |-> 0, points |-> <<>>] /\ total' = <<>>
  /\ UNCHANGED <<service, health, pc, measured, walk>>

-----------------------------------------------------------------------------
(* Benchmarks *)

\* performance.now() - startTime, after the iterations so far.
Elapsed == IF times = <<>> THEN 0 ELSE Last(times).began + Last(times).took

\* An iteration takes its time, and counts as none when it fails; the clock is looked at after
\* each.
Iterate ==
  /\ Uses("benchmark") /\ Len(times) < service.iterations /\ Elapsed <= Timeout
  /\ \E took \in service.durations, ok \in BOOLEAN :
       /\ times' = Append(times, [took |-> took, ok |-> ok, began |-> Elapsed])
       /\ IF ok THEN Observe("histogram", series.value, took) ELSE UNCHANGED observed
  /\ UNCHANGED <<service, health, pc, changes, stats, walk>>

Benchmark ==
  /\ Uses("benchmark") /\ (Len(times) = service.iterations \/ Elapsed > Timeout)
  /\ pc' = "reducing"
  /\ UNCHANGED <<service, health, changes, observed, measured, walk>>

\* validTimes: the iterations that succeeded and took any time.
Valid(t) == t.ok /\ t.took > 0

\* The number, the sum, the least and the greatest, of valid times.
Count(t) ==
  IF ~Valid(t) THEN [stats EXCEPT !.seen = @ + 1]
  ELSE [seen |-> stats.seen + 1, valid |-> stats.valid + 1, duration |-> stats.duration + t.took,
        min |-> IF stats.valid = 0 \/ t.took < stats.min THEN t.took ELSE stats.min,
        max |-> IF t.took > stats.max THEN t.took ELSE stats.max]

\* calculateStats goes through the times.
CalculateStats ==
  /\ pc = "reducing"
  /\ \/ stats.seen < Len(times) /\ stats' = Count(times[stats.seen + 1]) /\ UNCHANGED pc
     \/ stats.seen = Len(times) /\ pc' = "done" /\ UNCHANGED stats
  /\ UNCHANGED <<service, health, changes, observed, times, walk>>

-----------------------------------------------------------------------------
(* The logger and errors *)

Levels == [level \in {"debug", "info", "warn", "error"} |->
             CASE level = "debug" -> 0 [] level = "info" -> 1 [] level = "warn" -> 2
               [] OTHER -> 3]

ShouldLog(level) == Levels[level] >= Levels[service.logLevel]

Entered(node) == \E i \in DOMAIN walk.inside : walk.inside[i].node = node

\* redactValue is called, inside of the nodes of a stack: a leaf is printed, a node entered
\* unless it is too deep, one of too many, or among its own ancestors.
Redact(value, inside) ==
  IF value \notin DOMAIN service.nodes
  THEN [walk EXCEPT !.inside = inside, !.printed = @ \cup {value}]
  ELSE IF Len(inside) >= MaxDepth \/ walk.visited >= MaxNodes \/ Entered(value)
  THEN [walk EXCEPT !.inside = inside]
  ELSE [walk EXCEPT !.inside = Append(inside, [node |-> value, next |-> 1]), !.visited = @ + 1]

\* log: redactForLogging of the context, if the level is on.
Log ==
  /\ Uses("logger")
  /\ \/ ShouldLog(service.level) /\ walk' = Redact(service.root, <<>>) /\ pc' = "redacting"
     \/ ~ShouldLog(service.level) /\ UNCHANGED walk /\ pc' = "done"
  /\ UNCHANGED <<service, health, changes, observed, measured>>

Children == service.nodes[Last(walk.inside).node]
Entry == Last(walk.inside).next
Advanced == [walk.inside EXCEPT ![Len(walk.inside)].next = @ + 1]

\* The next entry of the innermost node: skipped under a secret key, else redacted.
RedactEntry ==
  /\ walk.inside # <<>> /\ Entry <= Len(Children) /\ Entry <= MaxEntries
  /\ walk' = IF Children[Entry].secret
             THEN [walk EXCEPT !.inside = Advanced] ELSE Redact(Children[Entry].value, Advanced)
  /\ UNCHANGED pc

\* After the last one, or too many, back to the node outside of it.
LeaveNode ==
  /\ walk.inside # <<>> /\ (Entry > Len(Children) \/ Entry > MaxEntries)
  /\ walk' = [walk EXCEPT !.inside = Front(@)]
  /\ UNCHANGED pc

RedactValue ==
  /\ pc = "redacting"
  /\ \/ RedactEntry \/ LeaveNode
     \/ walk.inside = <<>> /\ pc' = "done" /\ UNCHANGED walk
  /\ UNCHANGED <<service, health, changes, observed, measured>>

\* wrapOperation: whatever is thrown becomes an error of the general class, which is logged and
\* counted.
WrapOperation ==
  /\ Uses("operation")
  /\ pc' = "done"
  /\ IF service.throws = None THEN UNCHANGED <<results, observed>>
     ELSE /\ results' = [n \in {"error"} |-> "general"]
          /\ Observe("counter", series.value + 1, series.value + 1)
  /\ UNCHANGED <<service, checks, cursor, running, overall, watched, changes, measured, walk>>

Next ==
  \/ \E name \in Names : AddCheck(name) \/ RemoveCheck(name)
  \/ RunCheck \/ RunAllChecks
  \/ \E status \in Statuses : CheckEnds(status)
  \/ \E n \in {0, 1, 2} : Counter(n) \/ Gauge(n) \/ Histogram(n)
  \/ Clear \/ Iterate \/ Benchmark \/ CalculateStats \/ Log \/ RedactValue \/ WrapOperation

Safety == Init /\ [][Next]_vars

HealthStep == RunCheck \/ RunAllChecks \/ \E status \in Statuses : CheckEnds(status)

\* The loops go on, and a check is raced by a timer.
Progress == HealthStep \/ Log \/ RedactValue

Spec == Safety /\ WF_vars(Progress)

-----------------------------------------------------------------------------
(* Properties *)

\* The report of a run is as bad as the worst check it lists, and lists every check that was there
\* all the time, whatever was added and removed meanwhile (runAllChecks).
ReportSound ==
  pc = "done" /\ service.kind = "health" =>
    /\ \A n \in DOMAIN results : Badness(overall) >= Badness(results[n])
    /\ watched \subseteq DOMAIN results

\* A series keeps its latest observations in order (addPoint); a benchmark starts no iteration
\* after the time has passed, and the average it reports lies between its fastest and its slowest
\* success that took any time (benchmark, calculateStats).
SeriesTrue ==
  LET kept == Len(series.points)
      valid == {times[n].took : n \in {n \in DOMAIN times : Valid(times[n])}}
  IN
  /\ kept = Min({Len(total), MaxPoints})
  /\ \A i \in 1..kept : series.points[i] = total[Len(total) - kept + i]
  /\ \A n \in DOMAIN times : times[n].began <= Timeout
  /\ pc = "done" /\ service.kind = "benchmark" =>
       /\ Len(times) = service.iterations \/ Elapsed > Timeout
       /\ \A took \in valid : stats.min <= took /\ took <= stats.max
       /\ valid # {} => {stats.min, stats.max} \subseteq valid
       /\ stats.valid * stats.min <= stats.duration /\ stats.duration <= stats.valid * stats.max

\* What is reached from the root without a secret key.
Plain ==
  {v \in DOMAIN service.nodes \cup service.leaves :
     \A S \in SUBSET (DOMAIN service.nodes \cup service.leaves) :
       /\ service.root \in S
       /\ \A node \in S \cap DOMAIN service.nodes : \A i \in DOMAIN service.nodes[node] :
            service.nodes[node][i].secret \/ service.nodes[node][i].value \in S
       => v \in S}

\* Nothing that stands under a secret key, or below it, is printed, unless it stands elsewhere
\* too; and no more nodes are visited, and none deeper, than the limits say (redactValue).
SecretsKept ==
  service.kind = "logger" =>
    walk.printed \subseteq Plain /\ walk.visited <= MaxNodes /\ Len(walk.inside) <= MaxDepth

\* What the services of shared/monitoring report is so, each of its own kind.
MonitoringSound == ReportSound /\ SeriesTrue /\ SecretsKept

\* A run of all checks ends, however slow a check is, and so does the redaction of a value that
\* refers to itself.
RunEnds == service.kind \in {"health", "logger"} ~> pc = "done"

=============================================================================
