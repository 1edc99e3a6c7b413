----------------------------- MODULE Singletons ------------------------------
(***************************************************************************)
(* What a process keeps once for all its callers: the caches of rates and  *)
(* fee tokens (FeeTokenCache), and the services that monitor it            *)
(* (Monitoring).  They share nothing, and one is used at a time; the other *)
(* stays in a state in which it may start.                                 *)
(***************************************************************************)
EXTENDS FeeTokenCache

CONSTANTS
  None, Names, MaxPoints, MaxDepth, MaxNodes, MaxEntries, Timeout, Services, MaxChanges

VARIABLES
  part,  \* what is used: "caches" or "monitoring"
  service, checks, cursor, running, results, overall, servicePc, watched, changes, series, total,
  times, stats, walk

monitoringVars ==
  <<service, checks, cursor, running, results, overall, servicePc, watched, changes, series, total,
    times, stats, walk>>

Monitor == INSTANCE Monitoring WITH pc <- servicePc

ASSUME MonitoringAssumption == Monitor!MonitoringConstants

-----------------------------------------------------------------------------
IdleCaches == client = FALSE /\ CacheInit

IdleMonitoring == service = (CHOOSE s \in Services : TRUE) /\ Monitor!Init

InitAny ==
  \/ part = "caches" /\ IdleMonitoring /\ CacheInit
  \/ part = "monitoring" /\ IdleCaches /\ Monitor!Init

NextAny ==
  /\ UNCHANGED part
  /\ \/ part = "caches" /\ CacheNext /\ UNCHANGED monitoringVars
     \/ part = "monitoring" /\ Monitor!Next /\ UNCHANGED cacheVars

Progress == part = "monitoring" /\ Monitor!Progress /\ UNCHANGED <<part, cacheVars>>

any == <<part, cacheVars, monitoringVars>>

SpecAny == InitAny /\ [][NextAny]_any /\ WF_any(Progress)

-----------------------------------------------------------------------------
(* Properties of the services *)

\* What the services of shared/monitoring report is so (runAllChecks, addPoint, calculateStats,
\* redactValue).
MonitoringSound == Monitor!MonitoringSound

\* A run of all checks ends, however slow a check is, and so does the redaction of a value that
\* refers to itself.
RunEnds == part = "monitoring" => Monitor!RunEnds
=============================================================================
