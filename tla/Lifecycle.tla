----------------------------- MODULE Lifecycle -----------------------------
(* One process of the service, from boot to exit: ServiceLifecycle, which  *)
(* the SSO and the account portal share, with each one's main() and hooks. *)
(* Signals, a failing listener, a failing startup step and the shutdown    *)
(* deadline come at any moment; requests, hourly tasks and deliveries are  *)
(* in flight while it happens, and clients hang up on requests.            *)
EXTENDS Naturals, Sequences

CONSTANT MaxWork     \* requests, tasks and deliveries in flight, each

VARIABLES
    kind,        \* "sso" or "portal"
    life,        \* the fields of ServiceLifecycle and the stage of main()
    work,        \* what uses the clients: requests, handlers whose client hung
                 \* up ("orphans"), hourly tasks, deliveries
    clients      \* database, Redis and fetch clients of the process

lifecycleVars == <<kind, life, work, clients>>

Settled == {"done", "failed", "skipped"}
NoWork == [requests |-> 0, orphans |-> 0, tasks |-> 0, drains |-> 0]

(* Ending the process: the first call wins.                                *)
exit(l, c) == IF l.exits # << >> THEN l ELSE [l EXCEPT !.exits = <<c>>, !.phase = "over"]

(* The first stop closes the door: no new request, no timer, no delivery.  *)
(* Every later one only raises the exit code.                              *)
stop_Again(l, c) ==
    [l EXCEPT !.code = c, !.stopping = TRUE, !.timers = FALSE, !.pump = FALSE, !.phase = "http",
              !.http = IF @ = "open" THEN "closing" ELSE @]
stop(l, c) ==
    LET m == [l EXCEPT !.code = IF c > @ THEN c ELSE @]
    IN  IF l.stopping THEN m
        ELSE [m EXCEPT !.stopping = TRUE, !.timers = FALSE, !.pump = FALSE, !.phase = "http",
                       !.http = IF @ = "open" THEN "closing" ELSE @]
listen(l) == IF l.stopping THEN l ELSE [l EXCEPT !.http = "open"]
every(l) == IF l.stopping THEN l ELSE [l EXCEPT !.timers = TRUE]

Running == life.phase # "over"
Stage(from, l) == life.boot = from /\ Running /\ life' = l /\ UNCHANGED <<kind, clients>>

-----------------------------------------------------------------------------
(* Startup.  A step that fails makes the exit code 1 and stops the service;*)
(* a stop that came first is noticed after each wait.                      *)
boot ==
    /\ life.boot = "idle" /\ Running
    /\ IF life.stopping THEN Stage("idle", [life EXCEPT !.boot = "skipped"])
       ELSE IF kind = "portal" THEN Stage("idle", listen([life EXCEPT !.boot = "done"]))
       ELSE Stage("idle", [life EXCEPT !.boot = "resolve"])
    /\ UNCHANGED work

resolved ==
    /\ \/ life.stopping /\ Stage("resolve", [life EXCEPT !.boot = "done"])
       \/ ~life.stopping /\ Stage("resolve", listen([life EXCEPT !.boot = "done"]))
       \/ ~life.stopping /\ Stage("resolve", [life EXCEPT !.boot = "migrate"])
    /\ UNCHANGED work

migrated ==
    /\ Stage("migrate", [life EXCEPT !.boot = IF life.stopping THEN "done" ELSE "key"])
    /\ UNCHANGED work

main ==
    \/ life.stopping /\ Stage("key", [life EXCEPT !.boot = "done"]) /\ UNCHANGED work
    \/ /\ ~life.stopping
       /\ Stage("key", listen([every(life) EXCEPT !.boot = "done", !.pump = TRUE]))
       /\ work' = [work EXCEPT !.tasks = 2, !.drains = 1]

startupFails ==
    /\ \E s \in {"resolve", "migrate", "key"} : Stage(s, stop([life EXCEPT !.boot = "failed", !.code = 1, !.hurt = TRUE], 1))
    /\ UNCHANGED work

-----------------------------------------------------------------------------
(* Work, while the process runs.                                           *)
begins(f) == work[f] < MaxWork /\ work' = [work EXCEPT ![f] = @ + 1] /\ UNCHANGED <<kind, life, clients>>
ends(f) == Running /\ work[f] > 0 /\ work' = [work EXCEPT ![f] = @ - 1] /\ UNCHANGED <<kind, life, clients>>

request ==
    /\ Running /\ life.http = "open" /\ ~life.stopping /\ work.requests + work.orphans < MaxWork
    /\ begins("requests")
(* The connection is gone; its handler runs on, and nothing tracks it.     *)
disconnect ==
    /\ Running /\ work.requests > 0
    /\ work' = [work EXCEPT !.requests = @ - 1, !.orphans = @ + 1]
    /\ UNCHANGED <<kind, life, clients>>
tick == Running /\ life.timers /\ begins("tasks")
requestEventDrain == Running /\ life.pump /\ begins("drains")
settles == \E f \in {"requests", "orphans", "tasks", "drains"} : ends(f)

signal ==
    /\ Running /\ life' = stop(life, 0)
    /\ UNCHANGED <<kind, work, clients>>
serverError ==
    /\ Running /\ life.http \in {"open", "closing"}
    /\ life' = stop([life EXCEPT !.hurt = TRUE], 1)
    /\ UNCHANGED <<kind, work, clients>>

-----------------------------------------------------------------------------
(* The shutdown: first the listener's connections and the startup, then    *)
(* the tasks and deliveries, then the clients, then exit; and a deadline   *)
(* that cuts through all of it.  server.close waits for connections only.  *)
closeHttp ==
    /\ Running /\ life.http = "closing" /\ work.requests = 0
    /\ life' = [life EXCEPT !.http = "closed"]
    /\ UNCHANGED <<kind, work, clients>>

quiet_NoStartup(l) == l.http \in {"none", "closed"}
quiet(l) == l.http \in {"none", "closed"} /\ l.boot \in Settled
finish ==
    /\ life.phase = "http" /\ quiet(life)
    /\ life' = [life EXCEPT !.phase = "drain"]
    /\ UNCHANGED <<kind, work, clients>>

drained ==
    /\ life.phase = "drain" /\ work.tasks = 0 /\ work.drains = 0
    /\ life' = [life EXCEPT !.phase = "close"]
    /\ clients' = "closing"
    /\ UNCHANGED <<kind, work>>

closed ==
    /\ life.phase = "close"
    /\ clients' = "closed" /\ life' = exit(life, life.code)
    /\ UNCHANGED <<kind, work>>

cleanupFails ==
    /\ life.phase \in {"drain", "close"}
    /\ clients' = "forced" /\ life' = exit([life EXCEPT !.code = 1], 1)
    /\ UNCHANGED <<kind, work>>

deadline ==
    /\ life.phase \in {"http", "drain", "close"}
    /\ clients' = "forced" /\ life' = exit(life, 1)
    /\ UNCHANGED <<kind, work>>

-----------------------------------------------------------------------------
LifecycleInit(k) ==
    /\ kind = k /\ work = NoWork /\ clients = "open"
    /\ life = [stopping |-> FALSE, boot |-> "idle", http |-> "none", code |-> 0, timers |-> FALSE,
               pump |-> FALSE, phase |-> "none", exits |-> << >>, hurt |-> FALSE]

LifecycleNext ==
    \/ boot \/ resolved \/ migrated \/ main \/ startupFails
    \/ request \/ disconnect \/ tick \/ requestEventDrain \/ settles \/ signal \/ serverError
    \/ closeHttp \/ finish \/ drained \/ closed \/ cleanupFails \/ deadline

LifecycleSpec ==
    (\E k \in {"sso", "portal"} : LifecycleInit(k)) /\ [][LifecycleNext]_lifecycleVars

-----------------------------------------------------------------------------
(* The clients are closed under nobody who is waited for: while a request  *)
(* whose client is still connected, a startup step, a task or a delivery   *)
(* uses them they are open, whatever order signals, failures, hang-ups and *)
(* the end of startup come in (only the deadline may cut work off, and     *)
(* then says so in the exit code).  A handler whose client hung up is not  *)
(* waited for, and may find them closed.  Exit code 0 means a complete     *)
(* shutdown after which nothing had failed (lifecycle.ts:71-96).           *)
ClosedUnderNobody ==
    /\ clients \in {"closing", "closed"} =>
         /\ \A f \in DOMAIN work : work[f] > 0 => f = "orphans"
         /\ life.boot \in Settled
    /\ life.exits = <<0>> => clients = "closed" /\ ~life.hurt
=============================================================================
