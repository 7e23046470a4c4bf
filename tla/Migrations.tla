----------------------------- MODULE Migrations -----------------------------
(* runMigrations: several processes of the SSO (and the installer) boot    *)
(* together against one database, on releases that carry different         *)
(* migration files, and may be killed or lose their connection anywhere.   *)
(* A file is its place in the lexical order of names: a new NNN- file      *)
(* takes a place before sso- files that earlier releases already applied.  *)
EXTENDS Naturals, Sequences

CONSTANTS
    Boots,       \* processes that boot
    Baseline,    \* files that predate the runner: stamped, never executed
    Releases,    \* the set of files each release carries
    MaxCuts      \* connections lost or processes killed

VARIABLES
    holder,      \* the process holding the advisory lock, or NoBoot
    stamped,     \* schema_migrations
    executed,    \* how often each file's statements were committed
    run,         \* each process's call of runMigrations
    cuts

CONSTANT NoBoot

ASSUME MigrationsAssumption ==
    /\ Releases \subseteq SUBSET Nat
    /\ NoBoot \notin Boots

migrationVars == <<holder, stamped, executed, run, cuts>>

AllFiles == UNION Releases

(* What a call does before the first file: the list of applied files is    *)
(* read under the lock.                                                    *)
Prelude_ReadFirst == <<"read", "lock">>
Prelude == <<"lock", "read">>
At(b, what) == run[b].at <= 2 /\ run[b].state = "busy" /\ Prelude[run[b].at] = what
InFiles(b) == run[b].state = "busy" /\ run[b].at = 3
Moves(b, r) == run' = [run EXCEPT ![b] = r]
Advance(b) == [run[b] EXCEPT !.at = @ + 1]

connect(b) ==
    /\ run[b].state = "off"
    /\ \E files \in Releases :
         Moves(b, [state |-> "busy", at |-> 1, files |-> files, done |-> {}, left |-> files, open |-> FALSE, cut |-> FALSE])
    /\ UNCHANGED <<holder, stamped, executed, cuts>>
lock(b) ==
    /\ At(b, "lock") /\ holder = NoBoot
    /\ holder' = b /\ Moves(b, Advance(b))
    /\ UNCHANGED <<stamped, executed, cuts>>
read(b) ==
    /\ At(b, "read")
    /\ Moves(b, [Advance(b) EXCEPT !.done = stamped])
    /\ UNCHANGED <<holder, stamped, executed, cuts>>

(* f is the file the loop is at: the first by name of those left.          *)
Current(b, f) == f \in run[b].left /\ \A g \in run[b].left : f <= g
Passed(b, f) == [run[b] EXCEPT !.left = @ \ {f}, !.open = FALSE]
skip(b) ==
    /\ InFiles(b) /\ ~run[b].open
    /\ \E f \in run[b].done : Current(b, f) /\ Moves(b, Passed(b, f))
    /\ UNCHANGED <<holder, stamped, executed, cuts>>
stamp(b) ==
    /\ InFiles(b) /\ ~run[b].open
    /\ \E f \in Baseline \ run[b].done :
         Current(b, f) /\ stamped' = stamped \cup {f} /\ Moves(b, Passed(b, f))
    /\ UNCHANGED <<holder, executed, cuts>>
begin(b) ==
    /\ InFiles(b) /\ ~run[b].open
    /\ \E f \in run[b].left \ (Baseline \cup run[b].done) : Current(b, f)
    /\ Moves(b, [run[b] EXCEPT !.open = TRUE])
    /\ UNCHANGED <<holder, stamped, executed, cuts>>

Ends(b, how) == [run[b] EXCEPT !.state = how, !.open = FALSE]
Freed(b) == IF holder = b THEN NoBoot ELSE holder

(* The file's statements and its row are one transaction; a row that is    *)
(* there already fails it, and a strict call with it.                      *)
Recorded(f) == stamped' = stamped \cup {f} /\ executed' = [executed EXCEPT ![f] = @ + 1]
commit(b) ==
    /\ InFiles(b) /\ run[b].open
    /\ \E f \in run[b].left : Current(b, f) /\
         \/ f \notin stamped /\ Recorded(f) /\ Moves(b, Passed(b, f)) /\ UNCHANGED holder
         \/ f \in stamped /\ Moves(b, Ends(b, "failed")) /\ holder' = Freed(b) /\ UNCHANGED <<stamped, executed>>
    /\ UNCHANGED cuts
unlock(b) ==
    /\ InFiles(b) /\ ~run[b].open /\ run[b].left = {}
    /\ Moves(b, Ends(b, "ok")) /\ holder' = Freed(b)
    /\ UNCHANGED <<stamped, executed, cuts>>

(* A statement fails, the connection is lost or the process is killed: the *)
(* database rolls back (or had just committed, which the process never     *)
(* learns) and lets go of the lock.                                        *)
cutOff(b) ==
    /\ run[b].state = "busy" /\ cuts < MaxCuts /\ cuts' = cuts + 1
    /\ Moves(b, [Ends(b, "failed") EXCEPT !.cut = TRUE]) /\ holder' = Freed(b)
    /\ \/ UNCHANGED <<stamped, executed>>
       \/ run[b].open /\ \E f \in run[b].left \ stamped : Current(b, f) /\ Recorded(f)
restart(b) ==
    /\ run[b].state = "failed" /\ run[b].cut
    /\ Moves(b, [run[b] EXCEPT !.state = "off"])
    /\ UNCHANGED <<holder, stamped, executed, cuts>>

-----------------------------------------------------------------------------
MigrationsInit ==
    /\ holder = NoBoot /\ stamped = {} /\ cuts = 0
    /\ executed = [f \in AllFiles |-> 0]
    /\ run = [b \in Boots |-> [state |-> "off", at |-> 1, files |-> {}, done |-> {}, left |-> {},
                               open |-> FALSE, cut |-> FALSE]]
MigrationsNext ==
    \E b \in Boots :
        connect(b) \/ lock(b) \/ read(b) \/ skip(b) \/ stamp(b) \/ begin(b) \/ commit(b) \/ unlock(b)
          \/ cutOff(b) \/ restart(b)
MigrationsSpec == MigrationsInit /\ [][MigrationsNext]_migrationVars

-----------------------------------------------------------------------------
(* Whatever boots together, dies and starts again on whichever release:    *)
(* history is never replayed and no file's statements are committed twice; *)
(* a file is applied only over every earlier-named file of its release,    *)
(* and a boot that reports success left its whole release recorded; and a  *)
(* boot fails only for a reason of its own, never because another one was  *)
(* migrating (migrations.ts:8-9, 53-56).  Across releases there is no such *)
(* order: a file that sorts first may come last.                           *)
MigratedOnce ==
    /\ \A f \in AllFiles : executed[f] <= 1 /\ (f \in Baseline => executed[f] = 0)
    /\ \A f \in stamped \ Baseline : executed[f] = 1
    /\ \A b \in Boots :
         /\ run[b].open => \A f \in run[b].left, e \in run[b].files : Current(b, f) /\ e < f => e \in stamped
         /\ run[b].state = "ok" => run[b].files \subseteq stamped
         /\ run[b].state = "failed" => run[b].cut
=============================================================================
