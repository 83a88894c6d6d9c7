------------------------------ MODULE CacheBoot ------------------------------
(***************************************************************************)
(* How the backend comes by its cache: restore_and_migration.sh restarts   *)
(* the containers, writes the data anew, and its migration creates the     *)
(* table cache, sleeps and drops it again; InitCache, in a goroutine of    *)
(* the server, polls for that table, drops it and loads the data.  The     *)
(* script does not know what became of the backend, nor the other way.     *)
(*                                                                         *)
(* The content of a table is the number of the script run that wrote it.   *)
(* The database files outlive the containers.                              *)
(***************************************************************************)
EXTENDS Integers

CONSTANTS
    MaxStarts,      \* bound: runs of restore_and_migration.sh and restart_container.sh
    MaxFaults       \* bound: commands, statements and processes that fail

ASSUME BootAssumption == {MaxStarts, MaxFaults} \subseteq Nat

VARIABLES
    tables,         \* what users, products and orders hold
    marker,         \* whether the table cache exists
    script,         \* the next command of the script, "idle" when none runs
    initPc,         \* where InitCache stands, "dead" without a process
    read,           \* its variables products and users
    cached,         \* what Cache holds
    kept,           \* history: this process was there before the script's last restart
    scripts, restarts, faults

bootVars == <<tables, marker, script, initPc, read, cached, kept, scripts, restarts, faults>>

Tables == {"users", "products", "orders"}
Absent == -1        \* no such table
Empty  == 0         \* created, and not (or not all of it) restored

Commands == {"recreate", "init", "users", "products", "orders", "migrate", "sleep", "drop"}
Stages   == {"poll", "drop", "products", "users", "replace", "orders", "done"}

Nothing == [t \in Tables |-> Absent]    \* of a Cache with nil maps and slices

BootInit ==
    /\ tables = Nothing /\ marker = FALSE
    /\ script = "idle" /\ initPc = "dead"
    /\ read = Nothing /\ cached = Nothing /\ kept = FALSE
    /\ scripts = 0 /\ restarts = 0 /\ faults = 0

Fault == faults < MaxFaults /\ faults' = faults + 1
-----------------------------------------------------------------------------
(* The operator's scripts *)

\* A new process with a zero Cache, which begins to poll.
NewBackend ==
    /\ initPc' = "poll"
    /\ read' = Nothing /\ cached' = Nothing /\ kept' = FALSE

\* Timing: InitCache polls every 100 ms, so whoever types the next command
\* does not come between the table and the poll that finds it.
PollDue == marker /\ initPc \in {"poll", "drop"}

\* restart_container.sh alone.  (A new server that does not come up is Crash.)
Restart ==
    /\ script = "idle" /\ ~PollDue
    /\ scripts + restarts < MaxStarts /\ restarts' = restarts + 1
    /\ NewBackend
    /\ UNCHANGED <<tables, marker, script, scripts, faults>>

\* restore_and_migration.sh begins with restart_container.sh.
Start ==
    /\ script = "idle" /\ ~PollDue
    /\ scripts + restarts < MaxStarts /\ scripts' = scripts + 1
    /\ script' = "recreate"
    /\ NewBackend
    /\ UNCHANGED <<tables, marker, restarts, faults>>

\* restart_container.sh does not look at the status of `down`, and `up` leaves
\* an unchanged container that still runs as it is.
NotReplaced ==
    /\ script = "idle" /\ ~PollDue
    /\ scripts + restarts < MaxStarts
    /\ initPc # "dead" /\ Fault
    /\ UNCHANGED <<tables, marker, initPc, read, cached>>

RestartFails ==
    /\ NotReplaced /\ restarts' = restarts + 1
    /\ UNCHANGED <<script, kept, scripts>>

\* Nor does restore_and_migration.sh look at the status of the restart: the
\* data is replaced under the old server.
StartKept ==
    /\ NotReplaced /\ scripts' = scripts + 1
    /\ script' = "recreate" /\ kept' = TRUE
    /\ UNCHANGED restarts

\* DROP DATABASE and CREATE DATABASE.
Recreate ==
    /\ script = "recreate" /\ script' = "init"
    /\ tables' = Nothing /\ marker' = FALSE
    /\ UNCHANGED <<initPc, read, cached, kept, scripts, restarts, faults>>

\* init.sql.
CreateTables ==
    /\ script = "init" /\ script' = "users"
    /\ tables' = [t \in Tables |-> Empty]
    /\ UNCHANGED <<marker, initPc, read, cached, kept, scripts, restarts, faults>>

\* The foreign keys of orders.
OrdersRefused == script = "orders" /\ Empty \in {tables["users"], tables["products"]}

\* The data, in an order the foreign keys allow.
Restore(t, next) ==
    /\ script = t /\ script' = next
    /\ ~OrdersRefused
    /\ tables' = [tables EXCEPT ![t] = scripts]
    /\ UNCHANGED <<marker, initPc, read, cached, kept, scripts, restarts, faults>>

\* With a file named, users and products are commands of their own whose
\* status nobody looks at.
RestoreSkipped(t, next) ==
    /\ script = t /\ script' = next
    /\ Fault
    /\ UNCHANGED <<tables, marker, initPc, read, cached, kept, scripts, restarts>>

\* 0_sample.sql: the indexes, then the table.
CreateMarker ==
    /\ script = "migrate" /\ script' = "sleep"
    /\ marker' = TRUE
    /\ UNCHANGED <<tables, initPc, read, cached, kept, scripts, restarts, faults>>

\* Mutant: a sleep that is too short for the poll and the load.
EndSleepEarly ==
    /\ script = "sleep" /\ script' = "drop"
    /\ UNCHANGED <<tables, marker, initPc, read, cached, kept, scripts, restarts, faults>>

\* Timing: SLEEP(30) outlasts the poll and the load.
EndSleep ==
    /\ script = "sleep" /\ script' = "drop"
    /\ initPc \in {"done", "dead"}
    /\ UNCHANGED <<tables, marker, initPc, read, cached, kept, scripts, restarts, faults>>

\* Mutant: the migration leaves the table to the backend.
DropMarkerNot ==
    /\ script = "drop" /\ script' = "idle"
    /\ UNCHANGED <<tables, marker, initPc, read, cached, kept, scripts, restarts, faults>>

\* An error (the backend has usually dropped the table) goes unnoticed.
DropMarker ==
    /\ script = "drop" /\ script' = "idle"
    /\ marker' = FALSE
    /\ UNCHANGED <<tables, initPc, read, cached, kept, scripts, restarts, faults>>

\* A command fails.  From the DROP DATABASE to the restore the script exits; the
\* status of the restart before (StartKept) and of the migration after them is
\* not looked at, and mysql ends the migration at the first statement that fails.
ScriptFails ==
    /\ script # "idle" /\ script' = "idle"
    /\ \/ Fault
       \/ OrdersRefused /\ UNCHANGED faults
    /\ UNCHANGED <<tables, marker, initPc, read, cached, kept, scripts, restarts>>

ScriptStep ==
    \/ Recreate \/ CreateTables
    \/ Restore("users", "products") \/ Restore("products", "orders")
    \/ Restore("orders", "migrate")
    \/ RestoreSkipped("users", "products") \/ RestoreSkipped("products", "orders")
    \/ CreateMarker \/ EndSleep \/ DropMarker
-----------------------------------------------------------------------------
(* The server process *)

\* The container has no restart policy.
Die == initPc' = "dead" /\ read' = Nothing /\ cached' = Nothing /\ kept' = FALSE

\* It ends for a reason of its own, or of a statement of InitCache that fails
\* (log.Fatal).
Crash ==
    /\ initPc # "dead" /\ Die
    /\ Fault
    /\ UNCHANGED <<tables, marker, script, scripts, restarts>>

\* Mutant: the first error ends InitCache.
PollOnce ==
    /\ initPc = "poll"
    /\ initPc' = IF marker THEN "drop" ELSE "done"
    /\ UNCHANGED <<tables, marker, script, read, cached, kept, scripts, restarts, faults>>

\* SELECT COUNT(*) FROM cache, until there is no error.
Poll ==
    /\ initPc = "poll" /\ marker
    /\ initPc' = "drop"
    /\ UNCHANGED <<tables, marker, script, read, cached, kept, scripts, restarts, faults>>

\* DROP TABLE cache, whose error is ignored.
TakeMarker ==
    /\ initPc = "drop" /\ initPc' = "products"
    /\ \/ marker' = FALSE /\ UNCHANGED faults
       \/ Fault /\ UNCHANGED marker
    /\ UNCHANGED <<tables, script, read, cached, kept, scripts, restarts>>

\* Without the table SELECT fails and log.Fatal ends the process.
Select(t, next) ==
    /\ initPc = t
    /\ IF tables[t] = Absent
       THEN Die
       ELSE /\ initPc' = next
            /\ read' = [read EXCEPT ![t] = tables[t]]
            /\ UNCHANGED <<cached, kept>>
    /\ UNCHANGED <<tables, marker, script, scripts, restarts, faults>>

\* Cache = cache{...} and the two loops that fill it from what was read.
Replace ==
    /\ initPc = "replace" /\ initPc' = "orders"
    /\ cached' = [read EXCEPT !["orders"] = Empty]
    /\ UNCHANGED <<tables, marker, script, read, kept, scripts, restarts, faults>>

LoadOrders ==
    /\ initPc = "orders"
    /\ IF tables["orders"] = Absent
       THEN Die
       ELSE /\ initPc' = "done"
            /\ cached' = [cached EXCEPT !["orders"] = tables["orders"]]
            /\ UNCHANGED <<read, kept>>
    /\ UNCHANGED <<tables, marker, script, scripts, restarts, faults>>

InitCache ==
    \/ Poll \/ TakeMarker
    \/ Select("products", "users") \/ Select("users", "replace")
    \/ Replace \/ LoadOrders
-----------------------------------------------------------------------------
(* Properties *)

\* Variables have their shapes.
BootTypeOK ==
    /\ tables \in [Tables -> Absent..MaxStarts]
    /\ read \in [Tables -> Absent..MaxStarts] /\ cached \in [Tables -> Absent..MaxStarts]
    /\ marker \in BOOLEAN /\ kept \in BOOLEAN
    /\ script \in Commands \cup {"idle"} /\ initPc \in Stages \cup {"dead"}
    /\ scripts \in 0..MaxStarts /\ restarts \in Nat /\ faults \in Nat

\* A server that a restart has brought up never works on data other than the
\* data in the tables, nor does one that a failed restart has left at work on a
\* mix of two scripts' data: with one fault, whichever it is, as both sides drop
\* the table cache and orders do not go in without users and products.  (What
\* the kept server works on is gone from the tables, until somebody restarts it.
\* Two faults can do worse: a sleep cut short and a DROP TABLE of InitCache that
\* fails leave the table, and the next run's server loads what that run is
\* about to replace.)
LoadedIsRestored ==
    faults <= 1 /\ initPc = "done" =>
        IF kept THEN \E v \in 1..scripts : cached = [t \in Tables |-> v]
        ELSE cached = tables

\* A script that meets no fault has its data loaded in the end, however its
\* commands and the polls interleave.
RestoredIsLoaded ==
    script # "idle" ~> (cached = tables /\ initPc = "done") \/ faults > 0
=============================================================================
