--------------------------- MODULE Sessions_proofs ---------------------------
(***************************************************************************)
(* Proofs about the boot of the cache and the logins: that a server works  *)
(* on the data in the tables, that the digests kept are those of the       *)
(* passwords in the tables, and what follows for logins and sessions.      *)
(*                                                                         *)
(* The argument: the marker is only there while the script sleeps (or one  *)
(* fault has left it to a server that still polls), so that InitCache is   *)
(* never at work while the data is written; a process replaces its cache   *)
(* once, and has no maps to write before it does; and no call survives     *)
(* into a script run, nor a digest, unless a restart that failed has kept  *)
(* the process: then what the process vouches for was right once, and what *)
(* it has loaded, with no other fault, is the whole of one script's data.  *)
(***************************************************************************)
EXTENDS Sessions, TLAPS

(***************************************************************************)
(* The invariant                                                           *)
(***************************************************************************)

Writing == {"recreate", "init", "users", "products", "orders", "migrate"}
Loading == {"drop", "products", "users", "replace", "orders"}
Loaded  == {"orders", "done"}

\* The table cache is there while the script sleeps; one fault can leave it
\* behind, to the end of the script or to a server that still polls.
NoLeftover ==
    marker /\ faults <= 1 =>
        \/ script = "sleep" /\ (faults = 0 => initPc \in {"poll", "drop"})
        \/ script = "drop" /\ faults = 1
        \/ script = "idle" /\ faults = 1 /\ initPc \in {"poll", "drop"}

QuietWriting ==
    script \in Writing /\ faults <= 1 =>
        ~marker /\ (initPc \in {"poll", "dead"} \/ (kept /\ initPc = "done"))

\* What InitCache has read is what is in the tables.
ReadIsCurrent ==
    faults <= 1 =>
        /\ initPc \in {"users", "replace"} => read["products"] = tables["products"]
        /\ initPc = "replace" => read["users"] = tables["users"]
        /\ initPc = "orders" => /\ cached["products"] = tables["products"]
                                /\ cached["users"] = tables["users"]
        /\ initPc = "done" /\ ~kept => \A t \in Tables : cached[t] = tables[t]

\* A restart that failed is a fault, and the only one where there is one.
KeptByFault == kept => faults > 0 /\ initPc # "dead"

Clean == faults = 0 \/ (kept /\ faults = 1)

\* Where nothing else has failed, the script has written what it says it has.
TablesWhole ==
    /\ \A t \in Tables : tables[t] <= scripts
    /\ script # "idle" => scripts > 0
    /\ Clean =>
        /\ script \in {"products", "orders"} => tables["users"] = scripts
        /\ script = "orders" => tables["products"] = scripts
        /\ script \in {"migrate", "sleep", "drop"} \/ (script = "idle" /\ scripts > 0) =>
              \A t \in Tables : tables[t] = scripts

\* InitCache is done where it has found the table that a script makes.
MarkedOnce == marker \/ initPc \in Loading \cup {"done"} => scripts > 0

KeptWhole ==
    kept /\ faults = 1 /\ initPc = "done" =>
        \E v \in 1..scripts : \A t \in Tables : cached[t] = v

LoadWhileAsleep == faults = 0 /\ initPc \in Loading => script = "sleep"

Created ==
    script \in {"users", "products", "orders", "migrate", "sleep", "drop"} =>
        \A t \in Tables : tables[t] # Absent

Alive == faults = 0 /\ script # "idle" => initPc # "dead"

Unloaded == initPc \notin Loaded => cached = Nothing

BootInv ==
    /\ NoLeftover /\ QuietWriting /\ ReadIsCurrent /\ LoadWhileAsleep /\ Created
    /\ Alive /\ Unloaded
    /\ KeptByFault /\ TablesWhole /\ MarkedOnce /\ KeptWhole

\* What a login knows of its user; it writes the maps of a cache that is not
\* replaced any more.
CallOK(c) ==
    /\ call[c].at \in {"idle", "refused", "lookup"} => call[c].user = NoUser
    /\ call[c].at \in {"check", "digest", "compare", "password", "hashed"} =>
          Accepted(call[c].user, call[c].hash)
    /\ call[c].at \in {"password", "hashed"} =>
          call[c].password = call[c].hash /\ initPc \in Loaded
    /\ call[c].at = "hashed" => Accepted(call[c].user, Password[call[c].user])
    /\ call[c].at = "digest" => IsHashed[call[c].user]
    /\ call[c].at = "insert" => Accepted(call[c].user, call[c].password)
    /\ call[c].at = "lookup" => cookie[c] # 0

CallInv == \A c \in Clients : CallOK(c)

MapInv ==
    /\ script # "idle" /\ ~kept => IsHashed = NoHash
    /\ \A u \in Users : IsHashed[u] => initPc \in Loaded /\ Accepted(u, Password[u])

SessionInv ==
    \A c \in Clients :
        cookie[c] # 0 /\ sessions[cookie[c]].live => entitled[c] = sessions[cookie[c]].user

IInv == TypeOK /\ BootInv /\ CallInv /\ MapInv /\ SessionInv

USE BootAssumption, SessionAssumption
-----------------------------------------------------------------------------
(***************************************************************************)
(* The boot, whatever the clients do                                       *)
(***************************************************************************)

\* The process ends while no script runs, or by an action that counts as a
\* fault: what the clients' collisions do to the boot.
BootStep ==
    \/ Restart \/ Start \/ RestartFails \/ StartKept \/ Crash
    \/ ScriptStep \/ ScriptFails \/ InitCache

LEMMA Bounds ==
    /\ MaxStarts \in Nat /\ MaxFaults \in Nat
    /\ Empty \in Absent..MaxStarts /\ Absent \in Absent..MaxStarts
<1>1. MaxStarts \in Nat /\ MaxFaults \in Nat
  BY BootAssumption
<1>2. QED
  BY <1>1 DEF Empty, Absent

LEMMA BootTypes == BootTypeOK /\ BootStep => BootTypeOK'
<1> SUFFICES ASSUME BootTypeOK, BootStep PROVE BootTypeOK'
  OBVIOUS
<1> USE Bounds DEF BootTypeOK, Nothing, Absent, Empty, Tables, Commands, Stages, Fault
<1>10. [t \in Tables |-> Absent] \in [Tables -> Absent..MaxStarts]
  BY Bounds
<1>1. CASE Restart
  <2>1. kept' \in BOOLEAN
    BY <1>1 DEF Restart, NewBackend
  <2>2. QED
    BY <1>1, <1>10, <2>1 DEF Restart, NewBackend
<1>2. CASE Start
  <2>1. kept' \in BOOLEAN
    BY <1>2 DEF Start, NewBackend
  <2>2. QED
    BY <1>2, <1>10, <2>1 DEF Start, NewBackend
<1>3. CASE Crash
  <2>1. kept' \in BOOLEAN
    BY <1>3 DEF Crash, Die
  <2>2. QED
    BY <1>3, <1>10, <2>1 DEF Crash, Die
<1>8. CASE RestartFails
  BY <1>8 DEF RestartFails, NotReplaced
<1>9. CASE StartKept
  BY <1>9 DEF StartKept, NotReplaced
<1>4. CASE ScriptStep
  <2>1. CASE Recreate
    <3>1. tables' = [t \in Tables |-> Absent]
      BY <2>1 DEF Recreate
    <3>2. tables' \in [Tables -> Absent..MaxStarts]
      BY <3>1, Bounds
    <3>3. QED
      BY <2>1, <3>2 DEF Recreate
  <2>5. CASE CreateTables
    <3>1. tables' = [t \in Tables |-> Empty]
      BY <2>5 DEF CreateTables
    <3>2. tables' \in [Tables -> Absent..MaxStarts]
      BY <3>1, Bounds
    <3>3. QED
      BY <2>5, <3>2 DEF CreateTables
  <2>2. ASSUME NEW t \in Tables, NEW next \in Commands, Restore(t, next) PROVE BootTypeOK'
    BY <2>2 DEF Restore
  <2>6. ASSUME NEW t \in Tables, NEW next \in Commands, RestoreSkipped(t, next) PROVE BootTypeOK'
    BY <2>6 DEF RestoreSkipped
  <2>3. CASE CreateMarker \/ EndSleep \/ DropMarker
    BY <2>3 DEF CreateMarker, EndSleep, DropMarker
  <2>4. QED
    BY <1>4, <2>1, <2>2, <2>3, <2>5, <2>6 DEF ScriptStep
<1>5. CASE ScriptFails
  BY <1>5 DEF ScriptFails
<1>6. CASE InitCache
  <2>1. CASE Poll
    BY <2>1 DEF Poll
  <2>5. CASE TakeMarker
    <3>1. marker' \in BOOLEAN
      BY <2>5 DEF TakeMarker
    <3>2. faults' \in Nat
      BY <2>5 DEF TakeMarker
    <3>3. QED
      BY <2>5, <3>1, <3>2 DEF TakeMarker
  <2>2. ASSUME NEW t \in Tables, NEW next \in Stages, Select(t, next) PROVE BootTypeOK'
    BY <2>2 DEF Select, Die
  <2>3. CASE Replace
    <3>1. cached' = [read EXCEPT !["orders"] = Empty]
      BY <2>3 DEF Replace
    <3>2. cached' \in [Tables -> Absent..MaxStarts]
      BY <3>1, Bounds
    <3>3. QED
      BY <2>3, <3>2 DEF Replace
  <2>6. CASE LoadOrders
    BY <2>6 DEF LoadOrders, Die
  <2>4. QED
    BY <1>6, <2>1, <2>2, <2>3, <2>5, <2>6 DEF InitCache
<1>7. QED
  BY <1>1, <1>2, <1>3, <1>4, <1>5, <1>6, <1>8, <1>9 DEF BootStep

LEMMA BootKept == BootTypeOK /\ BootInv /\ BootStep => BootInv'
<1> SUFFICES ASSUME BootTypeOK, BootInv, BootStep PROVE BootInv'
  OBVIOUS
<1> USE DEF BootTypeOK, BootInv, NoLeftover, QuietWriting, ReadIsCurrent, LoadWhileAsleep,
            Created, Alive, Unloaded, KeptByFault, Clean, TablesWhole, MarkedOnce, KeptWhole,
            Writing, Loading, Loaded, Nothing, Absent, Empty, Tables, Commands, Stages, Fault
<1>1. CASE Restart
  BY <1>1 DEF Restart, NewBackend, PollDue
<1>2. CASE Start
  BY <1>2 DEF Start, NewBackend, PollDue
<1>3. CASE Crash
  BY <1>3 DEF Crash, Die
<1>8. CASE RestartFails
  BY <1>8 DEF RestartFails, NotReplaced
<1>9. CASE StartKept
  BY <1>9 DEF StartKept, NotReplaced
<1>4. CASE ScriptStep
  <2>1. CASE Recreate
    BY <2>1 DEF Recreate
  <2>2. CASE CreateTables
    BY <2>2 DEF CreateTables
  <2>3. CASE Restore("users", "products")
    BY <2>3 DEF Restore
  <2>4. CASE Restore("products", "orders")
    BY <2>4 DEF Restore
  <2>5. CASE Restore("orders", "migrate")
    BY <2>5 DEF Restore
  <2>6. CASE CreateMarker
    BY <2>6 DEF CreateMarker
  <2>7. CASE EndSleep
    BY <2>7 DEF EndSleep
  <2>8. CASE DropMarker
    BY <2>8 DEF DropMarker
  <2>9. ASSUME NEW t \in {"users", "products"}, NEW next \in {"products", "orders"},
               RestoreSkipped(t, next)
        PROVE  BootInv'
    <3>1. /\ script = t /\ script' = next /\ faults' = faults + 1
          /\ UNCHANGED <<tables, marker, initPc, read, cached, kept, scripts, restarts>>
      BY <2>9 DEF RestoreSkipped
    <3>2. TablesWhole' /\ KeptByFault' /\ MarkedOnce' /\ KeptWhole'
      BY <3>1
    <3>3. NoLeftover' /\ QuietWriting' /\ ReadIsCurrent'
      BY <3>1
    <3>4. LoadWhileAsleep' /\ Created' /\ Alive' /\ Unloaded'
      BY <3>1
    <3>5. QED
      BY <3>2, <3>3, <3>4
  <2>10. QED
    BY <1>4, <2>1, <2>2, <2>3, <2>4, <2>5, <2>6, <2>7, <2>8, <2>9 DEF ScriptStep
<1>5. CASE ScriptFails
  <2>1. /\ script # "idle" /\ script' = "idle"
        /\ UNCHANGED <<tables, marker, initPc, read, cached, kept, scripts, restarts>>
        /\ faults' = faults + 1 \/ (faults' = faults /\ OrdersRefused)
    BY <1>5 DEF ScriptFails
  <2>2. ASSUME Clean, OrdersRefused PROVE FALSE
    BY <2>2 DEF OrdersRefused
  <2>3. Clean' => faults = 0 /\ kept
    BY <2>1, <2>2
  <2>4. ~Clean'
    BY <2>3
  <2>5. TablesWhole' /\ KeptByFault' /\ MarkedOnce' /\ KeptWhole'
    BY <2>1, <2>4
  <2>6. NoLeftover'
    BY <2>1 DEF OrdersRefused
  <2>8. QuietWriting' /\ Created' /\ Alive' /\ Unloaded'
    BY <2>1
  <2>9. ReadIsCurrent'
    BY <2>1
  <2>10. LoadWhileAsleep'
    <3>1. CASE faults' = faults
      BY <2>1, <2>2, <3>1
    <3>2. CASE faults' = faults + 1
      BY <2>1, <3>2
    <3>3. QED
      BY <2>1, <3>1, <3>2
  <2>7. QED
    BY <2>5, <2>6, <2>8, <2>9, <2>10
<1>6. CASE InitCache
  <2>1. CASE Poll
    BY <2>1 DEF Poll
  <2>2. CASE TakeMarker
    BY <2>2 DEF TakeMarker
  <2>3. CASE Select("products", "users")
    BY <2>3 DEF Select, Die
  <2>4. CASE Select("users", "replace")
    BY <2>4 DEF Select, Die
  <2>5. CASE Replace
    BY <2>5 DEF Replace
  <2>6. CASE LoadOrders
    <3>1. CASE tables["orders"] = Absent
      BY <2>6, <3>1 DEF LoadOrders, Die
    <3>2. CASE tables["orders"] # Absent
      <4>1. /\ initPc = "orders" /\ initPc' = "done"
            /\ cached' = [cached EXCEPT !["orders"] = tables["orders"]]
            /\ UNCHANGED <<read, kept, tables, marker, script, scripts, restarts, faults>>
        BY <2>6, <3>2 DEF LoadOrders
      <4>2. faults <= 1 => \A t \in Tables : cached'[t] = tables[t]
        BY <4>1
      <4>3. KeptWhole'
        <5> SUFFICES ASSUME kept, faults = 1
                     PROVE  \E v \in 1..scripts : \A t \in Tables : cached'[t] = v
          BY <4>1
        <5>1. scripts > 0 /\ script \notin Writing
          BY <4>1
        <5>2. \A t \in Tables : tables[t] = scripts
          BY <5>1
        <5>3. scripts \in 1..scripts
          BY <5>1
        <5>4. QED
          BY <4>2, <5>2, <5>3
      <4>4. QED
        BY <4>1, <4>2, <4>3
    <3>3. QED
      BY <3>1, <3>2
  <2>7. QED
    BY <1>6, <2>1, <2>2, <2>3, <2>4, <2>5, <2>6 DEF InitCache
<1>7. QED
  BY <1>1, <1>2, <1>3, <1>4, <1>5, <1>6, <1>8, <1>9 DEF BootStep

\* Clients that collide end the process only when the cache is being replaced
\* or has been, and no script runs that began by replacing the process: no
\* marker is left to the next process.
LEMMA DeathKept ==
    ASSUME BootTypeOK, BootInv, Die, UNCHANGED <<tables, marker, script, scripts, restarts, faults>>,
           script = "idle" \/ kept, initPc \in {"replace", "orders", "done"}
    PROVE  BootTypeOK' /\ BootInv'
<1>1. kept' = FALSE /\ initPc' = "dead" /\ read' = Nothing /\ cached' = Nothing
  BY DEF Die
<1>2. Nothing \in [Tables -> Absent..MaxStarts]
  BY Bounds DEF Nothing
<1>3. BootTypeOK'
  <2>1. kept' \in BOOLEAN
    BY <1>1
  <2>2. QED
    BY <1>1, <1>2, <2>1 DEF BootTypeOK
<1>4. NoLeftover' /\ QuietWriting' /\ Alive'
  BY <1>1 DEF BootTypeOK, BootInv, NoLeftover, QuietWriting, Alive, KeptByFault, Writing
<1>5. ReadIsCurrent' /\ LoadWhileAsleep' /\ Created' /\ Unloaded'
  BY <1>1 DEF BootInv, ReadIsCurrent, LoadWhileAsleep, Created, Unloaded, Loaded, Loading
<1>6. KeptByFault' /\ TablesWhole' /\ MarkedOnce' /\ KeptWhole'
  BY <1>1 DEF BootInv, KeptByFault, Clean, TablesWhole, MarkedOnce, KeptWhole, Loading
<1>7. QED
  BY <1>3, <1>4, <1>5, <1>6 DEF BootInv
-----------------------------------------------------------------------------
(***************************************************************************)
(* The clients when the process or the data changes                        *)
(***************************************************************************)

Calls == [Clients -> [at : Positions, user : Names \cup {NoUser},
                      password : Passwords \cup {NoPassword},
                      hash : Passwords \cup {NoPassword}]]

LEMMA CutOffKept ==
    ASSUME IInv, BootTypeOK', CutOff, UNCHANGED <<sessions, made, cookie, entitled>>
    PROVE  TypeOK' /\ CallInv' /\ MapInv' /\ SessionInv'
<1>1. call' \in Calls /\ \A c \in Clients : call'[c].at \in {"idle", "refused"}
                                         /\ call'[c].user = NoUser
  BY DEF IInv, TypeOK, CallInv, CallOK, CutOff, Free, Ended, Begun, Calls, Positions
<1>2. TypeOK'
  BY <1>1 DEF IInv, TypeOK, CutOff, Calls, NoHash, NoDigest, Free
<1>3. CallInv'
  BY <1>1 DEF CallInv, CallOK
<1>4. MapInv'
  BY DEF CutOff, MapInv, NoHash
<1>5. SessionInv'
  BY DEF IInv, SessionInv
<1>6. QED
  BY <1>2, <1>3, <1>4, <1>5

\* What a kept server accepts it goes on to accept, whatever becomes of the data.
LEMMA AcceptedStays ==
    ASSUME BootTypeOK, BootInv, NEW u, NEW p, Accepted(u, p), kept',
           scripts' \in Nat, scripts <= scripts'
    PROVE  Accepted(u, p)'
<1>1. scripts \in Nat
  BY DEF BootTypeOK
<1>2. ASSUME NEW v \in 1..scripts, u \in Users, p = PasswordOf[v][u] PROVE Accepted(u, p)'
  <2>1. v \in 1..scripts'
    BY <1>1
  <2>2. QED
    BY <1>2, <2>1 DEF Accepted
<1>3. CASE Right(u, p)
  <2>1. tables["users"] \in 1..scripts /\ u \in Users /\ p = PasswordOf[tables["users"]][u]
    BY <1>1, <1>3 DEF Right, Known, BootTypeOK, BootInv, TablesWhole, Tables, Empty, Absent
  <2>2. QED
    BY <2>1, <1>2
<1>4. QED
  BY <1>2, <1>3 DEF Accepted

LEMMA RunScriptKept ==
    ASSUME IInv, RunScript
    PROVE  IInv'
<1>1. BootTypeOK' /\ BootInv'
  BY BootTypes, BootKept DEF IInv, TypeOK, RunScript, BootStep
<1>2. script # "idle" /\ initPc' = initPc /\ kept' = kept /\ scripts' = scripts
  BY DEF RunScript, ScriptStep, ScriptFails, Recreate, CreateTables, Restore, RestoreSkipped,
         CreateMarker, EndSleep, DropMarker
<1>3. /\ IsHashed' = IsHashed /\ Password' = Password /\ call' = call
      /\ made' = made /\ cookie' = cookie
      /\ ~kept => (\A c \in Clients : Free(c)) /\ IsHashed = NoHash
  BY <1>2 DEF IInv, TypeOK, MapInv, RunScript, Free
<1>4. /\ sessions' \in [1..MaxSessions -> [user : Users \cup {NoUser}, live : BOOLEAN]]
      /\ entitled' \in [Clients -> Users \cup {NoUser}]
      /\ SessionInv'
  <2>1. CASE script' = "init"
    <3>1. /\ sessions' = [x \in 1..MaxSessions |-> NoRow]
          /\ entitled' = [c \in Clients |-> NoUser]
      BY <2>1 DEF RunScript
    <3>2. \A c \in Clients : cookie[c] # 0 => cookie[c] \in 1..MaxSessions
      BY DEF IInv, TypeOK
    <3>3. SessionInv'
      BY <3>1, <3>2, <1>3 DEF NoRow, SessionInv
    <3>4. QED
      BY <3>1, <3>3 DEF NoRow
  <2>2. CASE script' # "init"
    BY <2>2, <1>3 DEF IInv, TypeOK, RunScript, SessionInv
  <2>3. QED
    BY <2>1, <2>2
<1>5. TypeOK'
  <2>1. \A c \in Clients : ~Free(c)' => initPc' # "dead" /\ (script' = "idle" \/ kept')
    BY <1>2, <1>3 DEF IInv, TypeOK, Free
  <2>2. IsHashed' \in [Users -> BOOLEAN] /\ Password' \in [Users -> Passwords \cup {NoPassword}]
    BY <1>3 DEF IInv, TypeOK
  <2>3. QED
    BY <1>1, <1>3, <1>4, <2>1, <2>2 DEF IInv, TypeOK
<1>9. ASSUME kept, NEW u, NEW p, Accepted(u, p) PROVE Accepted(u, p)'
  <2>1. scripts' \in Nat /\ scripts <= scripts' /\ kept'
    BY <1>2, <1>9 DEF IInv, TypeOK, BootTypeOK
  <2>2. QED
    BY <1>9, <2>1, AcceptedStays DEF IInv, TypeOK
<1>6. CallInv'
  <2> SUFFICES ASSUME NEW c \in Clients PROVE CallOK(c)'
    BY DEF CallInv
  <2>1. CASE kept
    <3>1. CallOK(c) /\ call' = call /\ Password' = Password /\ IsHashed' = IsHashed
          /\ cookie' = cookie /\ initPc' = initPc
      BY <1>2, <1>3 DEF IInv, CallInv
    <3>2. QED
      BY <3>1, <2>1, <1>9 DEF CallOK
  <2>2. CASE ~kept
    BY <2>2, <1>3 DEF IInv, CallInv, CallOK, Free
  <2>3. QED
    BY <2>1, <2>2
<1>7. MapInv'
  <2>1. CASE kept
    BY <2>1, <1>2, <1>3, <1>9 DEF IInv, MapInv
  <2>2. CASE ~kept
    BY <2>2, <1>3 DEF MapInv, NoHash
  <2>3. QED
    BY <2>1, <2>2
<1>8. QED
  BY <1>1, <1>4, <1>5, <1>6, <1>7 DEF IInv

LEMMA LoadKept ==
    ASSUME IInv, Load
    PROVE  IInv'
<1>1. BootTypeOK' /\ BootInv'
  BY BootTypes, BootKept DEF IInv, TypeOK, Load, BootStep
<1>2. CASE initPc' = "dead"
  BY <1>1, <1>2, CutOffKept DEF Load, IInv
<1>3. CASE initPc' # "dead"
  <2>1. /\ call' = call /\ made' = made /\ cookie' = cookie /\ entitled' = entitled
        /\ sessions' = sessions
    BY <1>3 DEF Load
  <2>2. /\ tables' = tables /\ script' = script /\ initPc # "dead"
        /\ kept' = kept /\ scripts' = scripts
        /\ initPc \in Loaded => initPc # "replace" /\ initPc' \in Loaded
        /\ initPc = "replace" => initPc \notin Loaded
    BY <1>3 DEF Load, InitCache, Poll, TakeMarker, Select, Replace, LoadOrders, Loaded, Die
  <2>3. \/ IsHashed' = IsHashed /\ Password' = Password
        \/ initPc \notin Loaded /\ IsHashed' = NoHash /\ Password' = NoDigest
    BY <1>3, <2>2 DEF Load
  <2>4. TypeOK'
    BY <1>1, <1>3, <2>1, <2>2, <2>3 DEF IInv, TypeOK, NoHash, NoDigest, Free
  <2>5. MapInv'
    BY <2>2, <2>3 DEF IInv, MapInv, NoHash, Accepted, Right, Known
  <2>6. CallInv'
    <3> SUFFICES ASSUME NEW c \in Clients PROVE CallOK(c)'
      BY DEF CallInv
    <3>1. CASE initPc \in Loaded
      BY <3>1, <2>1, <2>2, <2>3 DEF IInv, CallInv, CallOK, Accepted, Right, Known
    <3>2. CASE initPc \notin Loaded
      <4>1. call[c].at \notin {"password", "hashed", "digest"}
        BY <3>2 DEF IInv, CallInv, CallOK, MapInv, Accepted, Right, Known
      <4>2. QED
        BY <4>1, <2>1, <2>2 DEF IInv, CallInv, CallOK, Accepted, Right, Known
    <3>3. QED
      BY <3>1, <3>2
  <2>7. SessionInv'
    BY <2>1 DEF IInv, SessionInv
  <2>8. QED
    BY <1>1, <2>4, <2>5, <2>6, <2>7 DEF IInv
<1>4. QED
  BY <1>2, <1>3

\* A call under way that is at a map of the cache has a cache that stays.
LEMMA AtTheMaps ==
    ASSUME IInv, NEW c \in Clients, call[c].at \in {"password", "hashed", "serving"}
    PROVE  /\ script = "idle" \/ kept
           /\ call[c].at # "serving" => initPc \in {"orders", "done"}
BY DEF IInv, TypeOK, Free, CallInv, CallOK, Loaded

LEMMA CollisionsKept ==
    ASSUME IInv, Collide \/ LoginsCollide
    PROVE  IInv'
<1>1. (script = "idle" \/ kept) /\ initPc \in {"replace", "orders", "done"}
  <2>1. CASE Collide
    BY <2>1, AtTheMaps DEF Collide
  <2>2. CASE LoginsCollide
    BY <2>2, AtTheMaps DEF LoginsCollide, Overlap, Written
  <2>3. QED
    BY <2>1, <2>2
<1>2. Fatal
  BY DEF Collide, LoginsCollide
<1>3. BootTypeOK' /\ BootInv'
  BY <1>1, <1>2, DeathKept DEF IInv, TypeOK, Fatal
<1>4. QED
  BY <1>2, <1>3, CutOffKept DEF Fatal, IInv

\* A kept server's calls and maps go on, over what will be other data.
LEMMA OperateFailsKept ==
    ASSUME IInv, OperateFails
    PROVE  IInv'
<1>1. BootTypeOK' /\ BootInv'
  BY BootTypes, BootKept DEF IInv, TypeOK, OperateFails, BootStep
<1>2. /\ UNCHANGED <<tables, initPc>> /\ script = "idle"
      /\ (script' = script /\ kept' = kept /\ scripts' = scripts) \/ kept'
      /\ scripts' \in Nat /\ scripts <= scripts'
  BY <1>1 DEF OperateFails, RestartFails, StartKept, NotReplaced, IInv, TypeOK, BootTypeOK
<1>3. ASSUME NEW u, NEW p, Accepted(u, p) PROVE Accepted(u, p)'
  <2>1. CASE kept'
    BY <1>2, <1>3, <2>1, AcceptedStays DEF IInv, TypeOK
  <2>2. CASE script' = script /\ kept' = kept /\ scripts' = scripts
    BY <1>2, <1>3, <2>2 DEF Accepted, Right, Known
  <2>3. QED
    BY <1>2, <2>1, <2>2
<1>4. TypeOK'
  BY <1>1, <1>2 DEF IInv, TypeOK, Free, OperateFails, sessionVars
<1>5. CallInv'
  <2> SUFFICES ASSUME NEW c \in Clients PROVE CallOK(c)'
    BY DEF CallInv
  <2>1. call' = call /\ IsHashed' = IsHashed /\ Password' = Password /\ cookie' = cookie /\ CallOK(c)
    BY DEF OperateFails, sessionVars, IInv, CallInv
  <2>2. QED
    BY <1>2, <1>3, <2>1 DEF CallOK
<1>6. MapInv'
  <2>1. IsHashed' = IsHashed /\ Password' = Password
    BY DEF OperateFails, sessionVars
  <2>2. QED
    BY <1>2, <1>3, <2>1 DEF IInv, MapInv
<1>7. SessionInv'
  BY DEF IInv, SessionInv, OperateFails, sessionVars
<1>8. QED
  BY <1>1, <1>4, <1>5, <1>6, <1>7 DEF IInv

LEMMA OperateKept ==
    ASSUME IInv, Operate
    PROVE  IInv'
<1>1. BootTypeOK' /\ BootInv'
  BY BootTypes, BootKept DEF IInv, TypeOK, Operate, BootStep
<1>2. QED
  BY <1>1, CutOffKept DEF Operate, IInv
-----------------------------------------------------------------------------
(***************************************************************************)
(* The clients' own steps                                                  *)
(***************************************************************************)

CallType == [at : Positions, user : Names \cup {NoUser},
             password : Passwords \cup {NoPassword}, hash : Passwords \cup {NoPassword}]

LEMMA EndedTyped ==
    ASSUME NEW how
    PROVE  /\ Ended(how) \in CallType /\ Ended(how).user = NoUser
           /\ Ended(how).at \in {"idle", "refused"}
BY DEF Ended, Begun, CallType, Positions

\* A step that only moves one call on keeps the invariant when the call is
\* in order.
LEMMA CallMoved ==
    ASSUME IInv, NEW c \in Clients, NEW l \in CallType, call' = [call EXCEPT ![c] = l],
           UNCHANGED <<bootVars, IsHashed, Password, sessions, made, cookie, entitled>>,
           initPc # "dead", script = "idle" \/ kept, CallOK(c)'
    PROVE  IInv'
<1>1. BootTypeOK' /\ BootInv'
  BY DEF IInv, TypeOK, BootTypeOK, BootInv, NoLeftover, QuietWriting, ReadIsCurrent,
         LoadWhileAsleep, Created, Alive, Unloaded, KeptByFault, Clean, TablesWhole, MarkedOnce,
         KeptWhole, bootVars
<1>2. call' \in [Clients -> CallType] /\ \A d \in Clients \ {c} : call'[d] = call[d]
  BY DEF IInv, TypeOK, CallType
<1>3. TypeOK'
  BY <1>1, <1>2 DEF IInv, TypeOK, CallType, bootVars
<1>4. CallInv'
  <2>1. ASSUME NEW d \in Clients, d # c PROVE CallOK(d)'
    BY <2>1, <1>2 DEF IInv, CallInv, CallOK, Accepted, Right, Known, bootVars
  <2>2. QED
    BY <2>1 DEF CallInv
<1>5. MapInv' /\ SessionInv'
  BY DEF IInv, MapInv, SessionInv, Accepted, Right, Known, bootVars
<1>6. QED
  BY <1>1, <1>3, <1>4, <1>5 DEF IInv

LEMMA UnderWay ==
    ASSUME IInv, NEW c \in Clients, ~Free(c)
    PROVE  call[c] \in CallType /\ initPc # "dead" /\ (script = "idle" \/ kept)
BY DEF IInv, TypeOK, CallType

\* An answer is always in order.
LEMMA EndKept ==
    ASSUME IInv, NEW c \in Clients, ~Free(c), NEW how, End(c, how),
           UNCHANGED <<bootVars, IsHashed, Password, sessions, made, cookie, entitled>>
    PROVE  IInv'
<1>1. Ended(how) \in CallType /\ call' = [call EXCEPT ![c] = Ended(how)]
  BY EndedTyped DEF End
<1>2. call'[c] = Ended(how)
  BY <1>1 DEF IInv, TypeOK
<1>3. CallOK(c)'
  BY <1>2, EndedTyped DEF CallOK
<1>4. QED
  BY <1>1, <1>3, UnderWay, CallMoved

LEMMA LoginKept ==
    ASSUME IInv, NEW c \in Clients, NEW u \in Names, NEW p \in Passwords, Login(c, u, p)
    PROVE  IInv'
<1> DEFINE l == [Begun("find") EXCEPT !.user = u, !.password = p]
<1>1. l \in CallType /\ l.at = "find"
  BY DEF Begun, CallType, Positions
<1>2. call' = [call EXCEPT ![c] = l] /\ call'[c] = l
  BY DEF Login, IInv, TypeOK
<1>3. CallOK(c)'
  BY <1>1, <1>2 DEF CallOK
<1>4. QED
  BY <1>1, <1>2, <1>3, CallMoved DEF Login

LEMMA FindKept ==
    ASSUME IInv, NEW c \in Clients, Find(c)
    PROVE  IInv'
<1> DEFINE u == call[c].user
           l == [call[c] EXCEPT !.at = "check", !.hash = PasswordOf[tables["users"]][u]]
<1>1. ~Free(c) /\ UNCHANGED <<bootVars, IsHashed, Password, sessions, made, cookie, entitled>>
  BY DEF Find, Free
<1>2. CASE End(c, "refused") \/ End(c, "error")
  BY <1>1, <1>2, EndKept
<1>3. CASE Known(u) /\ call' = [call EXCEPT ![c].at = "check",
                                          ![c].hash = PasswordOf[tables["users"]][u]]
  <2>1. PasswordOf[tables["users"]][u] \in Passwords
    <3>1. tables["users"] \in 1..MaxStarts /\ u \in Users
      BY <1>3, Bounds DEF IInv, TypeOK, BootTypeOK, Known, Tables, Empty, Absent
    <3>2. PasswordOf[tables["users"]] \in [Users -> Passwords]
      BY <3>1
    <3>3. QED
      BY <3>1, <3>2
  <2>2. l \in CallType /\ l.at = "check" /\ l.user = u /\ l.hash = PasswordOf[tables["users"]][u]
    BY <1>1, <2>1, UnderWay DEF CallType, Positions
  <2>3. call' = [call EXCEPT ![c] = l] /\ call'[c] = l
    BY <1>3 DEF IInv, TypeOK
  <2>4. CallOK(c)'
    BY <1>1, <1>3, <2>2, <2>3 DEF CallOK, Accepted, Right, Known, bootVars
  <2>5. QED
    BY <1>1, <2>2, <2>3, <2>4, UnderWay, CallMoved
<1>4. QED
  BY <1>2, <1>3 DEF Find

\* A call that only changes its position.
LEMMA GotoKept ==
    ASSUME IInv, NEW c \in Clients, ~Free(c), NEW at \in Positions, Goto(c, at),
           UNCHANGED <<bootVars, IsHashed, Password, sessions, made, cookie, entitled>>,
           CallOK(c)'
    PROVE  IInv'
<1> DEFINE l == [call[c] EXCEPT !.at = at]
<1>1. l \in CallType
  BY UnderWay DEF CallType
<1>2. call' = [call EXCEPT ![c] = l]
  BY DEF Goto, IInv, TypeOK
<1>3. QED
  BY <1>1, <1>2, UnderWay, CallMoved

\* What is left of a call that has moved on.
LEMMA Gone ==
    ASSUME IInv, NEW c \in Clients, NEW at \in Positions, Goto(c, at)
    PROVE  /\ call'[c].at = at /\ call'[c].user = call[c].user
           /\ call'[c].password = call[c].password /\ call'[c].hash = call[c].hash
           /\ call' \in [Clients -> CallType]
           /\ \A d \in Clients \ {c} : call'[d] = call[d]
<1>1. call \in [Clients -> CallType]
  BY DEF IInv, TypeOK, CallType
<1>2. call' = [call EXCEPT ![c] = [call[c] EXCEPT !.at = at]]
  BY <1>1 DEF Goto
<1>3. [call[c] EXCEPT !.at = at] \in CallType
  BY <1>1 DEF CallType
<1>4. call'[c] = [call[c] EXCEPT !.at = at]
  BY <1>1, <1>2
<1>5. QED
  BY <1>1, <1>2, <1>3, <1>4 DEF CallType

LEMMA CheckKept ==
    ASSUME IInv, NEW c \in Clients, Check(c)
    PROVE  IInv'
<1>1. ~Free(c) /\ UNCHANGED <<bootVars, IsHashed, Password, sessions, made, cookie, entitled>>
  BY DEF Check, Free
<1>2. CASE IsHashed[call[c].user] /\ Goto(c, "digest")
  <2>1. CallOK(c)'
    BY <1>1, <1>2, Gone DEF Check, IInv, CallInv, CallOK, Accepted, Right, Known, bootVars, Positions
  <2>2. QED
    BY <1>1, <1>2, <2>1, GotoKept DEF Positions
<1>3. CASE Goto(c, "compare")
  <2>1. CallOK(c)'
    BY <1>1, <1>3, Gone DEF Check, IInv, CallInv, CallOK, Accepted, Right, Known, bootVars, Positions
  <2>2. QED
    BY <1>1, <1>3, <2>1, GotoKept DEF Positions
<1>4. QED
  BY <1>2, <1>3 DEF Check

\* A digest that is compared is the one of the password in the table.
LEMMA DigestRight ==
    ASSUME IInv, NEW c \in Clients, call[c].at = "digest"
    PROVE  Accepted(call[c].user, Password[call[c].user])
BY DEF IInv, CallInv, CallOK, MapInv, Accepted, Right, Known

LEMMA DigestKept ==
    ASSUME IInv, NEW c \in Clients, Digest(c)
    PROVE  IInv'
<1>1. ~Free(c) /\ UNCHANGED <<bootVars, IsHashed, Password, sessions, made, cookie, entitled>>
  BY DEF Digest, Free
<1>2. CASE Password[call[c].user] = call[c].password /\ Goto(c, "insert")
  <2>1. CallOK(c)'
    BY <1>1, <1>2, DigestRight, Gone DEF Digest, CallOK, Accepted, Right, Known, bootVars, Positions
  <2>2. QED
    BY <1>1, <1>2, <2>1, GotoKept DEF Positions
<1>3. CASE End(c, "refused")
  BY <1>1, <1>3, EndKept
<1>4. QED
  BY <1>2, <1>3 DEF Digest

LEMMA CompareKept ==
    ASSUME IInv, NEW c \in Clients, Compare(c)
    PROVE  IInv'
<1>1. ~Free(c) /\ UNCHANGED <<bootVars, IsHashed, Password, sessions, made, cookie, entitled>>
  BY DEF Compare, Free
<1>2. CASE call[c].password = call[c].hash /\ HasCache /\ Goto(c, "password")
  <2>1. initPc \in Loaded
    BY <1>2 DEF HasCache, IInv, BootInv, Unloaded
  <2>2. CallOK(c)'
    BY <1>1, <1>2, <2>1, Gone DEF Compare, IInv, CallInv, CallOK, Accepted, Right, Known, bootVars, Positions
  <2>3. QED
    BY <1>1, <1>2, <2>2, GotoKept DEF Positions
<1>3. CASE End(c, "refused") \/ End(c, "panicked")
  BY <1>1, <1>3, EndKept
<1>4. QED
  BY <1>2, <1>3 DEF Compare

\* The boot does not see the clients' steps.
LEMMA BootUnchanged ==
    ASSUME BootTypeOK, BootInv, UNCHANGED bootVars
    PROVE  BootTypeOK' /\ BootInv'
BY DEF BootTypeOK, BootInv, NoLeftover, QuietWriting, ReadIsCurrent, LoadWhileAsleep, Created,
       Alive, Unloaded, KeptByFault, Clean, TablesWhole, MarkedOnce, KeptWhole, bootVars

LEMMA WritePasswordKept ==
    ASSUME IInv, NEW c \in Clients, WritePassword(c)
    PROVE  IInv'
<1> DEFINE u == call[c].user
<1>1. /\ ~Free(c) /\ Goto(c, "hashed") /\ UNCHANGED bootVars /\ IsHashed' = IsHashed
      /\ UNCHANGED <<sessions, made, cookie, entitled>>
      /\ Accepted(u, call[c].password) /\ u \in Users /\ call[c].password = call[c].hash
      /\ initPc \in Loaded
  BY DEF WritePassword, Free, IInv, CallInv, CallOK, Accepted, Right, Known
<1>2. call[c].password \in Passwords \cup {NoPassword}
  BY <1>1, UnderWay DEF CallType
<1>3. /\ Password' \in [Users -> Passwords \cup {NoPassword}]
      /\ \A v \in Users : Password'[v] = IF v = u THEN call[c].password ELSE Password[v]
  BY <1>1, <1>2 DEF WritePassword, IInv, TypeOK
<1>4. BootTypeOK' /\ BootInv'
  BY <1>1, BootUnchanged DEF IInv, TypeOK
<1>5. TypeOK'
  BY <1>1, <1>3, <1>4, Gone, UnderWay DEF IInv, TypeOK, CallType, Positions, bootVars, Free
<1>6. CallInv'
  <2> SUFFICES ASSUME NEW d \in Clients PROVE CallOK(d)'
    BY DEF CallInv
  <2>1. CASE d = c
    BY <2>1, <1>1, <1>3, Gone DEF CallOK, Accepted, Right, Known, bootVars, Positions
  <2>2. CASE d # c
    <3>1. call'[d] = call[d] /\ CallOK(d)
      BY <2>2, <1>1, Gone DEF Positions, IInv, CallInv
    <3>2. ASSUME call[d].at = "hashed" PROVE Accepted(call[d].user, Password'[call[d].user])
      <4>1. CASE call[d].user = u
        BY <1>1, <1>3, <4>1
      <4>2. CASE call[d].user # u
        <5>1. call[d].user \in Users
          BY <3>1, <3>2 DEF CallOK, Accepted, Right, Known
        <5>2. QED
          BY <1>3, <3>1, <3>2, <4>2, <5>1 DEF CallOK
      <4>3. QED
        BY <4>1, <4>2
    <3>3. QED
      BY <1>1, <3>1, <3>2 DEF CallOK, Accepted, Right, Known, bootVars
  <2>3. QED
    BY <2>1, <2>2
<1>7. MapInv'
  BY <1>1, <1>3 DEF IInv, MapInv, Accepted, Right, Known, bootVars
<1>8. SessionInv'
  BY <1>1 DEF IInv, SessionInv
<1>9. QED
  BY <1>4, <1>5, <1>6, <1>7, <1>8 DEF IInv

LEMMA WriteIsHashedKept ==
    ASSUME IInv, NEW c \in Clients, WriteIsHashed(c)
    PROVE  IInv'
<1> DEFINE u == call[c].user
<1>1. /\ ~Free(c) /\ Goto(c, "insert") /\ UNCHANGED bootVars /\ Password' = Password
      /\ UNCHANGED <<sessions, made, cookie, entitled>>
      /\ Accepted(u, call[c].password) /\ u \in Users /\ Accepted(u, Password[u])
      /\ initPc \in Loaded
  BY DEF WriteIsHashed, Free, IInv, CallInv, CallOK, Accepted, Right, Known
<1>2. /\ IsHashed' \in [Users -> BOOLEAN]
      /\ \A v \in Users : IsHashed'[v] <=> v = u \/ IsHashed[v]
  BY <1>1 DEF WriteIsHashed, IInv, TypeOK
<1>3. BootTypeOK' /\ BootInv'
  BY <1>1, BootUnchanged DEF IInv, TypeOK
<1>4. TypeOK'
  BY <1>1, <1>2, <1>3, Gone, UnderWay DEF IInv, TypeOK, CallType, Positions, bootVars, Free
<1>5. CallInv'
  <2> SUFFICES ASSUME NEW d \in Clients PROVE CallOK(d)'
    BY DEF CallInv
  <2>1. CASE d = c
    BY <2>1, <1>1, Gone DEF CallOK, Accepted, Right, Known, bootVars, Positions
  <2>2. CASE d # c
    <3>1. call'[d] = call[d] /\ CallOK(d)
      BY <2>2, <1>1, Gone DEF Positions, IInv, CallInv
    <3>2. QED
      BY <1>1, <1>2, <3>1 DEF CallOK, Accepted, Right, Known, bootVars
  <2>3. QED
    BY <2>1, <2>2
<1>6. MapInv'
  <2>1. script' = "idle" \/ kept'
    BY <1>1, UnderWay DEF bootVars
  <2>2. QED
    BY <1>1, <1>2, <2>1 DEF IInv, MapInv, Accepted, Right, Known, bootVars
<1>7. SessionInv'
  BY <1>1 DEF IInv, SessionInv
<1>8. QED
  BY <1>3, <1>4, <1>5, <1>6, <1>7 DEF IInv

LEMMA CreateKept ==
    ASSUME IInv, NEW c \in Clients, Create(c)
    PROVE  IInv'
<1> DEFINE u == call[c].user
<1>1. /\ ~Free(c) /\ UNCHANGED <<bootVars, IsHashed, Password>> /\ u \in Users
      /\ Accepted(u, call[c].password)
  BY DEF Create, Free, IInv, CallInv, CallOK, Accepted, Right, Known
<1>2. CASE End(c, "error") /\ UNCHANGED <<sessions, made, cookie, entitled>>
  BY <1>1, <1>2, EndKept
<1>3. CASE /\ made < MaxSessions /\ made' = made + 1
           /\ sessions' = [sessions EXCEPT ![made'] = [user |-> u, live |-> TRUE]]
           /\ cookie' = [cookie EXCEPT ![c] = made']
           /\ entitled' = [entitled EXCEPT ![c] = IF Accepted(u, call[c].password) THEN u ELSE NoUser]
           /\ End(c, "ok")
  <2>1. /\ made' \in 1..MaxSessions /\ cookie' \in [Clients -> 0..made']
        /\ entitled' = [entitled EXCEPT ![c] = u]
        /\ entitled' \in [Clients -> Users \cup {NoUser}]
        /\ sessions' \in [1..MaxSessions -> [user : Users \cup {NoUser}, live : BOOLEAN]]
    <3>1. made \in Nat /\ made' = made + 1 /\ made' \in 1..MaxSessions
      BY <1>3 DEF IInv, TypeOK
    <3>2. cookie' \in [Clients -> 0..made']
      <4>1. cookie \in [Clients -> 0..made] /\ 0..made \subseteq 0..made' /\ made' \in 0..made'
        BY <3>1 DEF IInv, TypeOK
      <4>2. QED
        BY <4>1, <1>3
    <3>3. entitled' = [entitled EXCEPT ![c] = u]
      BY <1>1, <1>3
    <3>4. entitled' \in [Clients -> Users \cup {NoUser}]
      BY <3>3, <1>1 DEF IInv, TypeOK
    <3>5. [user |-> u, live |-> TRUE] \in [user : Users \cup {NoUser}, live : BOOLEAN]
      BY <1>1
    <3>6. sessions' \in [1..MaxSessions -> [user : Users \cup {NoUser}, live : BOOLEAN]]
      BY <3>1, <3>5, <1>3 DEF IInv, TypeOK
    <3>7. QED
      BY <3>1, <3>2, <3>3, <3>4, <3>6
  <2>2. /\ call' \in [Clients -> CallType] /\ call'[c] = Ended("ok")
        /\ \A d \in Clients \ {c} : call'[d] = call[d]
    BY <1>3, EndedTyped DEF End, IInv, TypeOK, CallType
  <2>3. BootTypeOK' /\ BootInv'
    BY <1>1, BootUnchanged DEF IInv, TypeOK
  <2>4. TypeOK'
    <3>1. \A d \in Clients : ~Free(d)' => ~Free(d)
      BY <2>2, <1>1 DEF Free
    <3>2. \A d \in Clients : ~Free(d)' => initPc' # "dead" /\ (script' = "idle" \/ kept')
      BY <3>1, <1>1, UnderWay DEF bootVars
    <3>3. made' \in 0..MaxSessions
      BY <2>1
    <3>4. IsHashed' \in [Users -> BOOLEAN] /\ Password' \in [Users -> Passwords \cup {NoPassword}]
      BY <1>1 DEF IInv, TypeOK
    <3>5. QED
      BY <2>1, <2>2, <2>3, <3>2, <3>3, <3>4 DEF TypeOK, CallType
  <2>5. CallInv'
    <3> SUFFICES ASSUME NEW d \in Clients PROVE CallOK(d)'
      BY DEF CallInv
    <3>1. CASE d = c
      BY <3>1, <2>2, EndedTyped DEF CallOK
    <3>2. CASE d # c
      <4>1. call'[d] = call[d] /\ cookie'[d] = cookie[d] /\ CallOK(d)
        BY <3>2, <1>3, <2>2 DEF IInv, TypeOK, CallInv
      <4>2. QED
        BY <4>1, <1>1 DEF CallOK, Accepted, Right, Known, bootVars
    <3>3. QED
      BY <3>1, <3>2
  <2>6. MapInv'
    BY <1>1 DEF IInv, MapInv, Accepted, Right, Known, bootVars
  <2>7. SessionInv'
    <3> SUFFICES ASSUME NEW d \in Clients, cookie'[d] # 0, sessions'[cookie'[d]].live
                 PROVE  entitled'[d] = sessions'[cookie'[d]].user
      BY DEF SessionInv
    <3>1. CASE d = c
      BY <3>1, <1>3, <2>1 DEF IInv, TypeOK
    <3>2. CASE d # c
      <4>1. cookie'[d] = cookie[d] /\ entitled'[d] = entitled[d] /\ cookie[d] \in 1..made
        BY <3>2, <1>3, <2>1 DEF IInv, TypeOK
      <4>2. sessions'[cookie[d]] = sessions[cookie[d]]
        BY <4>1, <1>3, <2>1 DEF IInv, TypeOK
      <4>3. QED
        BY <4>1, <4>2 DEF IInv, SessionInv
    <3>3. QED
      BY <3>1, <3>2
  <2>8. QED
    BY <2>3, <2>4, <2>5, <2>6, <2>7 DEF IInv
<1>4. QED
  BY <1>2, <1>3 DEF Create

LEMMA ExpireKept ==
    ASSUME IInv, NEW s \in 1..MaxSessions, Expire(s)
    PROVE  IInv'
<1>1. /\ sessions' = [sessions EXCEPT ![s].live = FALSE]
      /\ entitled' = [c \in Clients |-> IF cookie[c] = s THEN NoUser ELSE entitled[c]]
      /\ UNCHANGED <<bootVars, call, IsHashed, Password, made, cookie>>
  BY DEF Expire
<1>2. /\ sessions' \in [1..MaxSessions -> [user : Users \cup {NoUser}, live : BOOLEAN]]
      /\ ~sessions'[s].live
      /\ \A t \in 1..MaxSessions \ {s} : sessions'[t] = sessions[t]
  BY <1>1 DEF IInv, TypeOK
<1>3. BootTypeOK' /\ BootInv'
  BY <1>1, BootUnchanged DEF IInv, TypeOK
<1>4. TypeOK'
  BY <1>1, <1>2, <1>3 DEF IInv, TypeOK, Free, bootVars
<1>5. CallInv' /\ MapInv'
  BY <1>1 DEF IInv, CallInv, CallOK, MapInv, Accepted, Right, Known, bootVars
<1>6. SessionInv'
  <2> SUFFICES ASSUME NEW d \in Clients, cookie[d] # 0, sessions'[cookie[d]].live
               PROVE  entitled'[d] = sessions'[cookie[d]].user
    BY <1>1 DEF SessionInv
  <2>1. cookie[d] # s /\ cookie[d] \in 1..MaxSessions
    BY <1>2 DEF IInv, TypeOK
  <2>2. QED
    BY <1>1, <1>2, <2>1 DEF IInv, SessionInv
<1>7. QED
  BY <1>3, <1>4, <1>5, <1>6 DEF IInv

LEMMA RequestKept ==
    ASSUME IInv, NEW c \in Clients, Request(c)
    PROVE  IInv'
<1>1. Begun("lookup") \in CallType /\ call' = [call EXCEPT ![c] = Begun("lookup")]
      /\ call'[c] = Begun("lookup")
  BY DEF Begun, CallType, Positions, Request, IInv, TypeOK
<1>2. CallOK(c)'
  BY <1>1 DEF CallOK, Begun, Request
<1>3. QED
  BY <1>1, <1>2, CallMoved DEF Request

\* The user a request is served as is the one who logged in.
LEMMA FoundEntitled ==
    ASSUME IInv, NEW c \in Clients, call[c].at = "lookup", cookie[c] # 0, sessions[cookie[c]].live
    PROVE  entitled[c] = sessions[cookie[c]].user
BY DEF IInv, SessionInv

LEMMA FindUserKept ==
    ASSUME IInv, NEW c \in Clients, FindUser(c)
    PROVE  IInv'
<1> DEFINE row == sessions[cookie[c]]
           l   == [call[c] EXCEPT !.at = "serving", !.user = row.user]
<1>1. ~Free(c) /\ UNCHANGED <<bootVars, IsHashed, Password, sessions, made, cookie, entitled>>
  BY DEF FindUser, Free
<1>2. CASE End(c, "refused")
  BY <1>1, <1>2, EndKept
<1>3. CASE call' = [call EXCEPT ![c].at = "serving", ![c].user = row.user]
  <2>1. cookie[c] \in 1..MaxSessions
    BY DEF FindUser, IInv, TypeOK, CallInv, CallOK
  <2>2. row.user \in Names \cup {NoUser}
    BY <2>1 DEF IInv, TypeOK
  <2>3. l \in CallType /\ l.at = "serving"
    BY <1>1, <2>2, UnderWay DEF CallType, Positions
  <2>4. call' = [call EXCEPT ![c] = l] /\ call'[c] = l
    BY <1>3 DEF IInv, TypeOK
  <2>5. CallOK(c)'
    BY <2>3, <2>4 DEF CallOK
  <2>6. QED
    BY <1>1, <2>3, <2>4, <2>5, UnderWay, CallMoved
<1>4. QED
  BY <1>2, <1>3 DEF FindUser

LEMMA ServeKept ==
    ASSUME IInv, NEW c \in Clients, Serve(c)
    PROVE  IInv'
<1>1. ~Free(c) /\ UNCHANGED <<bootVars, IsHashed, Password, sessions, made, cookie, entitled>>
  BY DEF Serve, Free
<1>2. CASE End(c, "ok")
  BY <1>1, <1>2, EndKept
<1>3. CASE End(c, "panicked")
  BY <1>1, <1>3, EndKept
<1>4. QED
  BY <1>2, <1>3 DEF Serve
-----------------------------------------------------------------------------
(***************************************************************************)
(* The theorems                                                            *)
(***************************************************************************)

LEMMA InitIInv == Init => IInv
<1> SUFFICES ASSUME Init PROVE IInv
  OBVIOUS
<1>1. BootTypeOK /\ BootInv
  <2>1. BootInit /\ Nothing \in [Tables -> Absent..MaxStarts]
    BY Bounds DEF Init, Nothing
  <2>2. 0 \in 0..MaxStarts
    BY Bounds
  <2>3. BootTypeOK
    BY <2>1, <2>2 DEF BootInit, BootTypeOK
  <2>4. BootInv
    BY <2>1 DEF BootInit, BootInv, NoLeftover, QuietWriting, ReadIsCurrent, LoadWhileAsleep,
                Created, Alive, Unloaded, KeptByFault, Clean, TablesWhole, MarkedOnce, KeptWhole,
                Writing, Loading, Loaded, Nothing, Absent
  <2>5. QED
    BY <2>3, <2>4
<1>2. Begun("idle") \in CallType /\ Begun("idle").at = "idle" /\ Begun("idle").user = NoUser
  BY DEF Begun, CallType, Positions
<1>3. NoRow \in [user : Users \cup {NoUser}, live : BOOLEAN]
  BY DEF NoRow
<1>4. TypeOK
  BY <1>1, <1>2, <1>3 DEF Init, TypeOK, NoHash, NoDigest, CallType, Free
<1>5. CallInv
  BY <1>2 DEF Init, CallInv, CallOK
<1>6. MapInv /\ SessionInv
  BY DEF Init, MapInv, SessionInv, NoHash
<1>7. QED
  BY <1>1, <1>4, <1>5, <1>6 DEF IInv

LEMMA ClientKept ==
    ASSUME IInv, NEW c \in Clients, LoginStep(c) \/ RequestStep(c)
    PROVE  IInv'
BY LoginKept, FindKept, CheckKept, DigestKept, CompareKept, WritePasswordKept, WriteIsHashedKept,
   CreateKept, RequestKept, FindUserKept, ServeKept DEF LoginStep, RequestStep

LEMMA StillKept ==
    ASSUME IInv, UNCHANGED vars
    PROVE  IInv'
<1>1. BootTypeOK' /\ BootInv'
  BY BootUnchanged DEF vars, IInv, TypeOK
<1>2. TypeOK'
  BY <1>1 DEF IInv, TypeOK, Free, vars, bootVars, sessionVars
<1>3. CallInv' /\ MapInv' /\ SessionInv'
  BY DEF IInv, CallInv, CallOK, MapInv, SessionInv, Accepted, Right, Known, vars, bootVars, sessionVars
<1>4. QED
  BY <1>1, <1>2, <1>3 DEF IInv

LEMMA StepKept == IInv /\ [Next]_vars => IInv'
BY OperateKept, OperateFailsKept, RunScriptKept, LoadKept, CollisionsKept, ClientKept, ExpireKept, StillKept DEF Next

\* The whole invariant, of the script, InitCache, the logins and the sessions.
THEOREM BootedInvariance == Spec => []IInv
BY InitIInv, StepKept, PTL DEF Spec

\* The state has its shapes, and no call is under way where the process has
\* ended, or where a script runs that has replaced it.
THEOREM SessionTypes == Spec => []TypeOK
<1>1. IInv => TypeOK
  BY DEF IInv
<1>2. QED
  BY <1>1, BootedInvariance, PTL

\* A server whose InitCache is done works on the data in the tables, whatever
\* the script and InitCache have done in which order, or, where a failed restart
\* has left it at work, on all of the data of one script before; unless two
\* commands, statements or processes fail.
THEOREM ServerHasTheData == Spec => []LoadedIsRestored
<1>1. IInv => LoadedIsRestored
  <2> SUFFICES ASSUME IInv, faults <= 1, initPc = "done"
               PROVE  IF kept THEN \E v \in 1..scripts : cached = [t \in Tables |-> v]
                      ELSE cached = tables
    BY DEF LoadedIsRestored
  <2>1. cached \in [Tables -> Absent..MaxStarts] /\ tables \in [Tables -> Absent..MaxStarts]
    BY DEF IInv, TypeOK, BootTypeOK
  <2>2. CASE ~kept
    <3>1. \A t \in Tables : cached[t] = tables[t]
      BY <2>2 DEF IInv, BootInv, ReadIsCurrent
    <3>2. QED
      BY <2>1, <2>2, <3>1
  <2>3. CASE kept
    <3>1. faults = 1
      BY <2>3 DEF IInv, TypeOK, BootTypeOK, BootInv, KeptByFault
    <3>2. PICK v \in 1..scripts : \A t \in Tables : cached[t] = v
      BY <2>3, <3>1 DEF IInv, BootInv, KeptWhole
    <3>3. cached = [t \in Tables |-> v]
      BY <2>1, <3>2
    <3>4. QED
      BY <2>3, <3>3
  <2>4. QED
    BY <2>2, <2>3
<1>2. QED
  BY <1>1, BootedInvariance, PTL

\* The map Password of the cache never vouches for a password that is not the
\* user's in the table, however many logins write it without a lock; of a
\* server that a failed restart has left at work, for one that the user has
\* not had in any script's data.
THEOREM DigestsCurrent == Spec => []DigestIsCurrent
<1>1. IInv => DigestIsCurrent
  BY DEF IInv, MapInv, DigestIsCurrent
<1>2. QED
  BY <1>1, BootedInvariance, PTL

\* A login that moves to its answer 401 does so where FindByUserName has found
\* nobody, where bcrypt refused, or where the digest read is another one.
LEMMA Refusal ==
    ASSUME IInv, [Next]_vars, NEW c \in Clients, call[c].user # NoUser, call[c].at # "serving",
           call'[c].at = "refused"
    PROVE  ~Right(call[c].user, call[c].password) \/ Overlap(c) \/ kept
<1>1. call \in [Clients -> CallType] /\ call[c].at \notin {"idle", "refused", "lookup"}
  BY DEF IInv, TypeOK, CallType, CallInv, CallOK
<1>2. ASSUME call' = call PROVE FALSE
  BY <1>1, <1>2
<1>3. ASSUME CutOff PROVE FALSE
  <2>1. call'[c] = Begun("idle")
    BY <1>1, <1>3 DEF CutOff, Free, Ended
  <2>2. QED
    BY <2>1 DEF Begun
<1>4. ASSUME NEW d \in Clients, NEW l, call' = [call EXCEPT ![d] = l], l.at # "refused" PROVE FALSE
  BY <1>1, <1>4
<1>5. ASSUME NEW d \in Clients, NEW at, Goto(d, at), at # "refused" PROVE FALSE
  BY <1>1, <1>5 DEF Goto, CallType
<1>6. ASSUME NEW d \in Clients, NEW how, End(d, how), how # "refused" PROVE FALSE
  <2>1. Ended(how).at # "refused" /\ call' = [call EXCEPT ![d] = Ended(how)]
    BY <1>6 DEF End, Ended, Begun
  <2>2. QED
    BY <2>1, <1>4
<1>7. ASSUME NEW d \in Clients, End(d, "refused") PROVE d = c
  BY <1>1, <1>7 DEF End
<1>8. CASE Operate \/ OperateFails \/ RunScript \/ Load \/ Collide \/ LoginsCollide
  BY <1>2, <1>3, <1>8 DEF Operate, OperateFails, sessionVars, RunScript, Load, Collide, LoginsCollide, Fatal
<1>9. ASSUME NEW d \in Clients, LoginStep(d)
      PROVE  ~Right(call[c].user, call[c].password) \/ Overlap(c) \/ kept
  <2>1. ASSUME NEW u \in Names, NEW p \in Passwords, Login(d, u, p) PROVE FALSE
    <3> DEFINE l == [Begun("find") EXCEPT !.user = u, !.password = p]
    <3>1. l.at # "refused"
      BY DEF Begun
    <3>2. call' = [call EXCEPT ![d] = l]
      BY <2>1 DEF Login
    <3>3. QED
      BY <3>1, <3>2, <1>4
  <2>2. CASE Find(d)
    <3>1. ASSUME call' = [call EXCEPT ![d].at = "check",
                                      ![d].hash = PasswordOf[tables["users"]][call[d].user]]
          PROVE  FALSE
      BY <3>1, <1>1 DEF CallType
    <3>2. CASE ~Known(call[d].user) /\ End(d, "refused")
      BY <3>2, <1>7 DEF Right
    <3>3. QED
      BY <2>2, <3>1, <3>2, <1>6 DEF Find
  <2>3. CASE Check(d)
    BY <2>3, <1>5 DEF Check
  <2>4. CASE Digest(d)
    <3>1. End(d, "refused") /\ d = c /\ call[c].at = "digest"
      BY <2>4, <1>5, <1>7 DEF Digest
    <3>2. Right(call[c].user, Password[call[c].user]) \/ kept
      BY <3>1, DigestRight DEF Accepted
    <3>3. QED
      BY <2>4, <3>1, <3>2, <1>5 DEF Digest, Right, Overlap
  <2>5. CASE Compare(d)
    <3>1. call[d].password # call[d].hash /\ d = c /\ call[c].at = "compare"
      BY <2>5, <1>5, <1>6, <1>7 DEF Compare
    <3>2. QED
      BY <3>1 DEF IInv, CallInv, CallOK, Accepted, Right
  <2>6. CASE WritePassword(d) \/ WriteIsHashed(d)
    BY <2>6, <1>5 DEF WritePassword, WriteIsHashed
  <2>7. CASE Create(d)
    BY <2>7, <1>6 DEF Create
  <2>8. QED
    BY <1>9, <2>1, <2>2, <2>3, <2>4, <2>5, <2>6, <2>7 DEF LoginStep
<1>10. ASSUME NEW d \in Clients, RequestStep(d) PROVE FALSE
  <2>1. CASE Request(d)
    <3>1. Begun("lookup").at # "refused" /\ call' = [call EXCEPT ![d] = Begun("lookup")]
      BY <2>1 DEF Request, Begun
    <3>2. QED
      BY <3>1, <1>4
  <2>2. CASE FindUser(d)
    <3>1. ASSUME End(d, "refused") PROVE FALSE
      BY <2>2, <3>1, <1>1, <1>7 DEF FindUser
    <3>2. ASSUME call' = [call EXCEPT ![d].at = "serving",
                                      ![d].user = sessions[cookie[d]].user]
          PROVE  FALSE
      BY <3>2, <1>1 DEF CallType
    <3>3. QED
      BY <2>2, <3>1, <3>2 DEF FindUser
  <2>3. CASE Serve(d)
    BY <2>3, <1>6 DEF Serve
  <2>4. QED
    BY <1>10, <2>1, <2>2, <2>3 DEF RequestStep
<1>11. CASE \E s \in 1..MaxSessions : Expire(s)
  BY <1>2, <1>11 DEF Expire
<1>12. CASE UNCHANGED vars
  BY <1>2, <1>12 DEF vars, sessionVars
<1>13. QED
  BY <1>8, <1>9, <1>10, <1>11, <1>12 DEF Next

\* AuthService.Login of a server that was not kept over new data answers 401 to
\* the right password only where its read of the map Password overlaps a write: what another login wrote, or has not
\* written yet, never refuses a user.
THEOREM RefusalsAreRight == Spec => RefusedIsWrong
<1>1. IInv /\ [Next]_vars =>
        \A c \in Clients :
            call[c].user # NoUser /\ call[c].at # "serving" /\ call'[c].at = "refused"
               => ~Right(call[c].user, call[c].password) \/ Overlap(c) \/ kept
  BY Refusal
<1>2. QED
  BY <1>1, BootedInvariance, PTL DEF Spec, RefusedIsWrong

\* A client's step is no other client's.
LEMMA OthersStay ==
    ASSUME call \in [Clients -> CallType], NEW d \in Clients, LoginStep(d) \/ RequestStep(d),
           NEW c \in Clients, c # d
    PROVE  call'[c] = call[c]
<1>1. ASSUME NEW l, call' = [call EXCEPT ![d] = l] PROVE call'[c] = call[c]
  BY <1>1
<1>2. ASSUME NEW how, End(d, how) PROVE call'[c] = call[c]
  BY <1>2 DEF End
<1>3. ASSUME NEW at, Goto(d, at) PROVE call'[c] = call[c]
  BY <1>3 DEF Goto
<1>4. CASE \E u \in Names, p \in Passwords : Login(d, u, p)
  BY <1>1, <1>4 DEF Login
<1>5. CASE Find(d)
  BY <1>2, <1>5 DEF Find
<1>6. CASE Check(d) \/ Digest(d) \/ Compare(d) \/ WritePassword(d) \/ WriteIsHashed(d) \/ Create(d)
  BY <1>2, <1>3, <1>6 DEF Check, Digest, Compare, WritePassword, WriteIsHashed, Create
<1>7. CASE RequestStep(d)
  BY <1>1, <1>2, <1>7 DEF RequestStep, Request, FindUser, Serve
<1>8. QED
  BY <1>4, <1>5, <1>6, <1>7 DEF LoginStep

\* FindUserBySessionID hands a request to a handler as the user whose password
\* this client has logged in with, on the data of now (with a kept server: or of
\* before), by a session that has not expired: whatever restarts, restores and other logins came between.
THEOREM OnlyEntitledServed == Spec => ServedIsEntitled
<1>1. ASSUME IInv, [Next]_vars, NEW c \in Clients, call[c].at = "lookup", call'[c].at = "serving"
      PROVE  entitled[c] = call'[c].user
  <2>1. call \in [Clients -> CallType]
    BY <1>1 DEF IInv, TypeOK, CallType
  <2>2. ASSUME call' = call \/ CutOff PROVE FALSE
    <3>1. CASE call' = call
      BY <1>1, <3>1
    <3>2. CASE CutOff
      <4>1. call'[c] = Ended("error")
        BY <1>1, <3>2 DEF CutOff, Free
      <4>2. QED
        BY <1>1, <4>1, EndedTyped
    <3>3. QED
      BY <2>2, <3>1, <3>2
  <2>3. ASSUME NEW d \in Clients, NEW l, call' = [call EXCEPT ![d] = l] PROVE d = c /\ l.at = "serving"
    BY <1>1, <2>1, <2>3
  <2>4. ASSUME NEW d \in Clients, LoginStep(d) \/ Serve(d) PROVE FALSE
    <3>1. call[d].at # "lookup"
      BY <2>4 DEF LoginStep, Login, Find, Check, Digest, Compare, WritePassword,
                  WriteIsHashed, Create, Serve, Free
    <3>2. QED
      <4>1. d # c
        BY <1>1, <3>1
      <4>2. call'[c] = call[c]
        BY <2>1, <2>4, <4>1, OthersStay DEF RequestStep
      <4>3. QED
        BY <1>1, <4>2
  <2>5. ASSUME NEW d \in Clients, Request(d) PROVE FALSE
    <3>1. call' = [call EXCEPT ![d] = Begun("lookup")] /\ Begun("lookup").at = "lookup"
      BY <2>5 DEF Request, Begun
    <3>2. QED
      BY <3>1, <2>3
  <2>6. ASSUME NEW d \in Clients, FindUser(d) PROVE entitled[c] = call'[c].user
    <3> DEFINE row == sessions[cookie[d]]
    <3>1. ASSUME End(d, "refused") PROVE FALSE
      <4>1. Ended("refused").at = "refused" /\ call' = [call EXCEPT ![d] = Ended("refused")]
        BY <3>1 DEF End, Ended, Begun
      <4>2. QED
        BY <4>1, <2>3
    <3>2. row.live /\ call' = [call EXCEPT ![d].at = "serving", ![d].user = row.user]
      BY <2>6, <3>1 DEF FindUser
    <3>3. d = c /\ call'[c].user = row.user
      BY <3>2, <2>1, <1>1 DEF CallType
    <3>4. cookie[c] # 0
      BY <1>1 DEF IInv, CallInv, CallOK
    <3>5. QED
      BY <1>1, <3>2, <3>3, <3>4, FoundEntitled
  <2>7. CASE Operate \/ OperateFails \/ RunScript \/ Load \/ Collide \/ LoginsCollide
    BY <2>2, <2>7 DEF Operate, OperateFails, sessionVars, RunScript, Load, Collide, LoginsCollide, Fatal
  <2>8. CASE (\E s \in 1..MaxSessions : Expire(s)) \/ UNCHANGED vars
    BY <2>2, <2>8 DEF Expire, vars, sessionVars
  <2>9. QED
    BY <1>1, <2>4, <2>5, <2>6, <2>7, <2>8 DEF Next, RequestStep
<1>2. IInv /\ [Next]_vars =>
        \A c \in Clients :
            call[c].at = "lookup" /\ call'[c].at = "serving" => entitled[c] = call'[c].user
  BY <1>1
<1>3. QED
  BY <1>2, BootedInvariance, PTL DEF Spec, ServedIsEntitled

\* Where no command, statement or process fails, the process of the server
\* only ends of two logins in one map: InitCache is done with the cache before
\* a call comes, and never meets a table that is not there.
THEOREM OnlyLoginsEnd == Spec => EndedByLogins
<1>1. ASSUME IInv, [Next]_vars, faults' = 0, initPc # "dead", initPc' = "dead"
      PROVE  \E c \in Clients : Overlap(c)
  <2>1. faults \in Nat
    BY <1>1 DEF IInv, TypeOK, BootTypeOK
  <2>2. ~Operate /\ ~OperateFails
    BY <1>1, <2>1 DEF Operate, OperateFails, RestartFails, StartKept, NotReplaced, Restart, Start,
                      NewBackend, Crash, Fault
  <2>3. ~RunScript
    BY <1>1 DEF RunScript, ScriptStep, ScriptFails, Recreate, CreateTables, Restore,
                RestoreSkipped, CreateMarker, EndSleep, DropMarker
  <2>4. ASSUME Load PROVE FALSE
    <3>1. faults = 0
      BY <1>1, <2>1, <2>4 DEF Load, InitCache, Poll, TakeMarker, Select, Replace, LoadOrders, Fault
    <3>2. ASSUME initPc \in Loading PROVE \A t \in Tables : tables[t] # Absent
      BY <1>1, <3>1, <3>2 DEF IInv, BootInv, LoadWhileAsleep, Created
    <3>3. QED
      BY <1>1, <2>4, <3>2 DEF Load, InitCache, Poll, TakeMarker, Select, Replace, LoadOrders,
                              Loading, Tables
  <2>5. ASSUME Collide PROVE FALSE
    <3>1. script = "idle" /\ faults = 0 /\ initPc \in {"replace", "orders"}
      BY <1>1, <2>5, AtTheMaps DEF Collide, Fatal, IInv, BootInv, KeptByFault
    <3>2. QED
      BY <1>1, <3>1 DEF IInv, BootInv, LoadWhileAsleep, Loading
  <2>6. ASSUME NEW c \in Clients, LoginStep(c) \/ RequestStep(c) PROVE initPc' = initPc
    BY <2>6 DEF LoginStep, RequestStep, Login, Find, Check, Digest, Compare, WritePassword,
                WriteIsHashed, Create, Request, FindUser, Serve, bootVars
  <2>7. ASSUME NEW s \in 1..MaxSessions, Expire(s) PROVE initPc' = initPc
    BY <2>7 DEF Expire, bootVars
  <2>8. CASE LoginsCollide
    BY <2>8 DEF LoginsCollide
  <2>9. QED
    BY <1>1, <2>2, <2>3, <2>4, <2>5, <2>6, <2>7, <2>8 DEF Next, vars, bootVars
<1>2. QED
  BY <1>1, BootedInvariance, PTL DEF Spec, EndedByLogins
=============================================================================
