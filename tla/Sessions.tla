------------------------------ MODULE Sessions ------------------------------
(***************************************************************************)
(* Login and the sessions, on top of CacheBoot: AuthService.Login, which   *)
(* keeps the digest of a password that bcrypt has accepted in two maps of  *)
(* the cache, without a lock; SessionRepository; UserAuthMiddleware around *)
(* every other call of a customer.                                         *)
(*                                                                         *)
(* Clients use the server between two runs of the script, as run.sh does.  *)
(***************************************************************************)
EXTENDS CacheBoot

CONSTANTS
    Users,          \* rows of users
    Names,          \* what a login may name: the users and others
    NoUser,         \* neither
    Passwords,
    NoPassword,     \* none of them, the digest of a user not in the map
    PasswordOf,     \* the passwords in each script's data
    Clients,
    MaxSessions     \* bound: sessions ever made; a session is its number

ASSUME SessionAssumption ==
    /\ Users \subseteq Names /\ NoUser \notin Names /\ NoPassword \notin Passwords
    /\ PasswordOf \in [1..MaxStarts -> [Users -> Passwords]]
    /\ MaxSessions \in Nat

VARIABLES
    call,           \* what each client is doing
    IsHashed,       \* Cache.IsHashed
    Password,       \* Cache.Password
    sessions,       \* user_sessions: whose it is, and whether it has expired
    made,           \* sessions made so far
    cookie,         \* the session each client presents, 0 for none
    entitled        \* history: whom a client logged in as, while that is valid

sessionVars == <<call, IsHashed, Password, sessions, made, cookie, entitled>>
vars == <<bootVars, sessionVars>>

Positions == {"idle", "refused", "find", "check", "digest", "compare", "password",
              "hashed", "insert", "lookup", "serving"}

Begun(at) == [at |-> at, user |-> NoUser, password |-> NoPassword, hash |-> NoPassword]

\* The answers: "ok", "error" (500, or no answer), "panicked" (no answer) and
\* "refused" (401), the one that is remembered.
Ended(how) == Begun(IF how = "refused" THEN how ELSE "idle")
Free(c)    == call[c].at \in {"idle", "refused"}

NoRow    == [user |-> NoUser, live |-> FALSE]
NoHash   == [u \in Users |-> FALSE]
NoDigest == [u \in Users |-> NoPassword]

Init ==
    /\ BootInit
    /\ call = [c \in Clients |-> Begun("idle")]
    /\ IsHashed = NoHash /\ Password = NoDigest
    /\ sessions = [s \in 1..MaxSessions |-> NoRow] /\ made = 0
    /\ cookie = [c \in Clients |-> 0]
    /\ entitled = [c \in Clients |-> NoUser]

Goto(c, at) == call' = [call EXCEPT ![c].at = at]
End(c, how) == call' = [call EXCEPT ![c] = Ended(how)]

Known(u)    == u \in Users /\ tables["users"] > Empty
Right(u, p) == Known(u) /\ p = PasswordOf[tables["users"]][u]

\* A server that was kept may go by the passwords of earlier data.
Accepted(u, p) ==
    \/ Right(u, p)
    \/ kept /\ u \in Users /\ \E v \in 1..scripts : p = PasswordOf[v][u]

HasCache == cached # Nothing
-----------------------------------------------------------------------------
(* The process and the data under the clients *)

\* Mutant: a call goes on where the process ended.
CutOffNot == IsHashed' = NoHash /\ Password' = NoDigest /\ UNCHANGED call

\* The calls under way, and the maps, end with the process.
CutOff ==
    /\ call' = [c \in Clients |-> IF Free(c) THEN call[c] ELSE Ended("error")]
    /\ IsHashed' = NoHash /\ Password' = NoDigest

Operate ==
    /\ Restart \/ Start \/ Crash
    /\ CutOff
    /\ UNCHANGED <<sessions, made, cookie, entitled>>

\* A restart that leaves the old server running: its calls and maps go on.
OperateFails ==
    /\ RestartFails \/ StartKept
    /\ UNCHANGED sessionVars

\* user_sessions goes with the database.
RunScript ==
    /\ ScriptStep \/ ScriptFails
    /\ IF script' = "init"
       THEN /\ sessions' = [s \in 1..MaxSessions |-> NoRow]
            /\ entitled' = [c \in Clients |-> NoUser]
       ELSE UNCHANGED <<sessions, entitled>>
    /\ UNCHANGED <<call, IsHashed, Password, made, cookie>>

Load ==
    /\ InitCache
    /\ IF initPc' = "dead" THEN CutOff
       ELSE /\ IF initPc = "replace" THEN IsHashed' = NoHash /\ Password' = NoDigest
               ELSE UNCHANGED <<IsHashed, Password>>
            /\ UNCHANGED call
    /\ UNCHANGED <<sessions, made, cookie, entitled>>

\* The Go runtime ends the process, as nothing recovers it: a mutex unlocked
\* that is not the one locked, or two goroutines in one map.
Fatal ==
    /\ Die /\ CutOff
    /\ UNCHANGED <<tables, marker, script, scripts, restarts, faults>>
    /\ UNCHANGED <<sessions, made, cookie, entitled>>

\* InitCache replaces or fills the cache while a handler uses it.
Collide ==
    /\ initPc \in {"replace", "orders"}
    /\ \E c \in Clients : call[c].at \in {"serving", "password", "hashed"}
    /\ Fatal
-----------------------------------------------------------------------------
(* AuthService.Login *)

Login(c, u, p) ==
    /\ Free(c) /\ initPc # "dead" /\ script = "idle"
    /\ call' = [call EXCEPT ![c] = [Begun("find") EXCEPT !.user = u, !.password = p]]
    /\ UNCHANGED <<bootVars, IsHashed, Password, sessions, made, cookie, entitled>>

\* FindByUserName.
Find(c) ==
    /\ call[c].at = "find"
    /\ LET u == call[c].user
       IN  \/ /\ Known(u)
              /\ call' = [call EXCEPT ![c].at = "check",
                                      ![c].hash = PasswordOf[tables["users"]][u]]
           \/ ~Known(u) /\ tables["users"] # Absent /\ End(c, "refused")
           \/ End(c, "error")
    /\ UNCHANGED <<bootVars, IsHashed, Password, sessions, made, cookie, entitled>>

\* Another login writes the map at the same time: Go ends the process when it
\* notices (LoginsCollide), and a read it does not notice may miss the entry.
Written(c, at) == \E d \in Clients \ {c} : call[d].at = at

Check(c) ==
    /\ call[c].at = "check"
    /\ \/ IsHashed[call[c].user] /\ Goto(c, "digest")
       \/ /\ ~IsHashed[call[c].user] \/ Written(c, "hashed")
          /\ Goto(c, "compare")
    /\ UNCHANGED <<bootVars, IsHashed, Password, sessions, made, cookie, entitled>>

Digest(c) ==
    /\ call[c].at = "digest"
    /\ \/ Password[call[c].user] = call[c].password /\ Goto(c, "insert")
       \/ /\ Password[call[c].user] # call[c].password \/ Written(c, "password")
          /\ End(c, "refused")
    /\ UNCHANGED <<bootVars, IsHashed, Password, sessions, made, cookie, entitled>>

\* Mutant: the digest is written whatever bcrypt says.
CompareLate(c) ==
    /\ call[c].at = "compare"
    /\ Password' = [Password EXCEPT ![call[c].user] = call[c].password]
    /\ IF call[c].password # call[c].hash THEN End(c, "refused")
       ELSE IF HasCache THEN Goto(c, "password") ELSE End(c, "panicked")
    /\ UNCHANGED <<bootVars, IsHashed, sessions, made, cookie, entitled>>

\* Mutant: IsHashed is set before Password.
CompareMarksFirst(c) ==
    /\ call[c].at = "compare"
    /\ IF call[c].password # call[c].hash THEN End(c, "refused") /\ UNCHANGED IsHashed
       ELSE IF HasCache
            THEN /\ IsHashed' = [IsHashed EXCEPT ![call[c].user] = TRUE]
                 /\ Goto(c, "password")
            ELSE End(c, "panicked") /\ UNCHANGED IsHashed
    /\ UNCHANGED <<bootVars, Password, sessions, made, cookie, entitled>>

\* bcrypt; then the write of Password, which panics before there is a map
\* (net/http recovers it), begins.
Compare(c) ==
    /\ call[c].at = "compare"
    /\ IF call[c].password # call[c].hash THEN End(c, "refused")
       ELSE IF HasCache THEN Goto(c, "password") ELSE End(c, "panicked")
    /\ UNCHANGED <<bootVars, IsHashed, Password, sessions, made, cookie, entitled>>

\* The write ends; the one of IsHashed begins.
WritePassword(c) ==
    /\ call[c].at = "password"
    /\ Password' = [Password EXCEPT ![call[c].user] = call[c].password]
    /\ Goto(c, "hashed")
    /\ UNCHANGED <<bootVars, IsHashed, sessions, made, cookie, entitled>>

WriteIsHashed(c) ==
    /\ call[c].at = "hashed"
    /\ IsHashed' = [IsHashed EXCEPT ![call[c].user] = TRUE]
    /\ Goto(c, "insert")
    /\ UNCHANGED <<bootVars, Password, sessions, made, cookie, entitled>>

\* Two logins in one map, one of them writing.
Overlap(c) ==
    \/ call[c].at \in {"password", "digest"} /\ Written(c, "password")
    \/ call[c].at \in {"hashed", "check"} /\ Written(c, "hashed")

LoginsCollide ==
    /\ \E c \in Clients : Overlap(c)
    /\ Fatal

\* SessionRepository.Create, whose row refers to one of users, and the cookie.
Create(c) ==
    /\ call[c].at = "insert"
    /\ \/ /\ Known(call[c].user)
          /\ made < MaxSessions /\ made' = made + 1
          /\ sessions' = [sessions EXCEPT ![made'] = [user |-> call[c].user, live |-> TRUE]]
          /\ cookie' = [cookie EXCEPT ![c] = made']
          /\ entitled' = [entitled EXCEPT ![c] =
                             IF Accepted(call[c].user, call[c].password) THEN call[c].user
                             ELSE NoUser]
          /\ End(c, "ok")
       \/ End(c, "error") /\ UNCHANGED <<sessions, made, cookie, entitled>>
    /\ UNCHANGED <<bootVars, IsHashed, Password>>
-----------------------------------------------------------------------------
(* UserAuthMiddleware *)

\* 24 hours have passed.
Expire(s) ==
    /\ sessions[s].live
    /\ sessions' = [sessions EXCEPT ![s].live = FALSE]
    /\ entitled' = [c \in Clients |-> IF cookie[c] = s THEN NoUser ELSE entitled[c]]
    /\ UNCHANGED <<bootVars, call, IsHashed, Password, made, cookie>>

Request(c) ==
    /\ Free(c) /\ initPc # "dead" /\ script = "idle"
    /\ cookie[c] # 0
    /\ call' = [call EXCEPT ![c] = Begun("lookup")]
    /\ UNCHANGED <<bootVars, IsHashed, Password, sessions, made, cookie, entitled>>

\* Mutant: the query does not ask whether the session has expired.
FindUserExpired(c) ==
    /\ call[c].at = "lookup"
    /\ LET row == sessions[cookie[c]]
       IN  \/ /\ row.user # NoUser
              /\ call' = [call EXCEPT ![c].at = "serving", ![c].user = row.user]
           \/ End(c, "refused")
    /\ UNCHANGED <<bootVars, IsHashed, Password, sessions, made, cookie, entitled>>

\* FindUserBySessionID; any error, also of the statement, is 401.
FindUser(c) ==
    /\ call[c].at = "lookup"
    /\ LET row == sessions[cookie[c]]
       IN  \/ /\ row.live
              /\ call' = [call EXCEPT ![c].at = "serving", ![c].user = row.user]
           \/ End(c, "refused")
    /\ UNCHANGED <<bootVars, IsHashed, Password, sessions, made, cookie, entitled>>

\* The handlers that index a slice of the cache panic before it is loaded.
Serve(c) ==
    /\ call[c].at = "serving"
    /\ \/ End(c, "ok")
       \/ ~HasCache /\ End(c, "panicked")
    /\ UNCHANGED <<bootVars, IsHashed, Password, sessions, made, cookie, entitled>>

LoginStep(c) ==
    \/ \E u \in Names, p \in Passwords : Login(c, u, p)
    \/ Find(c) \/ Check(c) \/ Digest(c) \/ Compare(c)
    \/ WritePassword(c) \/ WriteIsHashed(c) \/ Create(c)

RequestStep(c) == Request(c) \/ FindUser(c) \/ Serve(c)

Next ==
    \/ Operate \/ OperateFails \/ RunScript \/ Load \/ Collide \/ LoginsCollide
    \/ \E c \in Clients : LoginStep(c) \/ RequestStep(c)
    \/ \E s \in 1..MaxSessions : Expire(s)

\* The shell runs the next command when one has ended; InitCache is a
\* goroutine that always runs on.
Fairness == WF_vars(RunScript) /\ WF_vars(Load)

Spec == Init /\ [][Next]_vars /\ Fairness
-----------------------------------------------------------------------------
(* Properties *)

\* Variables have their shapes, and no call outlives its process.
TypeOK ==
    /\ BootTypeOK
    /\ call \in [Clients -> [at : Positions, user : Names \cup {NoUser},
                             password : Passwords \cup {NoPassword},
                             hash : Passwords \cup {NoPassword}]]
    /\ IsHashed \in [Users -> BOOLEAN]
    /\ Password \in [Users -> Passwords \cup {NoPassword}]
    /\ sessions \in [1..MaxSessions -> [user : Users \cup {NoUser}, live : BOOLEAN]]
    /\ made \in 0..MaxSessions
    /\ cookie \in [Clients -> 0..made]
    /\ entitled \in [Clients -> Users \cup {NoUser}]
    /\ \A c \in Clients : ~Free(c) => initPc # "dead" /\ (script = "idle" \/ kept)

\* The digest kept for a user is that of the password in the table, also when
\* logins overlap and after the data has been replaced by another's.  Where a
\* failed restart has kept the server, it is one this user has had: still
\* never what another login, or a wrong one, has tried.
DigestIsCurrent == \A u \in Users : IsHashed[u] => Accepted(u, Password[u])

\* A login with the right password is refused only where its read of the
\* digest overlaps a write, never for another login's password or a digest
\* that is not there yet, or by a server that a failed restart has kept.
RefusedIsWrong ==
    [][\A c \in Clients :
         call[c].user # NoUser /\ call[c].at # "serving" /\ call'[c].at = "refused"
            => ~Right(call[c].user, call[c].password) \/ Overlap(c) \/ kept]_vars

\* Whoever is served as a user has logged in with this user's password, in
\* the data of now (for a login to a kept server: or of before), by a session
\* that has not expired when it is looked up and was made in the data of now.
ServedIsEntitled ==
    [][\A c \in Clients :
         call[c].at = "lookup" /\ call'[c].at = "serving" => entitled[c] = call'[c].user]_vars

\* Where nothing fails, only logins that overlap end the process: while
\* InitCache is at the cache, no call is under way.
EndedByLogins ==
    [][faults' = 0 /\ initPc # "dead" /\ initPc' = "dead"
         => \E c \in Clients : Overlap(c)]_vars
=============================================================================
