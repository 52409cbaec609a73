---------------------------- MODULE DaemonProofs ----------------------------
(***************************************************************************)
(* For any number of clients, daemons and stops: start-up is serialized     *)
(* although a spawned daemon takes no lock itself, and the files lead to    *)
(* the daemon that serves, as long as no client gives up on a daemon that   *)
(* still starts, and nobody starts while somebody stops (StopsApart).       *)
(***************************************************************************)
EXTENDS DaemonLifecycle, TLAPS

(* A client that is past the lock has it; the pid file is written last.     *)
Places ==
    /\ \A c \in Clients : client[c] \in Waiting \cup {"recheck", "spawn"} => lock = c
    /\ \A c \in Clients : client[c] \in Waiting => child[c] \in Daemons
    /\ \A d \in Daemons : pidFile = d => daemon[d] \in {"serve", "ended"}
    /\ \A d \in Daemons : daemon[d] = "unborn" => keeper[d] = "none"
    /\ \A d \in Daemons : daemon[d] = "lock" => keeper[d] = "none"

(* Starts and stops do not overlap.                                         *)
Separate == StopInProgress => ~StartInProgress

NoneServes == \A d \in Daemons : daemon[d] # "serve"

(* A daemon that binds has the flock, or a client that waits for it has.    *)
Kept ==
    \A d \in Daemons :
        /\ daemon[d] \in Starting /\ keeper[d] # "none" =>
             client[keeper[d]] \in Waiting /\ child[keeper[d]] = d
        /\ daemon[d] \in Binding /\ keeper[d] = "none" => lock = d

(* None serves from where a start has found the socket dead, ...            *)
Vacant ==
    /\ \A d \in Daemons : daemon[d] \in {"unlink", "bind", "truncate", "write"} => NoneServes
    /\ \A d \in Daemons : daemon[d] \in Starting /\ keeper[d] # "none" => NoneServes
    /\ \A c \in Clients : client[c] = "spawn" => NoneServes

(* ... and the files lead to the one that listens.                          *)
Found ==
    \A d \in Daemons :
        /\ daemon[d] \in Listens => socketFile = d
        /\ daemon[d] = "serve" => pidFile = d

(* A stop has found out what it needs before it removes a file.             *)
Stopping ==
    \A s \in Stops :
        /\ stop[s] = "await" => \A d \in Daemons : daemon[d] = "serve" => d = target[s]
        /\ stop[s] \in {"removePid", "removeSocket"} => NoneServes
        /\ stop[s] = "removeSocket" => pidFile = "none"

Serial == Kept /\ Vacant /\ Found /\ Stopping
IInv == TypeOK /\ Places /\ Separate /\ (orphans = {} => Serial)
-----------------------------------------------------------------------------
LEMMA TypeStep == TypeOK /\ Places /\ [Next]_vars => TypeOK'
<1> SUFFICES ASSUME TypeOK, Places, [Next]_vars PROVE TypeOK'
  OBVIOUS
<1> USE DaemonAssumption
    DEF TypeOK, files, clientVars, daemonVars, stopVars,
        Waiting, Alive, Starting, Binding, Listens
<1>1. ASSUME NEW c \in Clients, ClientBegin(c) PROVE TypeOK'
  BY <1>1 DEF ClientBegin
<1>2. ASSUME NEW c \in Clients, ClientLocks(c) PROVE TypeOK'
  BY <1>2 DEF ClientLocks
<1>3. ASSUME NEW c \in Clients, Recheck(c) PROVE TypeOK'
  BY <1>3 DEF Recheck, ClientEnds
<1>4. ASSUME NEW c \in Clients, Spawn(c) PROVE TypeOK'
  BY <1>4 DEF Spawn
<1>5. ASSUME NEW c \in Clients, SpawnFails(c) PROVE TypeOK'
  BY <1>5 DEF SpawnFails, ClientEnds
<1>6. ASSUME NEW c \in Clients, SeeSocket(c) PROVE TypeOK'
  BY <1>6 DEF SeeSocket, SocketState
<1>7. ASSUME NEW c \in Clients, SeePid(c) PROVE TypeOK'
  BY <1>7 DEF SeePid, ClientEnds
<1>8. ASSUME NEW c \in Clients, GiveUp(c) PROVE TypeOK'
  BY <1>8 DEF GiveUp, ClientEnds, Places
<1>9. ASSUME NEW d \in Daemons, Launch(d) PROVE TypeOK'
  BY <1>9 DEF Launch, Goto, DaemonEnds, Release
<1>10. ASSUME NEW d \in Daemons, Recover(d) PROVE TypeOK'
  BY <1>10 DEF Recover, Goto, DaemonEnds, Release
<1>11. ASSUME NEW d \in Daemons, DaemonLocks(d) PROVE TypeOK'
  BY <1>11 DEF DaemonLocks, Goto, DaemonEnds, Release
<1>12. ASSUME NEW d \in Daemons, CheckSocket(d) PROVE TypeOK'
  BY <1>12 DEF CheckSocket, Goto, DaemonEnds, Release
<1>13. ASSUME NEW d \in Daemons, RemoveStaleSocket(d) PROVE TypeOK'
  BY <1>13 DEF RemoveStaleSocket, Goto, DaemonEnds, Release
<1>14. ASSUME NEW d \in Daemons, Bind(d) PROVE TypeOK'
  BY <1>14 DEF Bind, Goto, DaemonEnds, Release
<1>15. ASSUME NEW d \in Daemons, TruncatePid(d) PROVE TypeOK'
  BY <1>15 DEF TruncatePid, Goto, DaemonEnds, Release
<1>16. ASSUME NEW d \in Daemons, WritePid(d) PROVE TypeOK'
  BY <1>16 DEF WritePid, Goto, DaemonEnds, Release
<1>17. ASSUME NEW d \in Daemons, DaemonDies(d) PROVE TypeOK'
  BY <1>17 DEF DaemonDies, Goto, DaemonEnds, Release
<1>18. ASSUME NEW s \in Stops, StopSeesSocket(s) PROVE TypeOK'
  BY <1>18 DEF StopSeesSocket, StopGoto, Forget, SocketState
<1>19. ASSUME NEW s \in Stops, StopSeesPid(s) PROVE TypeOK'
  BY <1>19 DEF StopSeesPid, StopGoto, Forget, PidState
<1>20. ASSUME NEW s \in Stops, StopAwaits(s) PROVE TypeOK'
  BY <1>20 DEF StopAwaits, StopGoto, Forget
<1>21. ASSUME NEW s \in Stops, StopRemovesPid(s) PROVE TypeOK'
  BY <1>21 DEF StopRemovesPid, StopGoto, Forget
<1>22. ASSUME NEW s \in Stops, StopRemovesSocket(s) PROVE TypeOK'
  BY <1>22 DEF StopRemovesSocket, StopGoto, Forget
<1>23. ASSUME UNCHANGED vars PROVE TypeOK'
  BY <1>23 DEF vars
<1> QED  BY <1>1, <1>2, <1>3, <1>4, <1>5, <1>6, <1>7, <1>8, <1>9, <1>10, <1>11, <1>12, <1>13, <1>14, <1>15, <1>16, <1>17, <1>18, <1>19, <1>20, <1>21, <1>22, <1>23
        DEF Next, ClientStep, DaemonStep, StopStep

LEMMA PlacesStep == TypeOK /\ Places /\ [Next]_vars => Places'
<1> SUFFICES ASSUME TypeOK, Places, [Next]_vars PROVE Places'
  OBVIOUS
<1> USE DaemonAssumption
    DEF TypeOK, Places, files, clientVars, daemonVars, stopVars,
        Waiting, Alive, Starting, Binding, Listens
<1>1. ASSUME NEW c \in Clients, ClientBegin(c) PROVE Places'
  BY <1>1 DEF ClientBegin
<1>2. ASSUME NEW c \in Clients, ClientLocks(c) PROVE Places'
  BY <1>2 DEF ClientLocks
<1>3. ASSUME NEW c \in Clients, Recheck(c) PROVE Places'
  BY <1>3 DEF Recheck, ClientEnds
<1>4. ASSUME NEW c \in Clients, Spawn(c) PROVE Places'
  BY <1>4 DEF Spawn
<1>5. ASSUME NEW c \in Clients, SpawnFails(c) PROVE Places'
  BY <1>5 DEF SpawnFails, ClientEnds
<1>6. ASSUME NEW c \in Clients, SeeSocket(c) PROVE Places'
  BY <1>6 DEF SeeSocket
<1>7. ASSUME NEW c \in Clients, SeePid(c) PROVE Places'
  BY <1>7 DEF SeePid, ClientEnds
<1>8. ASSUME NEW c \in Clients, GiveUp(c) PROVE Places'
  BY <1>8 DEF GiveUp, ClientEnds
<1>9. ASSUME NEW d \in Daemons, Launch(d) PROVE Places'
  BY <1>9 DEF Launch, Goto, DaemonEnds, Release
<1>10. ASSUME NEW d \in Daemons, Recover(d) PROVE Places'
  BY <1>10 DEF Recover, Goto, DaemonEnds, Release
<1>11. ASSUME NEW d \in Daemons, DaemonLocks(d) PROVE Places'
  BY <1>11 DEF DaemonLocks, Goto, DaemonEnds, Release
<1>12. ASSUME NEW d \in Daemons, CheckSocket(d) PROVE Places'
  BY <1>12 DEF CheckSocket, Goto, DaemonEnds, Release
<1>13. ASSUME NEW d \in Daemons, RemoveStaleSocket(d) PROVE Places'
  BY <1>13 DEF RemoveStaleSocket, Goto, DaemonEnds, Release
<1>14. ASSUME NEW d \in Daemons, Bind(d) PROVE Places'
  BY <1>14 DEF Bind, Goto, DaemonEnds, Release
<1>15. ASSUME NEW d \in Daemons, TruncatePid(d) PROVE Places'
  BY <1>15 DEF TruncatePid, Goto, DaemonEnds, Release
<1>16. ASSUME NEW d \in Daemons, WritePid(d) PROVE Places'
  BY <1>16 DEF WritePid, Goto, DaemonEnds, Release
<1>17. ASSUME NEW d \in Daemons, DaemonDies(d) PROVE Places'
  BY <1>17 DEF DaemonDies, Goto, DaemonEnds, Release
<1>18. ASSUME NEW s \in Stops, StopSeesSocket(s) PROVE Places'
  BY <1>18 DEF StopSeesSocket, StopGoto, Forget
<1>19. ASSUME NEW s \in Stops, StopSeesPid(s) PROVE Places'
  BY <1>19 DEF StopSeesPid, StopGoto, Forget
<1>20. ASSUME NEW s \in Stops, StopAwaits(s) PROVE Places'
  BY <1>20 DEF StopAwaits, StopGoto, Forget
<1>21. ASSUME NEW s \in Stops, StopRemovesPid(s) PROVE Places'
  BY <1>21 DEF StopRemovesPid, StopGoto, Forget
<1>22. ASSUME NEW s \in Stops, StopRemovesSocket(s) PROVE Places'
  BY <1>22 DEF StopRemovesSocket, StopGoto, Forget
<1>23. ASSUME UNCHANGED vars PROVE Places'
  BY <1>23 DEF vars
<1> QED  BY <1>1, <1>2, <1>3, <1>4, <1>5, <1>6, <1>7, <1>8, <1>9, <1>10, <1>11, <1>12, <1>13, <1>14, <1>15, <1>16, <1>17, <1>18, <1>19, <1>20, <1>21, <1>22, <1>23
        DEF Next, ClientStep, DaemonStep, StopStep

LEMMA SeparateStep ==
    ASSUME StopsApart, TypeOK, Separate, [Next]_vars
    PROVE  Separate'
<1> USE DaemonAssumption
    DEF TypeOK, Separate, StopInProgress, StartInProgress, files, clientVars, daemonVars, stopVars,
        Waiting, Alive, Starting, Binding, Listens
<1>1. ASSUME NEW c \in Clients, ClientBegin(c) PROVE Separate'
  BY <1>1 DEF ClientBegin
<1>2. ASSUME NEW c \in Clients, ClientLocks(c) PROVE Separate'
  BY <1>2 DEF ClientLocks
<1>3. ASSUME NEW c \in Clients, Recheck(c) PROVE Separate'
  BY <1>3 DEF Recheck, ClientEnds
<1>4. ASSUME NEW c \in Clients, Spawn(c) PROVE Separate'
  BY <1>4 DEF Spawn
<1>5. ASSUME NEW c \in Clients, SpawnFails(c) PROVE Separate'
  BY <1>5 DEF SpawnFails, ClientEnds
<1>6. ASSUME NEW c \in Clients, SeeSocket(c) PROVE Separate'
  BY <1>6 DEF SeeSocket
<1>7. ASSUME NEW c \in Clients, SeePid(c) PROVE Separate'
  BY <1>7 DEF SeePid, ClientEnds
<1>8. ASSUME NEW c \in Clients, GiveUp(c) PROVE Separate'
  BY <1>8 DEF GiveUp, ClientEnds
<1>9. ASSUME NEW d \in Daemons, Launch(d) PROVE Separate'
  BY <1>9 DEF Launch, Goto, DaemonEnds, Release
<1>10. ASSUME NEW d \in Daemons, Recover(d) PROVE Separate'
  BY <1>10 DEF Recover, Goto, DaemonEnds, Release
<1>11. ASSUME NEW d \in Daemons, DaemonLocks(d) PROVE Separate'
  BY <1>11 DEF DaemonLocks, Goto, DaemonEnds, Release
<1>12. ASSUME NEW d \in Daemons, CheckSocket(d) PROVE Separate'
  BY <1>12 DEF CheckSocket, Goto, DaemonEnds, Release
<1>13. ASSUME NEW d \in Daemons, RemoveStaleSocket(d) PROVE Separate'
  BY <1>13 DEF RemoveStaleSocket, Goto, DaemonEnds, Release
<1>14. ASSUME NEW d \in Daemons, Bind(d) PROVE Separate'
  BY <1>14 DEF Bind, Goto, DaemonEnds, Release
<1>15. ASSUME NEW d \in Daemons, TruncatePid(d) PROVE Separate'
  BY <1>15 DEF TruncatePid, Goto, DaemonEnds, Release
<1>16. ASSUME NEW d \in Daemons, WritePid(d) PROVE Separate'
  BY <1>16 DEF WritePid, Goto, DaemonEnds, Release
<1>17. ASSUME NEW d \in Daemons, DaemonDies(d) PROVE Separate'
  BY <1>17 DEF DaemonDies, Goto, DaemonEnds, Release
<1>18. ASSUME NEW s \in Stops, StopSeesSocket(s) PROVE Separate'
  BY <1>18 DEF StopSeesSocket, StopGoto, Forget
<1>19. ASSUME NEW s \in Stops, StopSeesPid(s) PROVE Separate'
  BY <1>19 DEF StopSeesPid, StopGoto, Forget
<1>20. ASSUME NEW s \in Stops, StopAwaits(s) PROVE Separate'
  BY <1>20 DEF StopAwaits, StopGoto, Forget
<1>21. ASSUME NEW s \in Stops, StopRemovesPid(s) PROVE Separate'
  BY <1>21 DEF StopRemovesPid, StopGoto, Forget
<1>22. ASSUME NEW s \in Stops, StopRemovesSocket(s) PROVE Separate'
  BY <1>22 DEF StopRemovesSocket, StopGoto, Forget
<1>23. ASSUME UNCHANGED vars PROVE Separate'
  BY <1>23 DEF vars
<1> QED  BY <1>1, <1>2, <1>3, <1>4, <1>5, <1>6, <1>7, <1>8, <1>9, <1>10, <1>11, <1>12, <1>13, <1>14, <1>15, <1>16, <1>17, <1>18, <1>19, <1>20, <1>21, <1>22, <1>23
        DEF Next, ClientStep, DaemonStep, StopStep

-----------------------------------------------------------------------------
\* The daemon that binds is one: the lock has one owner.
LEMMA OneBinds ==
    ASSUME TypeOK, Places, Kept, NEW d \in Daemons, NEW e \in Daemons,
           daemon[d] \in Binding, daemon[e] \in Binding
    PROVE  d = e
BY DaemonAssumption DEF TypeOK, Places, Kept, Starting

LEMMA KeptStep ==
    ASSUME TypeOK, Places, Serial, orphans' = {}, [Next]_vars
    PROVE  Kept'
<1> USE DaemonAssumption
    DEF TypeOK, Places, Serial, Kept, files, clientVars, daemonVars, stopVars,
        Waiting, Alive, Starting, Binding, Listens
<1>1. ASSUME NEW c \in Clients, ClientBegin(c) PROVE Kept'
  BY <1>1 DEF ClientBegin
<1>2. ASSUME NEW c \in Clients, ClientLocks(c) PROVE Kept'
  BY <1>2 DEF ClientLocks
<1>3. ASSUME NEW c \in Clients, Recheck(c) PROVE Kept'
  BY <1>3 DEF Recheck, ClientEnds
<1>4. ASSUME NEW c \in Clients, Spawn(c) PROVE Kept'
  BY <1>4 DEF Spawn
<1>5. ASSUME NEW c \in Clients, SpawnFails(c) PROVE Kept'
  BY <1>5 DEF SpawnFails, ClientEnds
<1>6. ASSUME NEW c \in Clients, SeeSocket(c) PROVE Kept'
  BY <1>6 DEF SeeSocket
<1>7. ASSUME NEW c \in Clients, SeePid(c) PROVE Kept'
  BY <1>7 DEF SeePid, ClientEnds, Running, DaemonState, PidState, Vacant, NoneServes
<1>8. ASSUME NEW c \in Clients, GiveUp(c) PROVE Kept'
  BY <1>8 DEF GiveUp, ClientEnds
<1>9. ASSUME NEW d \in Daemons, Launch(d) PROVE Kept'
  BY <1>9 DEF Launch, Goto, DaemonEnds, Release
<1>10. ASSUME NEW d \in Daemons, Recover(d) PROVE Kept'
  BY <1>10 DEF Recover, Goto, DaemonEnds, Release
<1>11. ASSUME NEW d \in Daemons, DaemonLocks(d) PROVE Kept'
  BY <1>11 DEF DaemonLocks, Goto, DaemonEnds, Release
<1>12. ASSUME NEW d \in Daemons, CheckSocket(d) PROVE Kept'
  BY <1>12 DEF CheckSocket, Goto, DaemonEnds, Release
<1>13. ASSUME NEW d \in Daemons, RemoveStaleSocket(d) PROVE Kept'
  BY <1>13 DEF RemoveStaleSocket, Goto, DaemonEnds, Release
<1>14. ASSUME NEW d \in Daemons, Bind(d) PROVE Kept'
  BY <1>14 DEF Bind, Goto, DaemonEnds, Release
<1>15. ASSUME NEW d \in Daemons, TruncatePid(d) PROVE Kept'
  BY <1>15 DEF TruncatePid, Goto, DaemonEnds, Release
<1>16. ASSUME NEW d \in Daemons, WritePid(d) PROVE Kept'
  BY <1>16 DEF WritePid, Goto, DaemonEnds, Release
<1>17. ASSUME NEW d \in Daemons, DaemonDies(d) PROVE Kept'
  BY <1>17 DEF DaemonDies, Goto, DaemonEnds, Release
<1>18. ASSUME NEW s \in Stops, StopSeesSocket(s) PROVE Kept'
  BY <1>18 DEF StopSeesSocket, StopGoto, Forget
<1>19. ASSUME NEW s \in Stops, StopSeesPid(s) PROVE Kept'
  BY <1>19 DEF StopSeesPid, StopGoto, Forget
<1>20. ASSUME NEW s \in Stops, StopAwaits(s) PROVE Kept'
  BY <1>20 DEF StopAwaits, StopGoto, Forget
<1>21. ASSUME NEW s \in Stops, StopRemovesPid(s) PROVE Kept'
  BY <1>21 DEF StopRemovesPid, StopGoto, Forget
<1>22. ASSUME NEW s \in Stops, StopRemovesSocket(s) PROVE Kept'
  BY <1>22 DEF StopRemovesSocket, StopGoto, Forget
<1>23. ASSUME UNCHANGED vars PROVE Kept'
  BY <1>23 DEF vars
<1> QED  BY <1>1, <1>2, <1>3, <1>4, <1>5, <1>6, <1>7, <1>8, <1>9, <1>10, <1>11, <1>12, <1>13, <1>14, <1>15, <1>16, <1>17, <1>18, <1>19, <1>20, <1>21, <1>22, <1>23
        DEF Next, ClientStep, DaemonStep, StopStep

LEMMA VacantStep ==
    ASSUME TypeOK, Places, Serial, orphans' = {}, [Next]_vars
    PROVE  Vacant'
<1> USE DaemonAssumption
    DEF TypeOK, Places, Serial, Vacant, NoneServes, files, clientVars, daemonVars, stopVars,
        Waiting, Alive, Starting, Binding, Listens
<1>1. ASSUME NEW c \in Clients, ClientBegin(c) PROVE Vacant'
  BY <1>1 DEF ClientBegin
<1>2. ASSUME NEW c \in Clients, ClientLocks(c) PROVE Vacant'
  BY <1>2 DEF ClientLocks
<1>3. ASSUME NEW c \in Clients, Recheck(c) PROVE Vacant'
  BY <1>3 DEF Recheck, ClientEnds, Ready, Found
<1>4. ASSUME NEW c \in Clients, Spawn(c) PROVE Vacant'
  BY <1>4 DEF Spawn
<1>5. ASSUME NEW c \in Clients, SpawnFails(c) PROVE Vacant'
  BY <1>5 DEF SpawnFails, ClientEnds
<1>6. ASSUME NEW c \in Clients, SeeSocket(c) PROVE Vacant'
  BY <1>6 DEF SeeSocket
<1>7. ASSUME NEW c \in Clients, SeePid(c) PROVE Vacant'
  BY <1>7 DEF SeePid, ClientEnds
<1>8. ASSUME NEW c \in Clients, GiveUp(c) PROVE Vacant'
  BY <1>8 DEF GiveUp, ClientEnds
<1>9. ASSUME NEW d \in Daemons, Launch(d) PROVE Vacant'
  BY <1>9 DEF Launch, Goto, DaemonEnds, Release
<1>10. ASSUME NEW d \in Daemons, Recover(d) PROVE Vacant'
  BY <1>10 DEF Recover, Goto, DaemonEnds, Release
<1>11. ASSUME NEW d \in Daemons, DaemonLocks(d) PROVE Vacant'
  BY <1>11 DEF DaemonLocks, Goto, DaemonEnds, Release
<1>12. ASSUME NEW d \in Daemons, CheckSocket(d) PROVE Vacant'
  BY <1>12 DEF CheckSocket, Goto, DaemonEnds, Release, Ready, Found
<1>13. ASSUME NEW d \in Daemons, RemoveStaleSocket(d) PROVE Vacant'
  BY <1>13 DEF RemoveStaleSocket, Goto, DaemonEnds, Release
<1>14. ASSUME NEW d \in Daemons, Bind(d) PROVE Vacant'
  BY <1>14 DEF Bind, Goto, DaemonEnds, Release
<1>15. ASSUME NEW d \in Daemons, TruncatePid(d) PROVE Vacant'
  BY <1>15 DEF TruncatePid, Goto, DaemonEnds, Release
<1>16. ASSUME NEW d \in Daemons, WritePid(d) PROVE Vacant'
  BY <1>16 DEF WritePid, Goto, DaemonEnds, Release, Kept
<1>17. ASSUME NEW d \in Daemons, DaemonDies(d) PROVE Vacant'
  BY <1>17 DEF DaemonDies, Goto, DaemonEnds, Release
<1>18. ASSUME NEW s \in Stops, StopSeesSocket(s) PROVE Vacant'
  BY <1>18 DEF StopSeesSocket, StopGoto, Forget
<1>19. ASSUME NEW s \in Stops, StopSeesPid(s) PROVE Vacant'
  BY <1>19 DEF StopSeesPid, StopGoto, Forget
<1>20. ASSUME NEW s \in Stops, StopAwaits(s) PROVE Vacant'
  BY <1>20 DEF StopAwaits, StopGoto, Forget
<1>21. ASSUME NEW s \in Stops, StopRemovesPid(s) PROVE Vacant'
  BY <1>21 DEF StopRemovesPid, StopGoto, Forget
<1>22. ASSUME NEW s \in Stops, StopRemovesSocket(s) PROVE Vacant'
  BY <1>22 DEF StopRemovesSocket, StopGoto, Forget
<1>23. ASSUME UNCHANGED vars PROVE Vacant'
  BY <1>23 DEF vars
<1> QED  BY <1>1, <1>2, <1>3, <1>4, <1>5, <1>6, <1>7, <1>8, <1>9, <1>10, <1>11, <1>12, <1>13, <1>14, <1>15, <1>16, <1>17, <1>18, <1>19, <1>20, <1>21, <1>22, <1>23
        DEF Next, ClientStep, DaemonStep, StopStep

LEMMA FoundStep ==
    ASSUME StopsApart, TypeOK, Places, Separate, Serial, orphans' = {}, [Next]_vars
    PROVE  Found'
<1> USE DaemonAssumption
    DEF TypeOK, Places, Serial, Vacant, NoneServes, Found, Kept, files, clientVars, daemonVars, stopVars,
        Waiting, Alive, Starting, Binding, Listens
<1>1. ASSUME NEW c \in Clients, ClientBegin(c) PROVE Found'
  BY <1>1 DEF ClientBegin
<1>2. ASSUME NEW c \in Clients, ClientLocks(c) PROVE Found'
  BY <1>2 DEF ClientLocks
<1>3. ASSUME NEW c \in Clients, Recheck(c) PROVE Found'
  BY <1>3 DEF Recheck, ClientEnds
<1>4. ASSUME NEW c \in Clients, Spawn(c) PROVE Found'
  BY <1>4 DEF Spawn
<1>5. ASSUME NEW c \in Clients, SpawnFails(c) PROVE Found'
  BY <1>5 DEF SpawnFails, ClientEnds
<1>6. ASSUME NEW c \in Clients, SeeSocket(c) PROVE Found'
  BY <1>6 DEF SeeSocket
<1>7. ASSUME NEW c \in Clients, SeePid(c) PROVE Found'
  BY <1>7 DEF SeePid, ClientEnds
<1>8. ASSUME NEW c \in Clients, GiveUp(c) PROVE Found'
  BY <1>8 DEF GiveUp, ClientEnds
<1>9. ASSUME NEW d \in Daemons, Launch(d) PROVE Found'
  BY <1>9 DEF Launch, Goto, DaemonEnds, Release
<1>10. ASSUME NEW d \in Daemons, Recover(d) PROVE Found'
  BY <1>10 DEF Recover, Goto, DaemonEnds, Release
<1>11. ASSUME NEW d \in Daemons, DaemonLocks(d) PROVE Found'
  BY <1>11 DEF DaemonLocks, Goto, DaemonEnds, Release
<1>12. ASSUME NEW d \in Daemons, CheckSocket(d) PROVE Found'
  BY <1>12 DEF CheckSocket, Goto, DaemonEnds, Release
<1>13. ASSUME NEW d \in Daemons, RemoveStaleSocket(d) PROVE Found'
  BY <1>13 DEF RemoveStaleSocket, Goto, DaemonEnds, Release
<1>14. ASSUME NEW d \in Daemons, Bind(d) PROVE Found'
  BY <1>14 DEF Bind, Goto, DaemonEnds, Release
<1>15. ASSUME NEW d \in Daemons, TruncatePid(d) PROVE Found'
  BY <1>15 DEF TruncatePid, Goto, DaemonEnds, Release
<1>16. ASSUME NEW d \in Daemons, WritePid(d) PROVE Found'
  BY <1>16 DEF WritePid, Goto, DaemonEnds, Release
<1>17. ASSUME NEW d \in Daemons, DaemonDies(d) PROVE Found'
  BY <1>17 DEF DaemonDies, Goto, DaemonEnds, Release
<1>18. ASSUME NEW s \in Stops, StopSeesSocket(s) PROVE Found'
  BY <1>18 DEF StopSeesSocket, StopGoto, Forget
<1>19. ASSUME NEW s \in Stops, StopSeesPid(s) PROVE Found'
  BY <1>19 DEF StopSeesPid, StopGoto, Forget
<1>20. ASSUME NEW s \in Stops, StopAwaits(s) PROVE Found'
  BY <1>20 DEF StopAwaits, StopGoto, Forget
<1>21. ASSUME NEW s \in Stops, StopRemovesPid(s) PROVE Found'
  BY <1>21 DEF StopRemovesPid, StopGoto, Forget, Stopping, Separate, StartInProgress, StopInProgress
<1>22. ASSUME NEW s \in Stops, StopRemovesSocket(s) PROVE Found'
  BY <1>22 DEF StopRemovesSocket, StopGoto, Forget, Stopping, Separate, StartInProgress, StopInProgress
<1>23. ASSUME UNCHANGED vars PROVE Found'
  BY <1>23 DEF vars
<1> QED  BY <1>1, <1>2, <1>3, <1>4, <1>5, <1>6, <1>7, <1>8, <1>9, <1>10, <1>11, <1>12, <1>13, <1>14, <1>15, <1>16, <1>17, <1>18, <1>19, <1>20, <1>21, <1>22, <1>23
        DEF Next, ClientStep, DaemonStep, StopStep

LEMMA StoppingStep ==
    ASSUME StopsApart, TypeOK, Places, Separate, Serial, orphans' = {}, [Next]_vars
    PROVE  Stopping'
<1> USE DaemonAssumption
    DEF TypeOK, Serial, Stopping, NoneServes, Separate, StartInProgress, StopInProgress, files, clientVars, daemonVars, stopVars,
        Waiting, Alive, Starting, Binding, Listens
<1>1. ASSUME NEW c \in Clients, ClientBegin(c) PROVE Stopping'
  BY <1>1 DEF ClientBegin
<1>2. ASSUME NEW c \in Clients, ClientLocks(c) PROVE Stopping'
  BY <1>2 DEF ClientLocks
<1>3. ASSUME NEW c \in Clients, Recheck(c) PROVE Stopping'
  BY <1>3 DEF Recheck, ClientEnds
<1>4. ASSUME NEW c \in Clients, Spawn(c) PROVE Stopping'
  BY <1>4 DEF Spawn
<1>5. ASSUME NEW c \in Clients, SpawnFails(c) PROVE Stopping'
  BY <1>5 DEF SpawnFails, ClientEnds
<1>6. ASSUME NEW c \in Clients, SeeSocket(c) PROVE Stopping'
  BY <1>6 DEF SeeSocket
<1>7. ASSUME NEW c \in Clients, SeePid(c) PROVE Stopping'
  BY <1>7 DEF SeePid, ClientEnds
<1>8. ASSUME NEW c \in Clients, GiveUp(c) PROVE Stopping'
  BY <1>8 DEF GiveUp, ClientEnds
<1>9. ASSUME NEW d \in Daemons, Launch(d) PROVE Stopping'
  BY <1>9 DEF Launch, Goto, DaemonEnds, Release
<1>10. ASSUME NEW d \in Daemons, Recover(d) PROVE Stopping'
  BY <1>10 DEF Recover, Goto, DaemonEnds, Release
<1>11. ASSUME NEW d \in Daemons, DaemonLocks(d) PROVE Stopping'
  BY <1>11 DEF DaemonLocks, Goto, DaemonEnds, Release
<1>12. ASSUME NEW d \in Daemons, CheckSocket(d) PROVE Stopping'
  BY <1>12 DEF CheckSocket, Goto, DaemonEnds, Release
<1>13. ASSUME NEW d \in Daemons, RemoveStaleSocket(d) PROVE Stopping'
  BY <1>13 DEF RemoveStaleSocket, Goto, DaemonEnds, Release
<1>14. ASSUME NEW d \in Daemons, Bind(d) PROVE Stopping'
  BY <1>14 DEF Bind, Goto, DaemonEnds, Release
<1>15. ASSUME NEW d \in Daemons, TruncatePid(d) PROVE Stopping'
  BY <1>15 DEF TruncatePid, Goto, DaemonEnds, Release
<1>16. ASSUME NEW d \in Daemons, WritePid(d) PROVE Stopping'
  BY <1>16 DEF WritePid, Goto, DaemonEnds, Release
<1>17. ASSUME NEW d \in Daemons, DaemonDies(d) PROVE Stopping'
  BY <1>17 DEF DaemonDies, Goto, DaemonEnds, Release
<1>18. ASSUME NEW s \in Stops, StopSeesSocket(s) PROVE Stopping'
  BY <1>18 DEF StopSeesSocket, StopGoto, Forget
<1>19. ASSUME NEW s \in Stops, StopSeesPid(s) PROVE Stopping'
  BY <1>19 DEF StopSeesPid, StopGoto, Forget, PidState, Found
<1>20. ASSUME NEW s \in Stops, StopAwaits(s) PROVE Stopping'
  BY <1>20 DEF StopAwaits, StopGoto, Forget, Found
<1>21. ASSUME NEW s \in Stops, StopRemovesPid(s) PROVE Stopping'
  BY <1>21 DEF StopRemovesPid, StopGoto, Forget
<1>22. ASSUME NEW s \in Stops, StopRemovesSocket(s) PROVE Stopping'
  BY <1>22 DEF StopRemovesSocket, StopGoto, Forget
<1>23. ASSUME UNCHANGED vars PROVE Stopping'
  BY <1>23 DEF vars
<1> QED  BY <1>1, <1>2, <1>3, <1>4, <1>5, <1>6, <1>7, <1>8, <1>9, <1>10, <1>11, <1>12, <1>13, <1>14, <1>15, <1>16, <1>17, <1>18, <1>19, <1>20, <1>21, <1>22, <1>23
        DEF Next, ClientStep, DaemonStep, StopStep

LEMMA InitInv == Init => IInv
<1> SUFFICES ASSUME Init PROVE IInv
  OBVIOUS
<1> USE DaemonAssumption DEF Init
<1>1. TypeOK
  BY DEF TypeOK, Waiting, Alive, Starting, Binding
<1>2. Places /\ Separate
  BY DEF Places, Separate, Waiting, StopInProgress
<1>3. Serial
  BY DEF Serial, Kept, Vacant, Found, Stopping, NoneServes, Starting, Binding, Listens
<1> QED  BY <1>1, <1>2, <1>3 DEF IInv

\* A client that has once given up stays given up in the history.
LEMMA OrphansStay ==
    ASSUME [Next]_vars, orphans' = {}
    PROVE  orphans = {}
<1> USE DEF ClientEnds, files, clientVars, daemonVars, stopVars
<1>1. ASSUME NEW c \in Clients, ClientBegin(c) PROVE orphans = {}
  BY <1>1 DEF ClientBegin
<1>2. ASSUME NEW c \in Clients, ClientLocks(c) PROVE orphans = {}
  BY <1>2 DEF ClientLocks
<1>3. ASSUME NEW c \in Clients, Recheck(c) PROVE orphans = {}
  BY <1>3 DEF Recheck
<1>4. ASSUME NEW c \in Clients, Spawn(c) PROVE orphans = {}
  BY <1>4 DEF Spawn
<1>5. ASSUME NEW c \in Clients, SpawnFails(c) PROVE orphans = {}
  BY <1>5 DEF SpawnFails
<1>6. ASSUME NEW c \in Clients, SeeSocket(c) PROVE orphans = {}
  BY <1>6 DEF SeeSocket
<1>7. ASSUME NEW c \in Clients, SeePid(c) PROVE orphans = {}
  BY <1>7 DEF SeePid
<1>8. ASSUME NEW c \in Clients, GiveUp(c) PROVE orphans = {}
  BY <1>8 DEF GiveUp
<1>9. ASSUME NEW d \in Daemons, Launch(d) PROVE orphans = {}
  BY <1>9 DEF Launch
<1>10. ASSUME NEW d \in Daemons, Recover(d) PROVE orphans = {}
  BY <1>10 DEF Recover
<1>11. ASSUME NEW d \in Daemons, DaemonLocks(d) PROVE orphans = {}
  BY <1>11 DEF DaemonLocks
<1>12. ASSUME NEW d \in Daemons, CheckSocket(d) PROVE orphans = {}
  BY <1>12 DEF CheckSocket
<1>13. ASSUME NEW d \in Daemons, RemoveStaleSocket(d) PROVE orphans = {}
  BY <1>13 DEF RemoveStaleSocket
<1>14. ASSUME NEW d \in Daemons, Bind(d) PROVE orphans = {}
  BY <1>14 DEF Bind
<1>15. ASSUME NEW d \in Daemons, TruncatePid(d) PROVE orphans = {}
  BY <1>15 DEF TruncatePid
<1>16. ASSUME NEW d \in Daemons, WritePid(d) PROVE orphans = {}
  BY <1>16 DEF WritePid
<1>17. ASSUME NEW d \in Daemons, DaemonDies(d) PROVE orphans = {}
  BY <1>17 DEF DaemonDies
<1>18. ASSUME NEW s \in Stops, StopSeesSocket(s) PROVE orphans = {}
  BY <1>18 DEF StopSeesSocket
<1>19. ASSUME NEW s \in Stops, StopSeesPid(s) PROVE orphans = {}
  BY <1>19 DEF StopSeesPid
<1>20. ASSUME NEW s \in Stops, StopAwaits(s) PROVE orphans = {}
  BY <1>20 DEF StopAwaits
<1>21. ASSUME NEW s \in Stops, StopRemovesPid(s) PROVE orphans = {}
  BY <1>21 DEF StopRemovesPid
<1>22. ASSUME NEW s \in Stops, StopRemovesSocket(s) PROVE orphans = {}
  BY <1>22 DEF StopRemovesSocket
<1>23. ASSUME UNCHANGED vars PROVE orphans = {}
  BY <1>23 DEF vars
<1> QED  BY <1>1, <1>2, <1>3, <1>4, <1>5, <1>6, <1>7, <1>8, <1>9, <1>10, <1>11, <1>12, <1>13, <1>14, <1>15, <1>16, <1>17, <1>18, <1>19, <1>20, <1>21, <1>22, <1>23
        DEF Next, ClientStep, DaemonStep, StopStep

LEMMA Invariance == ASSUME StopsApart PROVE Spec => []IInv
<1>1. IInv /\ [Next]_vars => IInv'
  <2> SUFFICES ASSUME IInv, [Next]_vars PROVE IInv'
    OBVIOUS
  <2>1. TypeOK' /\ Places' /\ Separate'
    BY TypeStep, PlacesStep, SeparateStep DEF IInv
  <2>2. ASSUME orphans' = {} PROVE Serial'
    BY <2>2, OrphansStay, KeptStep, VacantStep, FoundStep, StoppingStep DEF IInv, Serial
  <2> QED  BY <2>1, <2>2 DEF IInv
<1> QED  BY InitInv, <1>1, PTL DEF Spec

\* The files and the processes have their types, whoever overlaps whom.
THEOREM TypeCorrect == Spec => []TypeOK
<1>1. Init => TypeOK /\ Places
  BY InitInv DEF IInv
<1>2. TypeOK /\ Places /\ [Next]_vars => (TypeOK /\ Places)'
  BY TypeStep, PlacesStep
<1> QED  BY <1>1, <1>2, PTL DEF Spec

\* Daemons bind one at a time, including a spawned one, which relies on the
\* flock of the client that waits for it.
THEOREM BindsAlone == ASSUME StopsApart PROVE Spec => []BindingIsExclusive
<1>1. IInv => BindingIsExclusive
  BY OneBinds DEF IInv, Serial, BindingIsExclusive
<1> QED  BY <1>1, Invariance, PTL

\* A daemon that serves is the one that the socket and the pid file lead to,
\* and that status reports as running.
THEOREM ServesWhereFound == ASSUME StopsApart PROVE Spec => []ServingDaemonIsReachable
<1>1. IInv => ServingDaemonIsReachable
  <2> SUFFICES ASSUME IInv, orphans = {}, NEW d \in Daemons, daemon[d] = "serve"
               PROVE  /\ socketFile = d /\ pidFile = d
                      /\ DaemonState(PidState, SocketState) = "running"
    BY DEF ServingDaemonIsReachable
  <2>1. socketFile = d /\ pidFile = d
    BY DEF IInv, Serial, Found, Listens
  <2>2. PidState = "alive" /\ SocketState = "listening"
    BY <2>1 DEF PidState, SocketState, Ready, Alive, Listens
  <2> QED  BY <2>1, <2>2 DEF DaemonState
<1> QED  BY <1>1, Invariance, PTL

\* A daemon that a client has spawned recovers the store before any daemon
\* serves it.
THEOREM RecoversAlone == ASSUME StopsApart PROVE Spec => SpawnedRecoveryIsAlone
<1> DEFINE Step ==
      \A d \in Daemons :
         orphans = {} /\ daemon[d] = "recover" /\ daemon'[d] = "check" =>
            \A e \in Daemons : daemon[e] # "serve"
<1>1. IInv /\ [Next]_vars => [Step]_vars
  <2> SUFFICES ASSUME IInv, [Next]_vars, NEW d \in Daemons,
                      orphans = {}, daemon[d] = "recover", daemon'[d] = "check"
               PROVE  NoneServes
    BY DEF NoneServes
  <2> USE DEF IInv, TypeOK
  <2>1. ASSUME NEW e \in Daemons, Recover(e) PROVE e = d /\ keeper[d] # "none"
    BY <2>1 DEF Recover, Goto
  <2>2. ASSUME NEW e \in Daemons, \/ Launch(e) \/ DaemonLocks(e) \/ CheckSocket(e)
                                  \/ RemoveStaleSocket(e) \/ Bind(e) \/ TruncatePid(e)
                                  \/ WritePid(e) \/ DaemonDies(e)
        PROVE  FALSE
    BY <2>2 DEF Launch, DaemonLocks, CheckSocket, RemoveStaleSocket, Bind, TruncatePid, WritePid,
                DaemonDies, DaemonEnds, Goto
  <2>3. ASSUME NEW c \in Clients, ClientBegin(c) \/ ClientStep(c) \/ GiveUp(c) PROVE FALSE
    BY <2>3 DEF ClientBegin, ClientStep, ClientLocks, Recheck, Spawn, SpawnFails, SeeSocket, SeePid,
                GiveUp, ClientEnds, daemonVars
  <2>4. ASSUME NEW s \in Stops, StopStep(s) PROVE FALSE
    BY <2>4 DEF StopStep, StopSeesSocket, StopSeesPid, StopAwaits, StopRemovesPid,
                StopRemovesSocket, daemonVars
  <2>5. keeper[d] # "none"
    BY <2>1, <2>2, <2>3, <2>4 DEF Next, DaemonStep, vars, daemonVars
  <2> QED  BY <2>5 DEF Serial, Vacant, Starting
<1> QED  BY <1>1, Invariance, PTL DEF Spec, SpawnedRecoveryIsAlone

\* When a stop ends well, no daemon is alive and its files are gone.
THEOREM StopsForGood == ASSUME StopsApart PROVE Spec => StopLeavesNothing
<1> DEFINE Step ==
      \A s \in Stops :
         orphans = {} /\ stop[s] = "removeSocket" /\ stop'[s] = "idle" =>
            /\ socketFile' = "none" /\ pidFile' = "none"
            /\ \A d \in Daemons : daemon'[d] \notin Alive
<1>1. IInv /\ [Next]_vars => [Step]_vars
  <2> SUFFICES ASSUME IInv, [Next]_vars, NEW s \in Stops,
                      orphans = {}, stop[s] = "removeSocket", stop'[s] = "idle"
               PROVE  /\ socketFile' = "none" /\ pidFile' = "none"
                      /\ \A d \in Daemons : daemon'[d] \notin Alive
    OBVIOUS
  <2> USE DEF IInv, TypeOK
  <2>1. ASSUME NEW c \in Clients, ClientBegin(c) \/ ClientStep(c) \/ GiveUp(c) PROVE FALSE
    BY <2>1 DEF ClientBegin, ClientStep, ClientLocks, Recheck, Spawn, SpawnFails, SeeSocket, SeePid,
                GiveUp, ClientEnds, stopVars
  <2>2. ASSUME NEW d \in Daemons, Launch(d) \/ DaemonStep(d) \/ DaemonDies(d) PROVE FALSE
    BY <2>2 DEF Launch, DaemonStep, Recover, DaemonLocks, CheckSocket, RemoveStaleSocket, Bind,
                TruncatePid, WritePid, DaemonDies, stopVars
  <2>3. StopRemovesSocket(s)
    <3>1. ASSUME NEW r \in Stops, StopStep(r) PROVE r = s /\ StopRemovesSocket(s)
      BY <3>1 DEF StopStep, StopSeesSocket, StopSeesPid, StopAwaits, StopRemovesPid,
                  StopRemovesSocket, StopGoto
    <3> QED  BY <2>1, <2>2, <3>1 DEF Next, vars, stopVars
  <2>4. socketFile' = "none" /\ UNCHANGED <<pidFile, daemon>>
    BY <2>3 DEF StopRemovesSocket, daemonVars
  <2>5. pidFile = "none" /\ NoneServes
    BY DEF Serial, Stopping
  <2>6. ~StartInProgress
    BY DEF Separate, StopInProgress
  <2> QED  BY <2>4, <2>5, <2>6 DEF StartInProgress, NoneServes, Alive
<1> QED  BY <1>1, Invariance, PTL DEF Spec, StopLeavesNothing
=============================================================================
