------------------------------ MODULE Commands ------------------------------
(***************************************************************************)
(* The command path of an account (internal/protocol/tesla/command/v1):     *)
(* signed commands of several clients, serialized per vehicle, with the     *)
(* access token the account's TokenManager holds (module Tokens; here only  *)
(* whether the API accepts it).                                             *)
(*                                                                          *)
(* Each command of Cmds is sent at most once.  The calls of the             *)
(* vehicle-command SDK are external: one that needs the network fails once  *)
(* the command's context has expired.                                       *)
(***************************************************************************)
EXTENDS Integers, FiniteSets

CONSTANTS
    Cmds,        \* the commands clients send
    VinOf,       \* the vehicle each is for
    Timeout,     \* Settings.Timeout, in ticks
    MaxAge,      \* bound of the model: the ticks a command is followed
    MaxCrashes   \* bound of the model: restarts of the process

ASSUME CommandsAssumption ==
    /\ IsFiniteSet(Cmds) /\ Timeout \in Nat /\ MaxAge \in Nat /\ Timeout < MaxAge
    /\ Cmds = DOMAIN VinOf /\ MaxCrashes \in Nat

VARIABLES
    cmd,        \* the commands: pc, age since the request, time left of the context, token
    stats,      \* metrics.CommandStats: the open count and the outcomes
    sessions,   \* the vehicles with a session in the session cache
    cacheFile,  \*   and in its file
    accepted,   \* the API accepts the token TokenManager.Token returns
    crashes

caches == <<sessions, cacheFile>>
commandVars == <<cmd, stats, caches, accepted, crashes>>

Vins == {VinOf[k] : k \in Cmds}
Outcomes == {"infra", "nominal", "success"}

\* Faulty variant: the early return of a nominal failure keeps the mutex.
HeldOnReturn == {"session", "acting", "nominal"}

\* Where a command holds its vehicle's mutex.
Held == {"session", "acting"}

Open == Held \union {"waiting"}

CommandsTypeOK ==
    /\ cmd \in [Cmds -> [pc: Open \union Outcomes \union {"none", "refused", "lost"},
                         age: 0..MaxAge, left: 0..Timeout, tok: BOOLEAN]]
    /\ stats \in [Outcomes \union {"sent"} -> 0..Cardinality(Cmds)]
    /\ sessions \subseteq Vins /\ cacheFile \subseteq Vins
    /\ accepted \in BOOLEAN /\ crashes \in 0..MaxCrashes

-----------------------------------------------------------------------------

\* SendCommand counts the outcome once dispatch has returned.
Answer(k, outcome) ==
    /\ cmd' = [cmd EXCEPT ![k].pc = outcome]
    /\ stats' = [stats EXCEPT ![outcome] = @ + 1]

\* handleCommand: a body that does not parse is refused; otherwise SendCommand starts the
\* context, counts the command, and dispatch answers a blank one at once.
HandleCommand(k) ==
    /\ cmd[k].pc = "none"
    /\ \/ cmd' = [cmd EXCEPT ![k].pc = "refused"] /\ UNCHANGED stats
       \/ /\ cmd' = [cmd EXCEPT ![k] = [@ EXCEPT !.pc = "waiting", !.left = Timeout]]
          /\ stats' = [stats EXCEPT !.sent = @ + 1]
       \/ /\ cmd' = [cmd EXCEPT ![k].pc = "nominal"]
          /\ stats' = [stats EXCEPT !.sent = @ + 1, !.nominal = @ + 1]
    /\ UNCHANGED <<caches, accepted, crashes>>

\* Faulty variant: no lock.
LockVINMissing(k) ==
    /\ cmd[k].pc = "waiting"
    /\ cmd' = [cmd EXCEPT ![k] = [@ EXCEPT !.pc = "session", !.tok = accepted]]
    /\ UNCHANGED <<stats, caches, accepted, crashes>>

\* Faulty variant: the context is made with the lock held.
LockVINThenContext(k) ==
    /\ cmd[k].pc = "waiting"
    /\ \A j \in Cmds : VinOf[j] = VinOf[k] => cmd[j].pc \notin Held
    /\ cmd' = [cmd EXCEPT ![k] = [@ EXCEPT !.pc = "session", !.tok = accepted, !.left = Timeout]]
    /\ UNCHANGED <<stats, caches, accepted, crashes>>

\* lockVIN, then the current token is bound.  The wait does not end with the context.
LockVIN(k) ==
    /\ cmd[k].pc = "waiting"
    /\ \A j \in Cmds : VinOf[j] = VinOf[k] => cmd[j].pc \notin Held
    /\ cmd' = [cmd EXCEPT ![k] = [@ EXCEPT !.pc = "session", !.tok = accepted]]
    /\ UNCHANGED <<stats, caches, accepted, crashes>>

\* account.New, GetVehicle, Connect and StartSession fail, or the vehicle does not speak
\* the protocol.
NoSession(k) ==
    /\ cmd[k].pc = "session"
    /\ \/ Answer(k, "infra")
       \/ cmd[k].left > 0 /\ cmd[k].tok /\ Answer(k, "nominal")
    /\ UNCHANGED <<caches, accepted, crashes>>

\* StartSession succeeds.  ExtractCommandAction rejects the command, or the action is sent;
\* a session that was started is put into the cache when dispatch returns.
Session(k) ==
    /\ cmd[k].pc = "session" /\ cmd[k].left > 0 /\ cmd[k].tok
    /\ \/ /\ Answer(k, "nominal") /\ sessions' = sessions \union {VinOf[k]}
       \/ cmd' = [cmd EXCEPT ![k].pc = "acting"] /\ UNCHANGED <<stats, sessions>>
    /\ UNCHANGED <<cacheFile, accepted, crashes>>

\* The vehicle's answer.  After a success the cache is exported, if
\* the file can be written; the deferred
\* UpdateCachedSessions runs after that.
Act(k) ==
    /\ cmd[k].pc = "acting"
    /\ \/ Answer(k, "infra") /\ UNCHANGED cacheFile
       \/ cmd[k].left > 0 /\ Answer(k, "nominal") /\ UNCHANGED cacheFile
       \/ /\ cmd[k].left > 0 /\ Answer(k, "success")
          /\ cacheFile' \in {sessions, cacheFile}
    /\ sessions' = sessions \union {VinOf[k]}
    /\ UNCHANGED <<accepted, crashes>>

\* Time passes for the commands that are open.
Tick ==
    /\ \E k \in Cmds : cmd[k].pc \in Open
    /\ \A k \in Cmds : cmd[k].pc \in Open => cmd[k].age < MaxAge
    /\ cmd' = [k \in Cmds |->
                 IF cmd[k].pc \in Open
                 THEN [cmd[k] EXCEPT !.age = @ + 1, !.left = IF @ = 0 THEN 0 ELSE @ - 1]
                 ELSE cmd[k]]
    /\ UNCHANGED <<stats, caches, accepted, crashes>>

\* The token expires, or is refreshed.
TokenChanges ==
    /\ accepted' = ~accepted
    /\ UNCHANGED <<cmd, stats, caches, crashes>>

\* The process is restarted: the counters and the cache are in memory, ImportFromFile.
Crash ==
    /\ crashes < MaxCrashes /\ crashes' = crashes + 1
    /\ cmd' = [k \in Cmds |->
                 IF cmd[k].pc \in Open THEN [cmd[k] EXCEPT !.pc = "lost"] ELSE cmd[k]]
    /\ stats' = [o \in Outcomes \union {"sent"} |-> 0]
    /\ sessions' = cacheFile
    /\ UNCHANGED <<cacheFile, accepted>>

CommandsInit ==
    /\ cmd = [k \in Cmds |-> [pc |-> "none", age |-> 0, left |-> 0, tok |-> FALSE]]
    /\ stats = [o \in Outcomes \union {"sent"} |-> 0]
    /\ sessions = {} /\ cacheFile = {}
    /\ accepted \in BOOLEAN /\ crashes = 0

Command(k) == HandleCommand(k) \/ LockVIN(k) \/ NoSession(k) \/ Session(k) \/ Act(k)

CommandsNext ==
    \/ \E k \in Cmds : Command(k)
    \/ Tick \/ TokenChanges \/ Crash

\* A context expires, so a call of the SDK returns; a mutex is acquired in the end.
CommandsFairness ==
    \A k \in Cmds :
        /\ SF_commandVars(LockVIN(k))
        /\ WF_commandVars(NoSession(k)) /\ WF_commandVars(Act(k))

CommandsSpec == CommandsInit /\ [][CommandsNext]_commandVars /\ CommandsFairness

-----------------------------------------------------------------------------
(* Properties.                                                              *)

\* VCSEC commands fail out of order: however many clients command one car, at most one
\* of them is between its session and its answer.
CommandsSerialized ==
    \A j, k \in Cmds :
        j # k /\ VinOf[j] = VinOf[k] => ~(cmd[j].pc \in Held /\ cmd[k].pc \in Held)

\* A command that queued for its car longer than its timeout is not executed after all:
\* nobody waits for the answer any more.
LateNeverActs ==
    [][\A k \in Cmds :
          cmd[k].pc # "acting" /\ cmd'[k].pc = "acting" => cmd[k].age < Timeout]_commandVars

\* Every command that queues is answered, whatever the ones before it meet.
EveryCommandAnswered ==
    \A k \in Cmds : cmd[k].pc = "waiting" ~> cmd[k].pc \in Outcomes \union {"lost"}
=============================================================================
