----------------------------- MODULE SocketPath -----------------------------
(***************************************************************************)
(* The life of a server's name in the file system: /dev/log of syslogd,    *)
(* /run/modprobed.socket of modprobed.  Each server process, every time it *)
(* is started, binds the path, serves, and deletes the path on its way     *)
(* out, whatever the reason it is on its way out for.                      *)
(***************************************************************************)
EXTENDS Naturals, FiniteSets

CONSTANTS
  Servers,   \* server processes somebody starts and, when they end, restarts
  MaxKills,  \* bound: server processes killed with SIGKILL
  MaxForks   \* bound: children of a server alive at once (modprobed's)

ASSUME SocketPathAssumption ==
  /\ IsFiniteSet(Servers)
  /\ MaxKills \in Nat
  /\ MaxForks \in Nat

VARIABLES
  at,       \* where each server is
  path,     \* whose socket the path names: none, or a server's last bound one
  forks,    \* modprobed's children of each server, which inherit its socket
  kills,    \* history: processes killed so far
  crowded   \* history: servers that have run next to another since they started

socketPathVars == <<at, path, forks, kills, crowded>>

NoSocket == "none"

(* "down" not running, "starting" before bind(), "init" bound and inside   *)
(* daemon_init, "serving" in the loop, "closing" past the label close_unix *)
(* before unlink().                                                        *)
Bound(s) == at[s] \in {"init", "serving"}
Up == {s \in Servers : at[s] # "down"}

SocketPathTypeOK ==
  /\ at \in [Servers -> {"down", "starting", "init", "serving", "closing"}]
  /\ path \in {NoSocket} \cup Servers
  /\ forks \in [Servers -> 0..MaxForks]
  /\ kills \in 0..MaxKills
  /\ crowded \subseteq Servers

SocketPathInit ==
  /\ at = [s \in Servers |-> "down"]
  /\ path = NoSocket
  /\ forks = [s \in Servers |-> 0]
  /\ kills = 0
  /\ crowded = {}

-----------------------------------------------------------------------------
Goes(s, next) ==
  /\ at' = [at EXCEPT ![s] = next]
  /\ crowded' = IF next = "down" THEN crowded \ {s} ELSE crowded

(* Somebody starts the server, which gets as far as bind().                *)
Start(s) ==
  /\ at[s] = "down"
  /\ at' = [at EXCEPT ![s] = "starting"]
  /\ crowded' = IF Up = {} THEN crowded ELSE crowded \cup Up \cup {s}
  /\ UNCHANGED <<path, forks, kills>>

BindOk(s) ==
  /\ at[s] = "starting" /\ path = NoSocket
  /\ path' = s
  /\ Goes(s, "init")
  /\ UNCHANGED <<forks, kills>>

(* Some definitions have a faulty twin in front of them, which nothing     *)
(* uses: a bug the properties detect when it takes the definition's place. *)
BindFailsQuietly(s) ==
  /\ at[s] = "starting" /\ path # NoSocket
  /\ Goes(s, "down")
  /\ UNCHANGED <<path, forks, kills>>

(* The path exists, whether or not anybody listens: EADDRINUSE, and the    *)
(* same way out as after a successful bind().                              *)
BindFails(s) ==
  /\ at[s] = "starting" /\ path # NoSocket
  /\ Goes(s, "closing")
  /\ UNCHANGED <<path, forks, kills>>

InitDone(s) ==
  /\ at[s] = "init"
  /\ Goes(s, "serving")
  /\ UNCHANGED <<path, forks, kills>>

(* SIGTERM, or an error in daemon_init or in the loop.                     *)
Leave(s) ==
  /\ Bound(s)
  /\ Goes(s, "closing")
  /\ UNCHANGED <<path, forks, kills>>

(* modprobed serves each request in a child.                               *)
Fork(s) ==
  /\ at[s] = "serving" /\ forks[s] < MaxForks
  /\ forks' = [forks EXCEPT ![s] = @ + 1]
  /\ UNCHANGED <<at, path, kills, crowded>>

ForkUnlinks(s) ==
  /\ forks[s] > 0
  /\ forks' = [forks EXCEPT ![s] = @ - 1]
  /\ path' = NoSocket
  /\ UNCHANGED <<at, kills, crowded>>

(* The child takes the same way out, but keeps the path (its pid is 0).    *)
ForkEnds(s) ==
  /\ forks[s] > 0
  /\ forks' = [forks EXCEPT ![s] = @ - 1]
  /\ UNCHANGED <<at, path, kills, crowded>>

CloseOnly(s) ==
  /\ at[s] = "closing"
  /\ Goes(s, "down")
  /\ UNCHANGED <<path, forks, kills>>

(* The unlink() is of the path, not of the process's own socket.           *)
Unlink(s) ==
  /\ at[s] = "closing"
  /\ path' = NoSocket
  /\ Goes(s, "down")
  /\ UNCHANGED <<forks, kills>>

(* SIGKILL, a crash: nothing cleans up.                                    *)
Kill(s) ==
  /\ at[s] # "down" /\ kills < MaxKills
  /\ kills' = kills + 1
  /\ Goes(s, "down")
  /\ UNCHANGED <<path, forks>>

Server(s) ==
  Start(s) \/ BindOk(s) \/ BindFails(s) \/ InitDone(s) \/ Unlink(s)

SocketPathNext ==
  \E s \in Servers :
    Server(s) \/ Leave(s) \/ Fork(s) \/ ForkEnds(s) \/ Kill(s)

SocketPathSafety == SocketPathInit /\ [][SocketPathNext]_socketPathVars

(* A server that runs makes progress, one that ended is started again.     *)
SocketPathSpec ==
  SocketPathSafety /\ \A s \in Servers : WF_socketPathVars(Server(s))

-----------------------------------------------------------------------------
(* The path names the socket of a server that listens, as long as no other *)
(* was started next to it: neither its children nor its own failed starts  *)
(* take it away (syslogd.c:69-137, modprobed.c:180-198).                   *)
LoneListenerHasPath == \A s \in Servers \ crowded : Bound(s) => path = s

(* The path is "the socket messages are received from" (syslogd.8:14-15):  *)
(* of any server that listens, whoever else is started.                    *)
ListenerHasPath == \A s \in Servers : Bound(s) => path = s

(* Whatever was killed when, and however many failed starts it takes, the  *)
(* path comes to name a listening server again, for good or until it       *)
(* leaves: a failed start removes the stale path (syslogd.c:75, 137).      *)
PathHeals == []<>(\E s \in Servers : path = s /\ Bound(s))
=============================================================================
