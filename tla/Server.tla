------------------------------- MODULE Server -------------------------------
(***************************************************************************)
(* The process of the daemon (cmd/cni-daemon, pkg/daemon/server.go): its   *)
(* start, its unix socket and its end.                                     *)
(*                                                                         *)
(* Run listens before newDaemonServer has done its work, so that a client  *)
(* may connect to a daemon that does not answer yet.  On every way out but *)
(* GracefulStop the socket file stays behind, with nobody listening.       *)
(*                                                                         *)
(* A handler goes on when its plugin has given up, and GracefulStop waits  *)
(* for it.  When the process has lost a mutex, or blocks in the send of a  *)
(* token (ObjectPool shows how), the handlers concerned never return.      *)
(***************************************************************************)
VARIABLES srv,    \* "off", "starting", "serving" or "stopping"
          sock,   \* the socket file: "none", "dead" or "live"
          locks,  \* the mutexes of the pool and the factory: "sound" or "lost"
          late    \* the pods with a handler that no plugin waits for

serverVars == <<srv, sock, locks, late>>

ServerTypeOK ==
  /\ srv \in {"off", "starting", "serving", "stopping"}
  /\ sock \in {"none", "dead", "live"}
  /\ locks \in {"sound", "lost"}

ServerInit ==
  /\ srv = "off" /\ sock \in {"none", "dead"}
  /\ locks = "sound" /\ late = {}

\* MkdirAll, Unlink of what an earlier process left, and Listen.
Listen ==
  /\ srv = "off"
  /\ srv' = "starting"
  /\ sock' = "live"
  /\ UNCHANGED <<locks, late>>

\* newDaemonServer returned: register the service, start the goroutines.
StartDone ==
  /\ srv = "starting"
  /\ srv' = "serving"
  /\ UNCHANGED <<sock, locks, late>>

\* The process ends, with its handlers, without closing its listener.
Dies ==
  /\ srv' = "off"
  /\ locks' = "sound" /\ late' = {}
  /\ sock' = IF sock = "live" THEN "dead" ELSE sock

\* newDaemonServer returned an error, which main logs and exits with; a signal
\* has the same effect as long as nobody asked to be notified.
StartFails == srv = "starting" /\ Dies

\* Serve returned an error (Fatalf), or the process was killed.
ServeFails == srv \in {"serving", "stopping"} /\ Dies

\* SIGINT or SIGTERM: GracefulStop begins by closing the listener, and with
\* it goes the file.
Signal ==
  /\ srv = "serving"
  /\ srv' = "stopping"
  /\ sock' = "none"
  /\ UNCHANGED <<locks, late>>

\* GracefulStop returns once no handler runs, waited for or late; Run and
\* main return.
Stopped(running) ==
  /\ srv = "stopping" /\ running \cup late = {}
  /\ srv' = "off"
  /\ locks' = "sound"
  /\ UNCHANGED <<sock, late>>

\* A mutex is lost: checkIdle breaks without p.lock.Unlock, or a Dispose that
\* fails returns without f.Unlock.  A token channel filled by a surplus port
\* has the same effect.
LosesLock ==
  /\ srv \in {"serving", "stopping"} /\ locks = "sound"
  /\ locks' = "lost"
  /\ UNCHANGED <<srv, sock, late>>
=============================================================================
