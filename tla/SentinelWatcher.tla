--------------------------- MODULE SentinelWatcher ---------------------------
(***************************************************************************)
(* The daemon follows the sentinel files in its configuration directory:   *)
(* it reads each once, begins to watch the directory, and after a change   *)
(* waits a little and reads the file again.  What it finds goes to a       *)
(* registry with one region per file, of which a snapshot is written to    *)
(* the buffer now and then.  The files are written by other modules and    *)
(* other processes, in one step each; here they simply change.             *)
(***************************************************************************)
EXTENDS Integers

CONSTANTS
  Sentinels,    \* the files; "update-available" is told apart
  Payloads,     \* what a readable file says
  MaxChanged    \* bound: changes of the files

ASSUME WatcherAssumption == MaxChanged \in Nat /\ {"absent", "broken", "unknown"} \cap Payloads = {}

VARIABLES
  file,       \* each file: "absent", "broken" or a payload
  registry,   \* each region: "absent", "unknown" (nothing known of updates) or a payload
  watching,   \* the watch: not yet begun, begun, died, stopped by the daemon's end
  toRead,     \* files to be read for the first time
  notices,    \* changes of which the watch has not been told
  pending,    \* timers
  readers,    \* how many readings of a file have found it and not yet read it
  missed,     \* files that changed after their first reading and before the watch, or
              \* after it died
  snapshot,   \* the last registry written to the buffer
  changed

watcherVars == <<file, registry, watching, toRead, notices, pending, readers, missed,
                 snapshot, changed>>
noticeVars  == <<notices, pending>>

Contents == {"absent", "broken"} \union Payloads
Regions  == {"absent", "unknown"} \union Payloads

WatcherTypeOK ==
  /\ file \in [Sentinels -> Contents] /\ registry \in [Sentinels -> Regions]
  /\ watching \in {"no", "yes", "died", "stopped"}
  /\ toRead \subseteq Sentinels /\ notices \subseteq Sentinels
  /\ pending \subseteq Sentinels /\ readers \in [Sentinels -> Nat]
  /\ missed \subseteq Sentinels
  /\ snapshot \in [Sentinels -> Regions] /\ changed \in 0 .. MaxChanged

Initially == [k \in Sentinels |-> IF k = "update-available" THEN "unknown" ELSE "absent"]

WatcherInit ==
  /\ file \in [Sentinels -> Contents \ {"broken"}]
  /\ registry = Initially /\ snapshot = Initially
  /\ watching = "no" /\ toRead = Sentinels
  /\ notices = {} /\ pending = {} /\ readers = [k \in Sentinels |-> 0]
  /\ missed = {} /\ changed = 0

Change(k) ==
  /\ changed < MaxChanged /\ changed' = changed + 1
  /\ \E c \in Contents \ {file[k]} : file' = [file EXCEPT ![k] = c]
  /\ notices' = IF watching = "yes" THEN notices \union {k} ELSE notices
  /\ missed' = IF watching = "died" \/ (watching = "no" /\ k \notin toRead)
               THEN missed \union {k} ELSE missed \ {k}
  /\ UNCHANGED <<registry, watching, toRead, pending, readers, snapshot>>

-----------------------------------------------------------------------------
(* The registry: a region that holds a payload keeps it until the file goes. *)

Takes(k, c) ==
  registry' = IF watching = "stopped" THEN registry
              ELSE IF c = "absent" THEN [registry EXCEPT ![k] = "absent"]
              ELSE IF registry[k] \in Payloads THEN registry
              ELSE [registry EXCEPT ![k] = c]

\* dispatchCurrent: a file that is not there is reported at once, ...
Look(k) ==
  IF file[k] = "absent"
  THEN Takes(k, "absent") /\ UNCHANGED readers
  ELSE readers' = [readers EXCEPT ![k] = @ + 1] /\ UNCHANGED registry

\* ... one that is there is read in a second step; what cannot be read, or has gone
\* in between, is not reported.
ReadPayload(k) ==
  /\ readers[k] > 0 /\ readers' = [readers EXCEPT ![k] = @ - 1]
  /\ IF file[k] \in Payloads THEN Takes(k, file[k]) ELSE UNCHANGED registry
  /\ UNCHANGED <<file, watching, toRead, noticeVars, missed, snapshot, changed>>

-----------------------------------------------------------------------------
(* The watcher *)

FirstLook(k) ==
  /\ k \in toRead /\ toRead' = toRead \ {k} /\ Look(k)
  /\ UNCHANGED <<file, watching, noticeVars, missed, snapshot, changed>>

BeginWatch ==
  /\ watching = "no" /\ toRead = {} /\ \A k \in Sentinels : readers[k] = 0
  /\ watching' = "yes"
  /\ UNCHANGED <<file, registry, toRead, noticeVars, readers, missed, snapshot, changed>>

\* Mutant: a change that comes while the file is being read starts no timer.
NoticeUnlessReading(k) ==
  /\ k \in notices /\ watching = "yes" /\ notices' = notices \ {k}
  /\ pending' = IF readers[k] > 0 THEN pending ELSE pending \union {k}
  /\ UNCHANGED <<file, registry, watching, toRead, readers, missed, snapshot, changed>>

\* The timer begins, or begins anew.
Notice(k) ==
  /\ k \in notices /\ watching = "yes" /\ notices' = notices \ {k}
  /\ pending' = pending \union {k}
  /\ UNCHANGED <<file, registry, watching, toRead, readers, missed, snapshot, changed>>

TimerFires(k) ==
  /\ k \in pending /\ pending' = pending \ {k} /\ Look(k)
  /\ UNCHANGED <<file, watching, toRead, notices, missed, snapshot, changed>>

\* The watch ends with an error and is not begun again: what it had not told is lost.
WatchDies ==
  /\ watching = "yes" /\ watching' = "died"
  /\ notices' = {} /\ missed' = missed \union notices
  /\ UNCHANGED <<file, registry, toRead, pending, readers, snapshot, changed>>

-----------------------------------------------------------------------------
(* Snapshots *)

\* Every interval; a write that fails is only logged.
FlushSnapshots ==
  /\ watching # "stopped" /\ watching # "no" /\ snapshot # registry
  /\ snapshot' = registry
  /\ UNCHANGED <<file, registry, watching, toRead, noticeVars, readers, missed, changed>>

\* stop: a last snapshot, then the watch is aborted and the timers are cleared; what is
\* still being read finds the registry stopped.
StopActors ==
  /\ watching \in {"yes", "died"} /\ watching' = "stopped"
  /\ snapshot' \in {registry, snapshot}
  /\ notices' = {} /\ pending' = {}
  /\ UNCHANGED <<file, registry, toRead, readers, missed, changed>>

-----------------------------------------------------------------------------
WatcherNext ==
  \/ \E k \in Sentinels : \/ Change(k) \/ FirstLook(k) \/ ReadPayload(k)
                          \/ Notice(k) \/ TimerFires(k)
  \/ BeginWatch \/ WatchDies \/ FlushSnapshots \/ StopActors

WatcherSpec == WatcherInit /\ [][WatcherNext]_watcherVars

-----------------------------------------------------------------------------
\* Nothing about this file is under way.
Quiet(k) == k \notin toRead \union notices \union pending /\ readers[k] = 0

\* Whatever changes while it is waited for or read, once nothing is under way the
\* registry shows for each file whether it is there, as long as it can be read and was
\* not changed where no watch looked.
RegistryMirrors ==
  watching \in {"yes", "died"} => \A k \in Sentinels :
    Quiet(k) /\ k \notin missed /\ file[k] # "broken"
    => (registry[k] \in Payloads <=> file[k] \in Payloads)

=============================================================================
