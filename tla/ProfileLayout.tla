--------------------------- MODULE ProfileLayout ---------------------------
(***************************************************************************)
(* The one-time move of a profile's files from the root directory into     *)
(* prod/ (migrate-flat-to-nested.ts).  Every `run` does it first, of the   *)
(* prod and of the dev daemon alike, under a lock file that goes stale     *)
(* after a minute, with a marker that says it was done; meanwhile `setup`  *)
(* writes the new layout itself and `uninstall --reset` removes both.      *)
(* A rename may fail (the moves so far are undone), and so may the writing *)
(* of the configuration (which is ignored) or of the marker; a process may *)
(* die at any step, and a machine may sleep while a live process holds the *)
(* lock.                                                                   *)
(***************************************************************************)
EXTENDS Naturals, FiniteSets

LOCAL INSTANCE Sequences

CONSTANTS
    MaxTroubles,  \* bound: failed renames and writes, crashes and sleeps
    MaxResets     \* bound: uninstalls with --reset

ASSUME LayoutAssumption == MaxTroubles \in Nat /\ MaxResets \in Nat

VARIABLES
    flat,       \* what each file in the root directory is: none, old, or new
    nested,     \* the same in prod/
    bufferPath, \* the directory prod/config.toml names for the buffer, or that the
                \* file is torn
    marker,     \* .migrated-flat-to-nested exists
    mutex,      \* .migration.lock: free, or the daemon that wrote it
    aged,       \* it is more than a minute old
    at,         \* where each daemon is in its start
    reached,    \* the next file it looks for
    moved,      \* the files it has moved
    opened,     \* what the running prod daemon found in its buffer file
    installed,  \* the service is registered and the binary is there
    wiping,     \* how far a reset has come
    spoilt,     \* a lock was taken from a live daemon, or a step named below was cut
    unnamed,    \* an error of the rewriting of the configuration was ignored
    troubles, resets

layoutVars == <<flat, nested, bufferPath, marker, mutex, aged, at, reached, moved, opened,
                installed, wiping, spoilt, unnamed, troubles, resets>>
places == <<flat, nested, bufferPath, marker>>
locking == <<mutex, aged>>
walk == <<reached, moved>>
around == <<installed, wiping, resets, unnamed>>

\* FILES_TO_RELOCATE in its order; the buffer stands for its companions too and
\* one sentinel for the five.
Files == <<"config", "buffer", "sentinel">>
Named == {Files[i] : i \in DOMAIN Files}
Daemons == {"prod", "dev"}
Holding == {"check", "move", "undo", "rewrite", "mark", "release", "abort"}

\* An installation of the flat layout whose binary has just been replaced, or a new one.
LayoutInit ==
    /\ \/ flat = [f \in Named |-> "old"]
       \/ flat = [f \in Named |-> IF f = "sentinel" THEN "none" ELSE "old"]
       \/ flat = [f \in Named |-> "none"]
    /\ installed = (flat["config"] = "old")
    /\ nested = [f \in Named |-> "none"] /\ bufferPath = "root"
    /\ marker = FALSE /\ mutex = "free" /\ aged = FALSE
    /\ at = [d \in Daemons |-> "off"] /\ reached = [d \in Daemons |-> 1]
    /\ moved = [d \in Daemons |-> {}] /\ opened = "none"
    /\ wiping = "no" /\ spoilt = FALSE /\ unnamed = FALSE /\ troubles = 0 /\ resets = 0

GoesTo(d, step) == at' = [at EXCEPT ![d] = step]

\* The walk over the files of d is at an end, or has not begun.
NoWalk(d) == reached' = [reached EXCEPT ![d] = 1] /\ moved' = [moved EXCEPT ![d] = {}]

IsFlatLayoutPresent == \E f \in Named : flat[f] # "none"

\* A daemon has moved every file and has not rewritten the configuration yet.
Unwritten(d) == at[d] \in {"move", "rewrite"} /\ ~IsFlatLayoutPresent

\* The service manager starts the daemon of a registered profile.
Starts(d) ==
    /\ at[d] = "off" /\ installed /\ wiping = "no"
    /\ GoesTo(d, "look")
    /\ UNCHANGED <<places, locking, walk, opened, around, spoilt, troubles>>

\* The first look is taken without the lock: with no flat file left the marker is
\* written at once, also while another daemon has yet to rewrite the configuration.
Looks(d) ==
    /\ at[d] = "look"
    /\ LET none == ~marker /\ ~IsFlatLayoutPresent
       IN  /\ GoesTo(d, IF marker \/ none THEN "open" ELSE "lock")
           /\ marker' = (marker \/ none)
           /\ spoilt' = (spoilt \/ (none /\ d = "prod" /\ Unwritten("dev")))
    /\ UNCHANGED <<flat, nested, bufferPath, locking, walk, opened, around, troubles>>

\* tryAcquire, and lockIsStale when it failed: a lock that is gone by then counts as stale.
Acquires(d) ==
    /\ at[d] = "lock" /\ mutex = "free"
    /\ mutex' = d /\ aged' = FALSE
    /\ GoesTo(d, "check")
    /\ UNCHANGED <<places, walk, opened, around, spoilt, troubles>>

FindsHeld(d) ==
    /\ at[d] = "lock" /\ mutex # "free"
    /\ GoesTo(d, "held")
    /\ UNCHANGED <<places, locking, walk, opened, around, spoilt, troubles>>

LockIsStaleNever == mutex = "free"

LockIsStale == mutex = "free" \/ aged

FindsStale(d) ==
    /\ at[d] = "held" /\ LockIsStale
    /\ GoesTo(d, "stale")
    /\ UNCHANGED <<places, locking, walk, opened, around, spoilt, troubles>>

\* The next try after a tenth of a second, or the end of the thirty seconds after which
\* relocateFlatToNested throws and the daemon ends.
Waits(d, expired) ==
    /\ at[d] = "held" /\ ~LockIsStale
    /\ GoesTo(d, IF expired THEN "off" ELSE "lock")
    /\ UNCHANGED <<places, locking, walk, opened, around, spoilt, troubles>>

\* The lock that is removed need not be the one that was looked at.
RemovesStale(d) ==
    /\ at[d] = "stale"
    /\ spoilt' = (spoilt \/ (mutex # "free" /\ at[mutex] \in Holding))
    /\ mutex' = "free" /\ aged' = FALSE
    /\ GoesTo(d, "lock")
    /\ UNCHANGED <<places, walk, opened, around, troubles>>

Checks(d) ==
    /\ at[d] = "check"
    /\ GoesTo(d, IF marker THEN "release" ELSE "move")
    /\ UNCHANGED <<places, locking, walk, opened, around, spoilt, troubles>>

\* existsSync and renameSync of one file.  The code does not look at the destination.
Carry(f) ==
    /\ nested' = [nested EXCEPT ![f] = flat[f]] /\ flat' = [flat EXCEPT ![f] = "none"]
    /\ bufferPath' = IF f = "config" THEN "root" ELSE bufferPath

MovesFile(d) ==
    /\ at[d] = "move" /\ reached[d] <= Len(Files)
    /\ LET f == Files[reached[d]]
       IN  IF flat[f] = "none"
           THEN UNCHANGED <<flat, nested, bufferPath, moved>>
           ELSE Carry(f) /\ moved' = [moved EXCEPT ![d] = @ \cup {f}]
    /\ reached' = [reached EXCEPT ![d] = @ + 1]
    /\ UNCHANGED <<marker, locking, at, opened, around, spoilt, troubles>>

MovesEnd(d) ==
    /\ at[d] = "move" /\ reached[d] > Len(Files)
    /\ GoesTo(d, IF nested["config"] = "none" THEN "mark" ELSE "rewrite")
    /\ NoWalk(d)
    /\ UNCHANGED <<places, locking, opened, around, spoilt, troubles>>

RenameFails(d) ==
    /\ at[d] = "move" /\ reached[d] <= Len(Files) /\ flat[Files[reached[d]]] # "none"
    /\ troubles < MaxTroubles /\ troubles' = troubles + 1
    /\ GoesTo(d, "undo")
    /\ UNCHANGED <<places, locking, walk, opened, around, spoilt>>

\* The rollback, file by file; one that cannot be moved back is left in prod/.
Undoes(d, f, works) ==
    /\ at[d] = "undo" /\ f \in moved[d]
    /\ works \/ troubles < MaxTroubles
    /\ troubles' = IF works THEN troubles ELSE troubles + 1
    /\ moved' = [moved EXCEPT ![d] = @ \ {f}]
    /\ IF works /\ nested[f] # "none"
       THEN /\ flat' = [flat EXCEPT ![f] = nested[f]]
            /\ nested' = [nested EXCEPT ![f] = "none"]
       ELSE UNCHANGED <<flat, nested>>
    /\ UNCHANGED <<bufferPath, marker, locking, at, reached, opened, around, spoilt>>

UndoEnds(d) ==
    /\ at[d] = "undo" /\ moved[d] = {}
    /\ GoesTo(d, "abort") /\ NoWalk(d)
    /\ UNCHANGED <<places, locking, opened, around, spoilt, troubles>>

\* capture.buffer_path and logging.log_dir.
Rewrites(d) ==
    /\ at[d] = "rewrite"
    /\ bufferPath' = IF nested["config"] = "none" THEN bufferPath ELSE "prod"
    /\ GoesTo(d, "mark")
    /\ UNCHANGED <<flat, nested, marker, locking, walk, opened, around, spoilt, troubles>>

\* The configuration cannot be read, or cannot be written, perhaps not to its end:
\* the error is ignored, and the marker is written all the same.
RewriteFails(d) ==
    /\ at[d] = "rewrite" /\ nested["config"] # "none"
    /\ troubles < MaxTroubles /\ troubles' = troubles + 1
    /\ bufferPath' \in {bufferPath, "torn"} /\ unnamed' = TRUE
    /\ GoesTo(d, "mark")
    /\ UNCHANGED <<flat, nested, marker, locking, walk, opened, installed, wiping, resets,
                   spoilt>>

Marks(d) ==
    /\ at[d] = "mark"
    /\ marker' = TRUE
    /\ GoesTo(d, "release")
    /\ UNCHANGED <<flat, nested, bufferPath, locking, walk, opened, around, spoilt, troubles>>

MarkFails(d) ==
    /\ at[d] = "mark"
    /\ troubles < MaxTroubles /\ troubles' = troubles + 1
    /\ GoesTo(d, "abort")
    /\ UNCHANGED <<places, locking, walk, opened, around, spoilt>>

\* Mutant: the finally clause marks the layout whatever happened.
ReleasesAndMarks(d) ==
    /\ at[d] \in {"release", "abort"}
    /\ mutex' = "free" /\ aged' = FALSE /\ marker' = TRUE
    /\ GoesTo(d, IF at[d] = "release" THEN "open" ELSE "off")
    /\ UNCHANGED <<flat, nested, bufferPath, walk, opened, around, spoilt, troubles>>

\* The finally clause: the lock is removed, whoever wrote it.
Releases(d) ==
    /\ at[d] \in {"release", "abort"}
    /\ mutex' = "free" /\ aged' = FALSE
    /\ GoesTo(d, IF at[d] = "release" THEN "open" ELSE "off")
    /\ UNCHANGED <<places, walk, opened, around, spoilt, troubles>>

\* run loads prod/config.toml, if it can, and opens the buffer it names, made when it is
\* missing.
\* The dev daemon has its own configuration and buffer.
OrNew(file) == IF file = "none" THEN "new" ELSE file
OpensBuffer(d) ==
    /\ at[d] = "open"
    /\ IF d = "dev" THEN GoesTo(d, "running") /\ UNCHANGED <<flat, nested, opened>>
       ELSE IF nested["config"] = "none" \/ bufferPath = "torn"
       THEN GoesTo(d, "off") /\ UNCHANGED <<flat, nested, opened>>
       ELSE /\ GoesTo(d, "running")
            /\ IF bufferPath = "root"
               THEN /\ opened' = OrNew(flat["buffer"]) /\ UNCHANGED nested
                    /\ flat' = [flat EXCEPT !["buffer"] = opened']
               ELSE /\ opened' = OrNew(nested["buffer"]) /\ UNCHANGED flat
                    /\ nested' = [nested EXCEPT !["buffer"] = opened']
    /\ UNCHANGED <<bufferPath, marker, locking, walk, around, spoilt, troubles>>

Ends(d) ==
    /\ at[d] = "running"
    /\ GoesTo(d, "off") /\ opened' = IF d = "prod" THEN "none" ELSE opened
    /\ UNCHANGED <<places, locking, walk, around, spoilt, troubles>>

\* A crash leaves the lock; between the moves and the rewrite it leaves a configuration
\* that names the old place, and the next start finds no flat file to move.
Dies(d) ==
    /\ at[d] \notin {"off", "running"}
    /\ troubles < MaxTroubles /\ troubles' = troubles + 1
    /\ spoilt' = (spoilt \/ Unwritten(d))
    /\ GoesTo(d, "off") /\ NoWalk(d)
    /\ UNCHANGED <<places, locking, opened, around>>

\* A minute passes over a lock: its owner is gone, or the machine has slept.
LockAges ==
    /\ mutex # "free" /\ ~aged /\ at[mutex] \notin Holding
    /\ aged' = TRUE
    /\ UNCHANGED <<places, mutex, at, walk, opened, around, spoilt, troubles>>

Sleeps ==
    /\ mutex # "free" /\ ~aged /\ troubles < MaxTroubles
    /\ aged' = TRUE /\ troubles' = troubles + 1
    /\ UNCHANGED <<places, mutex, at, walk, opened, around, spoilt>>

\* `setup` of an installation it finds no prod/config.toml for.
Setup ==
    /\ nested["config"] = "none" /\ wiping = "no"
    /\ nested' = [nested EXCEPT !["config"] = "new"] /\ bufferPath' = "prod"
    /\ installed' = TRUE
    /\ UNCHANGED <<flat, marker, locking, at, walk, opened, wiping, resets, spoilt, unnamed,
                   troubles>>

\* `uninstall --reset`: both daemons are stopped and unregistered, then prod/ and dev/
\* are removed, then the root's buffer, marker, lock and configuration.
ResetStops ==
    /\ wiping = "no" /\ installed /\ resets < MaxResets
    /\ at' = [d \in Daemons |-> "off"] /\ opened' = "none"
    /\ reached' = [d \in Daemons |-> 1] /\ moved' = [d \in Daemons |-> {}]
    /\ installed' = FALSE /\ wiping' = "stopped" /\ resets' = resets + 1
    /\ spoilt' = (spoilt \/ \E d \in Daemons : Unwritten(d))
    /\ UNCHANGED <<places, locking, unnamed, troubles>>

ResetWipesProfiles ==
    /\ wiping = "stopped" /\ wiping' = "profiles"
    /\ nested' = [f \in Named |-> "none"]
    /\ UNCHANGED <<flat, bufferPath, marker, locking, at, walk, opened, installed, resets,
                   spoilt, unnamed, troubles>>

ResetWipesRoot ==
    /\ wiping = "profiles" /\ wiping' = "no"
    /\ flat' = [f \in Named |-> IF f \in {"config", "buffer"} THEN "none" ELSE flat[f]]
    /\ marker' = FALSE /\ mutex' = "free" /\ aged' = FALSE
    /\ UNCHANGED <<nested, bufferPath, at, walk, opened, installed, resets, spoilt, unnamed,
                   troubles>>

\* The steps of a start that nothing can keep from ending.
StartStep(d) ==
    \/ Looks(d) \/ Acquires(d) \/ FindsHeld(d) \/ FindsStale(d)
    \/ Waits(d, FALSE) \/ Waits(d, TRUE) \/ RemovesStale(d)
    \/ Checks(d) \/ MovesFile(d) \/ MovesEnd(d) \/ (\E f \in Named : Undoes(d, f, TRUE))
    \/ UndoEnds(d) \/ Rewrites(d) \/ Marks(d) \/ Releases(d) \/ OpensBuffer(d)

LayoutNext ==
    \/ \E d \in Daemons :
         \/ Starts(d) \/ StartStep(d) \/ RenameFails(d) \/ RewriteFails(d) \/ MarkFails(d)
         \/ (\E f \in Named : Undoes(d, f, FALSE)) \/ Ends(d) \/ Dies(d)
    \/ LockAges \/ Sleeps \/ Setup
    \/ ResetStops \/ ResetWipesProfiles \/ ResetWipesRoot

\* The service manager starts the prod daemon again whenever it ended, its code runs
\* on, and a lock that nobody holds grows old.
LayoutFairness ==
    /\ WF_layoutVars(Starts("prod"))
    /\ WF_layoutVars(StartStep("prod")) /\ WF_layoutVars(StartStep("dev"))
    /\ WF_layoutVars(LockAges)

LayoutSpec == LayoutInit /\ [][LayoutNext]_layoutVars /\ LayoutFairness

-----------------------------------------------------------------------------
Kept == {"none", "old", "new"}
LayoutTypeOK ==
    /\ flat \in [Named -> Kept] /\ nested \in [Named -> Kept]
    /\ bufferPath \in {"root", "prod", "torn"}
    /\ marker \in BOOLEAN /\ mutex \in Daemons \cup {"free"} /\ aged \in BOOLEAN
    /\ at \in [Daemons -> Holding \cup {"off", "look", "lock", "held", "stale", "open", "running"}]
    /\ reached \in [Daemons -> 1..4] /\ moved \in [Daemons -> SUBSET Named]
    /\ opened \in Kept /\ installed \in BOOLEAN
    /\ wiping \in {"no", "stopped", "profiles"}
    /\ spoilt \in BOOLEAN /\ unnamed \in BOOLEAN
    /\ troubles \in 0..MaxTroubles /\ resets \in 0..MaxResets

\* Whatever failed and whoever died: once the marker is there no file of the old
\* installation is left in the root, where no later start would look for it, and a
\* prod daemon never runs on a new buffer while the old one lies in another place.
\* Three cases are left out of both, in which the code does either: a lock taken from
\* a live daemon, a configuration not rewritten because its mover died, and one not yet
\* rewritten when the prod daemon finds no flat file (`spoilt`).  A fourth is left out
\* of the second: a configuration that could not be rewritten, which the code ignores,
\* names the root, where prod then opens a new buffer beside the old queue in prod/.
MarkedIsMoved ==
    ~spoilt =>
        /\ (marker /\ wiping = "no") => \A f \in Named : flat[f] # "old"
        /\ (at["prod"] = "running" /\ opened = "new" /\ ~unnamed) =>
               flat["buffer"] # "old" /\ nested["buffer"] # "old"

\* A relocation that is cut short, with its lock left behind, is done by a later start.
RelocationEnds == (at["prod"] = "look") ~> (marker \/ ~installed)

=============================================================================
