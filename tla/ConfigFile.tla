----------------------------- MODULE ConfigFile -----------------------------
(***************************************************************************)
(* config.toml as the state that the commands of one profile share with    *)
(* each other, with the user's editor and with the running daemon.         *)
(* `exclude`, `unexclude`, `setup`, `setup new` and `dev setup` each read  *)
(* the file, work on what they read (a `setup` asks for a key and makes    *)
(* two calls to the backend in between) and write all of it; nothing       *)
(* locks it.  The daemon validates it once, when it starts, and from then  *)
(* on reads only its exclusion list, at every capture cycle.               *)
(***************************************************************************)
EXTENDS Naturals, FiniteSets

CONSTANTS
    MaxAtOnce,      \* bound: commands that run at the same time
    MaxCommands,    \* bound: commands run in all
    EditedSections, \* the sections the user edits
    MaxEdits        \* bound: edits of the file by hand

ASSUME ConfigAssumption ==
    /\ MaxAtOnce \in Nat /\ MaxCommands \in Nat /\ MaxEdits \in Nat
    /\ EditedSections \subseteq {"account", "backend", "capture", "logging", "stale_binary"}

Commands == 1 .. MaxAtOnce

VARIABLES
    toml,       \* the file
    command,    \* each running command, with what it has read
    bound,      \* the keys the backend has bound to this machine
    reader,     \* the daemon: whether it runs, and the last list it read
    said,       \* what the commands and the edits so far have settled
    known,      \* the exclusions settled when the daemon last read the file
    commands, edits

configVars == <<toml, command, bound, reader, said, known, commands, edits>>
theUser == <<commands, edits>>

\* Ways to name a folder: "slashed" is "plain" with a slash at its end, "linked" a
\* symbolic link to the same project, "other" another project; "relative" can
\* only be written by hand.
Entries == {"plain", "slashed", "linked", "other", "relative"}
Keys == {"old_key", "new_key"}
Sections == {"account", "backend", "capture", "logging", "stale_binary"}
Ops == {"exclude", "unexclude", "setup", "new", "dev"}

\* The absolute and ~-prefixed entries; the others are read as nothing.
IsValidExclusionPath(e) == e # "relative"

\* The key by which the commands compare two entries, which looks at no link.
LexicalFolderKey(e) == IF e = "slashed" THEN "plain" ELSE e

\* The folder an entry means when a capture is compared with it.
NormalizeFolderPath(e) == IF LexicalFolderKey(e) = "linked" THEN "plain" ELSE LexicalFolderKey(e)

\* The folders a list of entries withholds.
Prefixes(list) == {NormalizeFolderPath(e) : e \in {d \in list : IsValidExclusionPath(d)}}

\* A file: whether it is there and parses, the sections with a value of the wrong
\* kind or range, those with values of the user's own, where the buffer and the
\* logs are, the decompression limit, and the exclusion list.
NoConfig == [state |-> "none", key |-> "", bad |-> {}, tuned |-> {}, paths |-> "default",
             limit |-> "absent", list |-> {}]

\* One section throws: a missing table or string, a number out of its range, a
\* resume size that is not below the pause size, an entry that is no string.
SectionThrows(f, s) == s \in f.bad

\* What is left out of an accepted file has its default, as if it had been written.
Validates(f) == \A s \in Sections : ~SectionThrows(f, s)

\* loadConfigFromFile returns: the file is there, parses and is accepted.
Loads(f) == f.state = "read" /\ Validates(f)

\* The text a configuration is written as: an infinite limit is left out.
Serialized(f) ==
    [f EXCEPT !.state = "read", !.limit = IF @ = "infinite" THEN "absent" ELSE @]

\* Mutant: a file that cannot be read excludes nothing.
LoadedExclusionsOpen(last) ==
    IF toml.state = "read" THEN {e \in toml.list : IsValidExclusionPath(e)} ELSE {}

\* The exclusion list a cycle gets: the file's entries that are usable, whatever
\* its other sections hold, or the last list when it is missing or does not parse.
LoadedExclusions(last) ==
    IF toml.state = "read" THEN {e \in toml.list : IsValidExclusionPath(e)} ELSE last

Off == [on |-> FALSE, list |-> {}]
Idle == [op |-> "exclude", arg |-> "plain", key |-> "", at |-> "idle", replaces |-> FALSE,
         base |-> NoConfig, paths |-> "default"]

\* A machine that is not configured, or one whose first setup is done.
ConfigInit ==
    /\ toml \in {NoConfig, [NoConfig EXCEPT !.state = "read", !.key = "old_key"]}
    /\ bound = {toml.key} \ {""}
    /\ command = [c \in Commands |-> Idle]
    /\ reader = Off /\ known = {}
    /\ said = toml /\ commands = 0 /\ edits = 0

-----------------------------------------------------------------------------
(* The commands. *)

\* The user runs one more command, as the first that is not running.
Free(c) ==
    /\ command[c].at = "idle" /\ commands < MaxCommands
    /\ \A d \in 1 .. c - 1 : command[d].at # "idle"

Becomes(c, w) == command' = [command EXCEPT ![c] = w]
Step(c, next) == Becomes(c, [command[c] EXCEPT !.at = next])

\* What the command works on is no longer what the file holds.
Overtaken(c) ==
    LET w == command[c] IN w.base # toml \/ (w.replaces /\ w.paths # w.base.paths)

\* `exclude` and `unexclude` load the configuration; when that fails they stop.
ExcludeLoads(c, op, e) ==
    /\ Free(c)
    /\ IsValidExclusionPath(e) /\ Loads(toml)
    /\ Becomes(c, [Idle EXCEPT !.op = op, !.arg = e, !.at = "loaded", !.base = toml])
    /\ commands' = commands + 1
    /\ UNCHANGED <<toml, bound, reader, said, known, edits>>

\* The list the command asks for.
NextList(w) ==
    LET same == {d \in w.base.list : LexicalFolderKey(d) = LexicalFolderKey(w.arg)}
    IN  IF w.op = "unexclude" THEN w.base.list \ same
        ELSE IF same # {} THEN w.base.list ELSE w.base.list \cup {w.arg}

\* It reports what it has done, having written the configuration if the list changed.
ExcludeEnds(c) ==
    LET w == command[c] IN
    /\ w.at = "loaded" /\ w.op \in {"exclude", "unexclude"}
    /\ toml' = IF NextList(w) = w.base.list THEN toml
                 ELSE Serialized([w.base EXCEPT !.list = NextList(w)])
    /\ said' = IF Overtaken(c) THEN toml'
               ELSE [said EXCEPT !.list =
                        IF w.op = "exclude" THEN @ \cup {w.arg}
                        ELSE {d \in @ : LexicalFolderKey(d) # LexicalFolderKey(w.arg)}]
    /\ Becomes(c, Idle)
    /\ UNCHANGED <<bound, reader, known, theUser>>

\* The paths a setup works with, looked up before anything else.
ResolvedPaths == IF Loads(toml) THEN toml.paths ELSE "default"

\* `setup` goes on only when there is no file; `setup new` notes whether there is one.
MayAsk(op) == op = "setup" => toml.state = "none"

\* Both then take a key.
SetupAsks(c, op, k) ==
    /\ Free(c)
    /\ MayAsk(op)
    /\ Becomes(c, [Idle EXCEPT !.op = op, !.key = k, !.at = "asked",
                               !.replaces = (toml.state # "none"), !.paths = ResolvedPaths])
    /\ commands' = commands + 1
    /\ UNCHANGED <<toml, bound, reader, said, known, edits>>

\* `dev setup` takes one and looks at no file.
DevSetupAsks(c, k) ==
    /\ Free(c)
    /\ Becomes(c, [Idle EXCEPT !.op = "dev", !.key = k, !.at = "loaded"])
    /\ commands' = commands + 1
    /\ UNCHANGED <<toml, bound, reader, said, known, edits>>

\* With the key given, a configuration to be replaced is loaded; a throw ends the command.
SetupLoads(c) ==
    /\ command[c].at = "asked"
    /\ command[c].replaces => Loads(toml)
    /\ Becomes(c, [command[c] EXCEPT !.at = "loaded",
                                     !.base = IF command[c].replaces THEN toml ELSE NoConfig])
    /\ UNCHANGED <<toml, bound, reader, said, known, theUser>>

\* The backend accepts the key, and then binds it to this machine.
SetupVerifies(c) ==
    /\ command[c].at = "loaded" /\ command[c].op \in {"setup", "new", "dev"}
    /\ Step(c, "verified")
    /\ UNCHANGED <<toml, bound, reader, said, known, theUser>>

SetupRegisters(c) ==
    /\ command[c].at = "verified"
    /\ Step(c, "registered")
    /\ bound' = bound \cup {command[c].key}
    /\ UNCHANGED <<toml, reader, said, known, theUser>>

\* Mutant: the exclusions are not carried over.
BuildWithoutExclusions(w) ==
    [NoConfig EXCEPT !.state = "read", !.key = w.key, !.paths = w.paths]

\* The configuration a setup writes: the new key, the exclusions it has read, the
\* paths, and the defaults for all the rest.
BuildGatewayConfig(w) ==
    [NoConfig EXCEPT !.state = "read", !.key = w.key, !.list = w.base.list, !.paths = w.paths]

\* The one `dev setup` writes: the key and the defaults.
DevConfig(w) == [NoConfig EXCEPT !.state = "read", !.key = w.key]

SetupEnds(c) ==
    LET w == command[c] IN
    /\ w.at = "registered"
    /\ toml' = Serialized(IF w.op = "dev" THEN DevConfig(w) ELSE BuildGatewayConfig(w))
    /\ said' = IF Overtaken(c) THEN toml'
               ELSE [said EXCEPT !.key = w.key, !.tuned = {}, !.limit = "absent", !.state = "read"]
    /\ Becomes(c, Idle)
    /\ UNCHANGED <<bound, reader, known, theUser>>

\* A key of the wrong form, a refusal, a failed call or write, an interrupt.
CommandFails(c) ==
    /\ command[c].at # "idle"
    /\ Becomes(c, Idle)
    /\ UNCHANGED <<toml, bound, reader, said, known, theUser>>

\* `setup reset` stops the daemon, which may fail unnoticed, and removes the file.
Resets ==
    /\ toml.state # "none" /\ commands < MaxCommands
    /\ \/ reader' = Off /\ known' = {}
       \/ reader.on /\ UNCHANGED <<reader, known>>
    /\ toml' = NoConfig /\ said' = NoConfig
    /\ commands' = commands + 1
    /\ UNCHANGED <<command, bound, edits>>

-----------------------------------------------------------------------------
(* The user's editor. *)

Edited(f, s) ==
    /\ edits < MaxEdits /\ edits' = edits + 1
    /\ toml' = f /\ said' = s
    /\ UNCHANGED <<command, bound, reader, known, commands>>

\* A value of the user's own, a limit or other paths; a value that is not allowed;
\* another list, or something that is no list; half a file; and back again.
Edits ==
    \/ /\ toml.state = "read"
       /\ \/ \E s \in EditedSections \ {"account"} :
                Edited([toml EXCEPT !.tuned = @ \cup {s}], [said EXCEPT !.tuned = @ \cup {s}])
          \/ \E l \in {"number", "infinite"} :
                Edited([toml EXCEPT !.limit = l], [said EXCEPT !.limit = l])
          \/ Edited([toml EXCEPT !.paths = "custom"], [said EXCEPT !.paths = "custom"])
          \/ \E s \in EditedSections : Edited([toml EXCEPT !.bad = @ \cup {s}], said)
          \/ Edited([toml EXCEPT !.list = {"plain", "relative"}],
                    [said EXCEPT !.list = {"plain", "relative"}])
          \/ Edited([toml EXCEPT !.list = {}, !.bad = @ \cup {"capture"}],
                    [said EXCEPT !.list = {}])
          \/ Edited([toml EXCEPT !.state = "garbled"], said)
    \/ /\ toml.state = "garbled" \/ toml.bad # {}
       /\ toml' = [toml EXCEPT !.state = "read", !.bad = {}]
       /\ UNCHANGED <<command, bound, reader, said, known, theUser>>

-----------------------------------------------------------------------------
(* The daemon. *)

ReaderStarts ==
    /\ ~reader.on /\ Loads(toml)
    /\ reader' = [on |-> TRUE, list |-> toml.list]
    /\ known' = said.list
    /\ UNCHANGED <<toml, command, bound, said, theUser>>

ReaderStops ==
    /\ reader.on
    /\ reader' = Off /\ known' = {}
    /\ UNCHANGED <<toml, command, bound, said, theUser>>

\* A capture cycle, which captures every folder its list does not withhold.
ReaderPolls ==
    /\ reader.on
    /\ reader' = [reader EXCEPT !.list = LoadedExclusions(@)]
    /\ known' = IF toml.state = "read" THEN said.list ELSE known
    /\ UNCHANGED <<toml, command, bound, said, theUser>>

ConfigNext ==
    \/ \E c \in Commands, e \in Entries, op \in {"exclude", "unexclude"} : ExcludeLoads(c, op, e)
    \/ \E c \in Commands : ExcludeEnds(c)
    \/ \E c \in Commands, k \in Keys, op \in {"setup", "new"} : SetupAsks(c, op, k)
    \/ \E c \in Commands, k \in Keys : DevSetupAsks(c, k)
    \/ \E c \in Commands : SetupLoads(c) \/ SetupVerifies(c) \/ SetupRegisters(c) \/ SetupEnds(c)
    \/ \E c \in Commands : CommandFails(c)
    \/ Resets \/ Edits \/ ReaderStarts \/ ReaderStops \/ ReaderPolls

ConfigSpec == ConfigInit /\ [][ConfigNext]_configVars

-----------------------------------------------------------------------------

ConfigTypeOK ==
    /\ toml.state \in {"none", "garbled", "read"} /\ toml.key \in Keys \cup {""}
    /\ toml.list \subseteq Entries /\ toml.bad \subseteq Sections
    /\ toml.limit # "infinite" \/ edits > 0
    /\ \A c \in Commands :
         command[c].at \in {"idle", "asked", "loaded", "verified", "registered"}
         /\ command[c].op \in Ops
    /\ reader.list \subseteq Entries /\ bound \subseteq Keys

\* What the commands reported and the user wrote is what the file holds, as long as
\* it parses: the key, the folders withheld, the paths, the user's values and limit.
FileKeeps ==
    toml.state = "read" =>
        /\ toml.key = said.key /\ toml.key \in bound
        /\ Prefixes(said.list) = Prefixes(toml.list)
        /\ toml.paths = said.paths /\ toml.tuned = said.tuned
        /\ said.limit = "number" => toml.limit = "number"

\* A folder that a command said is excluded, or that the user wrote into the list,
\* stays in the file through every later exclude, unexclude, setup and setup new,
\* by whatever name each of them uses, and so do the key that was last set up
\* (which the backend has bound to this machine) and the values of the user's own
\* that setup new does not put back; and no capture cycle takes such a folder, not
\* even one that cannot read the file, if the daemon had read the exclusion before.
\* A command that works on a configuration another one has changed meanwhile
\* settles things anew, for what it writes is what it had read (README, "Lost
\* updates"); so does dev setup, which carries no exclusions.
PromisesKept ==
    /\ []FileKeeps
    /\ [][ReaderPolls =>
            LET due == IF toml.state = "read" THEN said.list ELSE known \cap said.list
            IN  Prefixes(due) \subseteq Prefixes(reader'.list)]_configVars

=============================================================================
