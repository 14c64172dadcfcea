------------------------------- MODULE Plugin -------------------------------
(***************************************************************************)
(* A subcommand that is not built in (external.rs).  krabka looks           *)
(* krabka-<name> up on PATH, one directory after the other, while files    *)
(* come and go; registers its signal handlers; spawns the plugin; and      *)
(* then selects over the plugin's end and the signals until the plugin has *)
(* ended.  Ctrl-C and Ctrl-\ reach the whole process group, SIGTERM only   *)
(* krabka, which forwards it.                                              *)
(***************************************************************************)
EXTENDS Integers, Sequences

CONSTANTS
    Path,        \* the PATH list, a sequence of directories
    EmptyEntry,  \* the entry of Path that is the empty string
    Codes,       \* the exit codes that a plugin may end with
    MaxEdits,    \* bound: changes of files while krabka looks
    MaxSignals,  \* bound: signals sent to krabka
    None

ASSUME PathIsList == Len(Path) \in Nat /\ DOMAIN Path = 1..Len(Path)
ASSUME BoundsAreNat == MaxEdits \in Nat /\ MaxSignals \in Nat

VARIABLES
    files,    \* each directory's krabka-<name>: absent, plain or executable
    always,   \* the directories whose file has been executable all along
    pc,       \* where run and supervise are
    at,       \* the PATH entry that resolve is at
    unusable, \* not_executable: the first candidate that cannot be run
    binary,   \* the candidate that resolve returned
    handled,  \* the signals that have a handler
    pending,  \* the signals that their streams have not yielded yet
    plugin,   \* the child process and how it ended
    waiting,  \* the signals that the plugin has not acted on yet
    told,     \* the signals that reached the plugin, TERM since krabka's last
    exit,     \* how krabka ended
    edits, signals

vars == <<files, always, pc, at, unusable, binary, handled, pending, plugin,
          waiting, told, exit, edits, signals>>

Dirs == {Path[i] : i \in DOMAIN Path} \ {EmptyEntry}
Signals == {"INT", "QUIT", "TERM"}
Statuses == ({"code"} \X Codes) \cup ({"signal"} \X Signals)
Exits == Statuses \cup ({"krabka"} \X {2, 126, 127}) \cup ({"died"} \X Signals)

ASSUME NoneIsNothing == None \notin Dirs \cup Exits

search == <<at, unusable, binary>>
disk == <<files, always, edits>>

Init ==
    /\ files \in [Dirs -> {"absent", "plain", "exec"}]
    /\ always = {d \in Dirs : files[d] = "exec"}
    /\ pc = "start" /\ at = 1 /\ unusable = None /\ binary = None
    /\ handled = {} /\ pending = {} /\ waiting = {} /\ told = {}
    /\ plugin = [st |-> "none", how |-> None]
    /\ exit = None /\ edits = 0 /\ signals = 0

Leave(how) == pc' = "done" /\ exit' = how

(***************************************************************************)
(* resolve: a name that is empty or has a path separator is missing; else  *)
(* the first executable candidate wins.                                    *)
(***************************************************************************)
Start ==
    /\ pc = "start"
    /\ \/ pc' = "look" /\ UNCHANGED exit
       \/ Leave(<<"krabka", 127>>)
    /\ UNCHANGED <<disk, search, handled, pending, plugin, waiting, told, signals>>

\* (fault) the search does not stop at the end of PATH.
LookPastEnd ==
    /\ pc = "look"
    /\ IF at > Len(Path) \/ Path[at] = EmptyEntry \/ files[Path[at]] = "absent"
       THEN at' = at + 1 /\ UNCHANGED pc
       ELSE pc' = "mode" /\ UNCHANGED at
    /\ UNCHANGED <<disk, unusable, binary, handled, pending, plugin, waiting,
                   told, exit, signals>>

\* candidate.is_file(), and the empty entry that is skipped before it.
Look ==
    /\ pc = "look" /\ at <= Len(Path)
    /\ IF Path[at] = EmptyEntry \/ files[Path[at]] = "absent"
       THEN at' = at + 1 /\ UNCHANGED pc
       ELSE pc' = "mode" /\ UNCHANGED at
    /\ UNCHANGED <<disk, unusable, binary, handled, pending, plugin, waiting,
                   told, exit, signals>>

\* (fault) the first file found decides, executable or not.
ModeFirstFile ==
    /\ pc = "mode"
    /\ IF files[Path[at]] = "exec"
       THEN /\ binary' = Path[at] /\ pc' = "register"
            /\ UNCHANGED <<at, unusable, exit>>
       ELSE unusable' = Path[at] /\ Leave(<<"krabka", 126>>) /\ UNCHANGED <<at, binary>>
    /\ UNCHANGED <<disk, handled, pending, plugin, waiting, told, signals>>

\* is_executable(&candidate), a second look at the same file.
Mode ==
    /\ pc = "mode"
    /\ IF files[Path[at]] = "exec"
       THEN binary' = Path[at] /\ pc' = "register" /\ UNCHANGED <<at, unusable>>
       ELSE /\ at' = at + 1 /\ pc' = "look"
            /\ unusable' = IF unusable = None THEN Path[at] ELSE unusable
            /\ UNCHANGED binary
    /\ UNCHANGED <<disk, handled, pending, plugin, waiting, told, exit, signals>>

Unresolved ==
    /\ pc = "look" /\ at > Len(Path)
    /\ Leave(<<"krabka", IF unusable = None THEN 127 ELSE 126>>)
    /\ UNCHANGED <<disk, search, handled, pending, plugin, waiting, told, signals>>

(***************************************************************************)
(* supervise: three handlers, in order, then the spawn.                    *)
(***************************************************************************)
\* (fault) the plugin is spawned before the handlers are registered.
RegisterLate ==
    /\ pc = "register"
    /\ pc' = "spawn"
    /\ UNCHANGED <<disk, search, handled, pending, plugin, waiting, told, exit, signals>>

Register ==
    /\ pc = "register"
    /\ \/ /\ \E s \in Signals :
                /\ s = CASE handled = {} -> "INT"
                         [] handled = {"INT"} -> "QUIT"
                         [] OTHER -> "TERM"
                /\ handled' = handled \cup {s}
                /\ pc' = IF s = "TERM" THEN "spawn" ELSE "register"
          /\ UNCHANGED exit
       \/ Leave(<<"krabka", 126>>) /\ UNCHANGED handled
    /\ UNCHANGED <<disk, search, pending, plugin, waiting, told, signals>>

Spawn ==
    /\ pc = "spawn"
    /\ \/ /\ files[binary] = "exec"
          /\ plugin' = [plugin EXCEPT !.st = "running"]
          /\ pc' = "watch" /\ UNCHANGED exit
       \/ Leave(<<"krabka", 126>>) /\ UNCHANGED plugin
    /\ UNCHANGED <<disk, search, handled, pending, waiting, told, signals>>

(***************************************************************************)
(* The select loop.                                                        *)
(***************************************************************************)
\* (fault) the loop does not return when the plugin has been reaped.
WaitAgain ==
    /\ pc = "watch" /\ plugin.st = "ended"
    /\ plugin' = [plugin EXCEPT !.st = "reaped"]
    /\ UNCHANGED <<disk, search, pc, handled, pending, waiting, told, exit, signals>>

\* child.wait() yields the status, which exit_for and Exit::code pass on.
Wait ==
    /\ pc = "watch" /\ plugin.st = "ended"
    /\ plugin' = [plugin EXCEPT !.st = "reaped"]
    /\ Leave(plugin.how)
    /\ UNCHANGED <<disk, search, handled, pending, waiting, told, signals>>

\* interrupt.recv() and quit.recv() do nothing.
Ignore(s) ==
    /\ pc = "watch" /\ s \in pending \ {"TERM"}
    /\ pending' = pending \ {s}
    /\ UNCHANGED <<disk, search, pc, handled, plugin, waiting, told, exit, signals>>

\* (fault) SIGTERM is swallowed as SIGINT and SIGQUIT are.
ForwardNothing ==
    /\ pc = "watch" /\ "TERM" \in pending
    /\ pending' = pending \ {"TERM"}
    /\ UNCHANGED <<disk, search, pc, handled, plugin, waiting, told, exit, signals>>

\* terminate.recv() sends SIGTERM to the child's pid.
Forward ==
    /\ pc = "watch" /\ "TERM" \in pending
    /\ pending' = pending \ {"TERM"}
    /\ told' = told \cup {"TERM"}
    /\ waiting' = IF plugin.st = "running" THEN waiting \cup {"TERM"} ELSE waiting
    /\ UNCHANGED <<disk, search, pc, handled, plugin, exit, signals>>

(***************************************************************************)
(* External: the operating system, the terminal and the plugin itself.     *)
(***************************************************************************)
\* A signal at krabka's own process: its handler, or the default action.
Arrive(s) ==
    IF s \in handled
    THEN pending' = pending \cup {s} /\ UNCHANGED <<pc, exit>>
    ELSE Leave(<<"died", s>>) /\ UNCHANGED pending

Send(s) ==
    /\ pc # "done" /\ signals < MaxSignals
    /\ signals' = signals + 1
    /\ Arrive(s)
    /\ IF s = "TERM"
       THEN told' = told \ {s} /\ UNCHANGED waiting
       ELSE IF plugin.st = "running"
            THEN waiting' = waiting \cup {s} /\ told' = told \cup {s}
            ELSE UNCHANGED <<waiting, told>>
    /\ UNCHANGED <<disk, search, handled, plugin>>

PluginActs(s) ==
    /\ plugin.st = "running" /\ s \in waiting
    /\ waiting' = waiting \ {s}
    /\ plugin' \in {plugin, [st |-> "ended", how |-> <<"signal", s>>]}
    /\ UNCHANGED <<disk, search, pc, handled, pending, told, exit, signals>>

PluginEnds(c) ==
    /\ plugin.st = "running"
    /\ plugin' = [st |-> "ended", how |-> <<"code", c>>]
    /\ UNCHANGED <<disk, search, pc, handled, pending, waiting, told, exit, signals>>

\* Somebody installs, removes or changes a plugin while krabka looks for it.
Edit(d, f) ==
    /\ pc \in {"start", "look", "mode", "register", "spawn"} /\ edits < MaxEdits
    /\ files[d] # f
    /\ files' = [files EXCEPT ![d] = f]
    /\ always' = always \ {d}
    /\ edits' = edits + 1
    /\ UNCHANGED <<search, pc, handled, pending, plugin, waiting, told, exit, signals>>

\* krabka has ended; nothing of it is left to happen.
Ended == pc = "done" /\ UNCHANGED vars

Krabka ==
    \/ Start \/ Look \/ Mode \/ Unresolved \/ Register \/ Spawn \/ Wait
    \/ \E s \in Signals : Ignore(s)
    \/ Forward

Next ==
    \/ Krabka
    \/ \E s \in Signals : Send(s)
    \/ \E s \in Signals : PluginActs(s)
    \/ \E c \in Codes : PluginEnds(c)
    \/ \E d \in Dirs, f \in {"absent", "plain", "exec"} : Edit(d, f)
    \/ Ended

Spec == Init /\ [][Next]_vars

\* select! polls its branches from a random one on, so none of them starves.
Fairness ==
    /\ WF_vars(Start \/ Look \/ Mode \/ Unresolved \/ Register \/ Spawn)
    /\ WF_vars(Wait) /\ WF_vars(Forward)

FairSpec == Spec /\ Fairness

(***************************************************************************)
(* Properties                                                              *)
(***************************************************************************)
\* The type invariant.
TypeOK ==
    /\ files \in [Dirs -> {"absent", "plain", "exec"}] /\ always \subseteq Dirs
    /\ pc \in {"start", "look", "mode", "register", "spawn", "watch", "done"}
    /\ at \in 1..(Len(Path) + 1)
    /\ unusable \in Dirs \cup {None} /\ binary \in Dirs \cup {None}
    /\ handled \subseteq Signals /\ pending \subseteq handled
    /\ plugin \in [st : {"none", "running", "ended", "reaped"}, how : Statuses \cup {None}]
    /\ waiting \subseteq Signals /\ told \subseteq Signals
    /\ exit \in Exits \cup {None}
    /\ edits \in 0..MaxEdits /\ signals \in 0..MaxSignals

\* README: the first executable match on PATH runs, whatever else changes on
\* disk meanwhile.  A plugin that was executable all along is never passed
\* over for a later one, nor reported as missing once the name was looked up.
FindsWhatIsThere ==
    \A i \in DOMAIN Path :
        Path[i] \in always =>
            /\ at <= i
            /\ binary # None => \E j \in 1..i : Path[j] = binary
            /\ exit = <<"krabka", 126>> => binary # None

\* external.rs:152 to 159: once krabka is done no plugin of its own is left
\* running, it ended as the plugin ended, and while it may still forward
\* SIGTERM to the pid, the pid is that of its own child, not yet reaped.
OwnsThePlugin ==
    /\ TypeOK
    /\ pc = "watch" => plugin.st \in {"running", "ended"}
    /\ pc = "done" => plugin.st \in {"none", "reaped"}
    /\ pc = "done" /\ plugin.st = "reaped" => exit = plugin.how

\* external.rs:158: "SIGTERM sent to `krabka` is forwarded to the plugin",
\* also one that arrives before the plugin is spawned.
TermReachesPlugin == "TERM" \in pending ~> ("TERM" \in told \/ pc = "done")

\* krabka ends when its plugin has ended, whatever signals arrive.
EndsWithPlugin == plugin.st = "ended" ~> pc = "done"
=============================================================================
