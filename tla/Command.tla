------------------------------ MODULE Command ------------------------------
(***************************************************************************)
(* One admin command of krabka from its dispatch to its exit code: the     *)
(* cancellation and the rendering of lib.rs, the prompt of safety.rs, the  *)
(* exit codes of exit.rs and the errors of output.rs.                      *)
(*                                                                         *)
(* A module for a command extends this one and gives the command's steps.  *)
(* Each request to the brokers is a step.  Other operators change the      *)
(* cluster between any two of them, and Ctrl-C may come at any time.       *)
(***************************************************************************)
EXTENDS Integers, FiniteSets, Sequences

CONSTANT MaxMoves   \* bound: how often others change the cluster meanwhile

ASSUME MaxMovesIsNat == MaxMoves \in Nat

VARIABLES line,     \* the command line: kind, dry, yes, tty, and its own flags
          cmd,      \* the local state of the command
          cluster,  \* what the cluster holds of the things the command is about
          effects,  \* what the cluster has done for the command (history)
          moves

vars == <<line, cmd, cluster, effects, moves>>

\* seen is what was read, asked and reply the last mutating request and its
\* answer, agreed what the operator has agreed to (history).
Fresh == [pc |-> "start", seen |-> <<>>, asked |-> {}, reply |-> <<>>,
          rows |-> {}, exit |-> "none", agreed |-> {}]

CommandInit(Lines) ==
    /\ line \in Lines
    /\ cmd = Fresh
    /\ effects = {}
    /\ moves = 0

At(kinds, pc) == line.kind \in kinds /\ cmd.pc = pc

OnlyLocal == UNCHANGED <<cluster, effects>>

Goto(pc) == cmd' = [cmd EXCEPT !.pc = pc] /\ OnlyLocal

-----------------------------------------------------------------------------
(* How a command ends                                                      *)

Ended(exit, rows) == [cmd EXCEPT !.pc = "ended", !.exit = exit, !.rows = rows]

\* CommandError::exit of every error that is not a refusal or a usage error.
Fail == cmd' = Ended("failure", {}) /\ OnlyLocal

Usage == cmd' = Ended("usage", {}) /\ OnlyLocal

FromFailed(failed) == IF failed THEN "failure" ELSE "success"

\* The report is written.  A reader that has gone is no failure; any other
\* error of stdout is, and then no row can be relied on.
Report(rows, failed) ==
    /\ cmd' \in {Ended(FromFailed(failed), rows), Ended("failure", {})}
    /\ OnlyLocal

Row(what, ok) == [what |-> what, ok |-> ok]

RowsOf(reply) == {Row(x, reply[x] = "ok") : x \in DOMAIN reply}

AnyFailed(rows) == \E r \in rows : ~r.ok

\* (fault) the rows that the command has so far are its report.
CancelWithRows ==
    /\ cmd.pc # "ended"
    /\ cmd' = Ended("cancelled", cmd.rows)
    /\ OnlyLocal

\* Ctrl-C drops the command where it stands.  A request in flight may or may
\* not have reached the broker.
Cancel ==
    /\ cmd.pc # "ended"
    /\ cmd' = Ended("cancelled", {})
    /\ OnlyLocal

-----------------------------------------------------------------------------
(* What commands do                                                        *)

\* A request that only reads, or the connect, may fail.
Call(pc, seen) ==
    \/ cmd' = [cmd EXCEPT !.pc = pc, !.seen = seen] /\ OnlyLocal
    \/ Fail

Connect(kinds) == At(kinds, "connect") /\ Call("connected", cmd.seen)

\* confirm_with.  Under --yes nothing is asked; a stdin that is no terminal
\* refuses; anything but a yes declines.
Confirm(impact, pc) ==
    LET agree == cmd' = [cmd EXCEPT !.pc = pc, !.agreed = impact] /\ OnlyLocal
    IN  IF line.yes THEN agree
        ELSE IF ~line.tty THEN Usage
        ELSE agree \/ (cmd' = Ended("cancelled", {}) /\ OnlyLocal)

\* A mutating request is carried out with the outcomes of reply.  The answer
\* may be lost, and the command may be cancelled before it has it.
Sent(asked, reply, pc) ==
    /\ effects' = effects \cup {x \in DOMAIN reply : reply[x] = "ok"}
    /\ \E next \in {pc, "lost"} :
         cmd' = [cmd EXCEPT !.pc = next, !.asked = asked, !.reply = reply]

\* A command that does not look into the error of its call fails with it.
Lost(lookInto) == cmd.pc = "lost" /\ line.kind \notin lookInto /\ Fail

Stay == cmd.pc = "ended" /\ UNCHANGED <<cmd, cluster, effects>>
=============================================================================
