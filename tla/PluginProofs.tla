---------------------------- MODULE PluginProofs ----------------------------
(***************************************************************************)
(* That krabka never leaves a plugin behind, for every PATH, any number of *)
(* signals and any changes of files during the search.                     *)
(***************************************************************************)
EXTENDS Plugin, TLAPS

\* The provers of a step that names none, and the seconds each has.
USE ZenonT(10), SMTT(20)

Searching == {"start", "look", "mode", "register", "spawn"}

\* Why no signal can end krabka before its plugin: from the spawn on all three
\* have a handler, and before the spawn there is no plugin.
Inv ==
    /\ TypeOK
    /\ pc = "mode" => at \in 1..Len(Path) /\ Path[at] \in Dirs
    /\ pc \in {"register", "spawn"} => binary \in Dirs
    /\ pc \in {"start", "look", "mode"} => handled = {}
    /\ pc = "register" => handled \in {{}, {"INT"}, {"INT", "QUIT"}}
    /\ pc \in {"spawn", "watch"} => handled = Signals
    /\ pc \in Searching => plugin.st = "none"
    /\ pc = "watch" => plugin.st \in {"running", "ended"}
    /\ pc = "done" => plugin.st \in {"none", "reaped"}
    /\ plugin.st \in {"ended", "reaped"} => plugin.how \in Statuses
    /\ pc = "done" /\ plugin.st = "reaped" => exit = plugin.how

LEMMA InitInv == Init => Inv
BY SMTT(20), PathIsList, BoundsAreNat DEF Init, Inv, TypeOK, Searching, Signals

LEMMA NextInv == Inv /\ [Next]_vars => Inv'
<1> SUFFICES ASSUME Inv, [Next]_vars PROVE Inv'
  OBVIOUS
<1> USE PathIsList, BoundsAreNat DEF Inv, TypeOK, Searching, search, disk, Leave, Exits
<1>1. CASE Start
  BY SMTT(20), <1>1 DEF Start
<1>2. CASE Look
  BY SMTT(20), <1>2 DEF Look, Dirs
<1>3. CASE Mode
  BY SMTT(20), <1>3 DEF Mode
<1>4. CASE Unresolved
  BY SMTT(20), <1>4 DEF Unresolved
<1>5. CASE Register
  BY SMTT(20), <1>5 DEF Register, Signals
<1>6. CASE Spawn
  BY SMTT(20), <1>6 DEF Spawn
<1>7. CASE Wait
  BY <1>7 DEF Wait
<1>8. ASSUME NEW s \in Signals, Ignore(s) PROVE Inv'
  BY SMTT(20), <1>8 DEF Ignore
<1>9. CASE Forward
  BY SMTT(20), <1>9 DEF Forward, Signals
<1>10. ASSUME NEW s \in Signals, Send(s) PROVE Inv'
  BY SMTT(20), <1>10 DEF Send, Arrive
<1>11. ASSUME NEW s \in Signals, PluginActs(s) PROVE Inv'
  BY SMTT(20), <1>11 DEF PluginActs, Statuses
<1>12. ASSUME NEW c \in Codes, PluginEnds(c) PROVE Inv'
  BY <1>12 DEF PluginEnds, Statuses
<1>13. ASSUME NEW d \in Dirs, NEW f \in {"absent", "plain", "exec"}, Edit(d, f) PROVE Inv'
  BY SMTT(20), <1>13 DEF Edit
<1>14. CASE UNCHANGED vars
  BY SMTT(20), <1>14 DEF vars
<1> QED
  BY ZenonT(60), <1>1, <1>2, <1>3, <1>4, <1>5, <1>6, <1>7, <1>8, <1>9, <1>10, <1>11, <1>12, <1>13, <1>14
  DEF Next, Krabka, Ended

\* external.rs: whatever signals arrive and whenever they do, krabka ends only
\* before its plugin is spawned or after it was reaped, and then as the plugin
\* ended; it forwards SIGTERM only to a child that it has not reaped.
THEOREM Owns == Spec => []OwnsThePlugin
<1>1. Inv => OwnsThePlugin
  BY DEF Inv, OwnsThePlugin
<1> QED
  BY <1>1, InitInv, NextInv, PTL DEF Spec

-----------------------------------------------------------------------------
(* The search                                                              *)

\* A file that was executable all along is executable now, so that the search
\* has not passed it.
SearchInv ==
    /\ \A d \in always : files[d] = "exec"
    /\ binary # None => at \in 1..Len(Path) /\ binary = Path[at]
    /\ pc \in {"start", "look", "mode"} => binary = None
    /\ pc # "done" => exit = None
    /\ FindsWhatIsThere

LEMMA SearchInit == Init => SearchInv
BY SMTT(20), PathIsList, NoneIsNothing DEF Init, SearchInv, FindsWhatIsThere, Exits

LEMMA SearchNext == Inv /\ SearchInv /\ [Next]_vars => SearchInv'
<1> SUFFICES ASSUME Inv, SearchInv, [Next]_vars PROVE SearchInv'
  OBVIOUS
<1> USE PathIsList, NoneIsNothing DEF Inv, TypeOK, SearchInv, FindsWhatIsThere, search, disk, Leave
<1>1. CASE Start
  BY SMTT(20), <1>1 DEF Start
<1>2. CASE Look
  <2>1. CASE Path[at] \in always
    BY SMTT(20), <1>2, <2>1 DEF Look, Dirs
  <2>2. CASE Path[at] \notin always
    BY SMTT(20), <1>2, <2>2 DEF Look
  <2> QED
    BY <2>1, <2>2
<1>3. CASE Mode
  BY SMTT(20), <1>3 DEF Mode
<1>4. CASE Unresolved
  BY SMTT(20), <1>4 DEF Unresolved
<1>5. CASE Register \/ Spawn
  BY SMTT(20), <1>5 DEF Register, Spawn
<1>6. CASE Wait
  BY SMTT(20), <1>6 DEF Wait, Statuses
<1>7. ASSUME NEW s \in Signals, Ignore(s) \/ PluginActs(s) PROVE SearchInv'
  BY SMTT(20), <1>7 DEF Ignore, PluginActs
<1>8. CASE Forward
  BY <1>8 DEF Forward
<1>9. ASSUME NEW s \in Signals, Send(s) PROVE SearchInv'
  BY SMTT(20), <1>9 DEF Send, Arrive
<1>10. ASSUME NEW c \in Codes, PluginEnds(c) PROVE SearchInv'
  BY <1>10 DEF PluginEnds
<1>11. ASSUME NEW d \in Dirs, NEW f \in {"absent", "plain", "exec"}, Edit(d, f)
       PROVE  SearchInv'
  BY <1>11 DEF Edit
<1>12. CASE UNCHANGED vars
  BY <1>12 DEF vars
<1> QED
  BY SMTT(20), <1>1, <1>2, <1>3, <1>4, <1>5, <1>6, <1>7, <1>8, <1>9, <1>10, <1>11, <1>12
  DEF Next, Krabka, Ended

\* The README's lookup rule for every PATH: a plugin that was executable all
\* along is not passed over for a later one and not reported as missing,
\* whatever is installed and removed around it during the search.
THEOREM Finds == Spec => []FindsWhatIsThere
<1>1. SearchInv => FindsWhatIsThere
  BY DEF SearchInv
<1> QED
  BY <1>1, InitInv, NextInv, SearchInit, SearchNext, PTL DEF Spec
=============================================================================
