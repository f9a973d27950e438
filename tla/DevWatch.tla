------------------------------- MODULE DevWatch -------------------------------
(***************************************************************************)
(* The backend's watch loop, scripts/dev-watch.mjs: edits noticed by       *)
(* fs.watch, which may fall silent, and by a poll of the files' hashes; a  *)
(* debounced rebuild; and the app, stopped before a build and started      *)
(* after it.                                                               *)
(*                                                                         *)
(* The build is synchronous: nothing of the loop runs while it does, but   *)
(* files change and processes die.  The tree is its content, so an edit    *)
(* taken back is the tree as it was.  stopApp() also looks whether its     *)
(* process has exited already; the exit handler has forgotten such a one,  *)
(* so that look finds nothing and is left out.                             *)
(***************************************************************************)
EXTENDS Naturals, FiniteSets

CONSTANTS
    Contents,  \* what the watched files can hold
    Pids,      \* bound on processes there are at once
    None,      \* no process
    Polling,   \* POLL_MS > 0, as it is by default
    MaxEdits,  \* bound on edits
    MaxStuck   \* bound on processes no signal ends in time

VARIABLES
    tree, edits,
    broken,        \* contents that do not compile
    read,          \* what the last build has read
    torn,          \* history: the build's fingerprint is not of what it read
    fingerprint,
    event,         \* fs.watch has something to deliver
    timer,         \* the debounce timer is set
    main,          \* "initial", "watching" or "exited"
    pc,            \* rebuild(): "idle", "stopping", "building", "built"
    pendingRebuild,
    dying,         \* the process rebuild() waits for
    stopping,      \* the process the signal's handler waits for; "no" before a signal
    child,
    alive, stuck, abandoned,
    exits          \* exits nobody has been told of

treeVars == <<tree, edits, broken>>
noticeVars == <<fingerprint, event, timer>>
loopVars == <<read, torn, main, pc, pendingRebuild, dying, stopping, child>>
processVars == <<alive, stuck, abandoned, exits>>

vars == <<treeVars, noticeVars, loopVars, processVars>>

Init ==
    /\ tree \in Contents /\ edits = 0 /\ broken \in SUBSET Contents
    /\ read = tree /\ torn = FALSE
    /\ fingerprint = tree /\ event = FALSE /\ timer = FALSE
    /\ main = "initial" /\ pc = "building" /\ pendingRebuild = FALSE
    /\ dying = None /\ stopping = "no" /\ child = None
    /\ alive = {} /\ stuck = {} /\ abandoned = {} /\ exits = {}

(* The loop runs callbacks. *)
Free == main # "exited" /\ pc \in {"idle", "stopping"}

-----------------------------------------------------------------------------
(* Somebody saves a file; fs.watch may tell, once it is installed. *)
Edit(content) ==
    /\ edits < MaxEdits /\ content # tree
    /\ tree' = content /\ edits' = edits + 1
    /\ event' \in IF main = "watching" THEN {event, TRUE} ELSE {FALSE}
    /\ UNCHANGED <<broken, fingerprint, timer, loopVars, processVars>>

Event ==
    /\ Free /\ main = "watching" /\ event
    /\ event' = FALSE /\ timer' = TRUE
    /\ UNCHANGED <<treeVars, fingerprint, loopVars, processVars>>

Noticed == timer \/ fingerprint # tree

Poll ==
    /\ Free /\ main = "watching" /\ Polling /\ pc = "idle"
    /\ fingerprint' = tree
    /\ timer' = Noticed
    /\ UNCHANGED <<treeVars, event, loopVars, processVars>>

-----------------------------------------------------------------------------
(* stopApp() in rebuild(), of the child there is. *)
StopThenBuild(app) ==
    /\ child' = None /\ dying' = app
    /\ pc' = IF app = None THEN "building" ELSE "stopping"

Building == pc = "stopping"

Fire ==
    /\ Free /\ timer
    /\ timer' = FALSE /\ fingerprint' = tree
    /\ IF Building
       THEN pendingRebuild' = TRUE /\ UNCHANGED <<pc, dying, child>>
       ELSE StopThenBuild(child) /\ UNCHANGED pendingRebuild
    /\ UNCHANGED <<treeVars, event, read, torn, main, stopping, processVars>>

(* The compiler reads the files. *)
Compile ==
    /\ pc = "building" /\ main # "exited"
    /\ pc' = "built" /\ read' = tree
    /\ torn' = (main = "watching" /\ fingerprint # tree)
    /\ UNCHANGED <<treeVars, noticeVars, main, pendingRebuild, dying, stopping, child,
                   processVars>>

(* startApp(), which may find it cannot. *)
StartApp(p) ==
    /\ p \notin alive \cup exits \cup abandoned
    /\ read \notin broken
    /\ alive' = alive \cup {p}
    /\ stuck' \in {stuck \ {p}} \cup
                  (IF Cardinality(stuck \cap alive) < MaxStuck THEN {stuck \cup {p}} ELSE {})

(* The build's end, rebuild()'s finally, which may stop the app at once, and after
   the first build the rest of the module, which takes the fingerprint of what is
   there by now. *)
BuildEnds ==
    /\ pc = "built" /\ main # "exited"
    /\ \E app \in Pids \cup {None} :
          /\ IF app = None THEN UNCHANGED <<alive, stuck>> ELSE StartApp(app)
          /\ IF pendingRebuild THEN StopThenBuild(app)
             ELSE child' = app /\ pc' = "idle" /\ UNCHANGED dying
    /\ pendingRebuild' = FALSE
    /\ main' = "watching"
    /\ IF main = "initial" THEN fingerprint' = tree /\ torn' = (read # tree)
       ELSE UNCHANGED <<fingerprint, torn>>
    /\ UNCHANGED <<treeVars, event, timer, read, stopping, abandoned, exits>>

-----------------------------------------------------------------------------
(* An app ends, on a signal or of itself. *)
Die(p) ==
    /\ p \in alive
    /\ alive' = alive \ {p} /\ exits' = exits \cup {p}
    /\ UNCHANGED <<treeVars, noticeVars, loopVars, stuck, abandoned>>

Forgotten(p) == IF child = p THEN None ELSE child

Exit(p) ==
    /\ Free /\ p \in exits
    /\ exits' = exits \ {p} /\ abandoned' = abandoned \ {p}
    /\ child' = Forgotten(p)
    /\ pc' = IF pc = "stopping" /\ dying = p THEN "building" ELSE pc
    /\ main' = IF stopping = p THEN "exited" ELSE main
    /\ UNCHANGED <<treeVars, noticeVars, read, torn, pendingRebuild, dying, stopping,
                   alive, stuck>>

(* Variant: nobody gives up on a process. *)
Never(p) == FALSE

Overdue(p) == p \in alive \cap stuck

(* The deadline, for a process no signal has ended. *)
Abandon(p) ==
    /\ Free /\ Overdue(p)
    /\ \/ pc = "stopping" /\ dying = p /\ pc' = "building" /\ UNCHANGED main
       \/ stopping = p /\ main' = "exited" /\ UNCHANGED pc
    /\ abandoned' = abandoned \cup {p}
    /\ UNCHANGED <<treeVars, noticeVars, read, torn, pendingRebuild, dying, stopping, child,
                   alive, stuck, exits>>

(* SIGTERM or SIGINT: stopApp(), then exit. *)
Signal ==
    /\ Free /\ main = "watching" /\ stopping = "no"
    /\ stopping' = child /\ child' = None
    /\ main' = IF child = None THEN "exited" ELSE main
    /\ UNCHANGED <<treeVars, noticeVars, read, torn, pc, pendingRebuild, dying, processVars>>

Next ==
    \/ \E c \in Contents : Edit(c)
    \/ Event \/ Poll \/ Fire \/ Compile \/ BuildEnds \/ Signal
    \/ \E p \in Pids : Die(p) \/ Exit(p) \/ Abandon(p)

(* The process rebuild() waits for is one that its signals do end. *)
Signalled(p) == pc = "stopping" /\ dying = p /\ p \notin stuck /\ Die(p)

(* Timers fire, builds end, a signalled process dies or is given up on. *)
Fairness ==
    /\ WF_vars(Poll) /\ WF_vars(Fire) /\ WF_vars(Compile) /\ WF_vars(BuildEnds)
    /\ \A p \in Pids :
          /\ WF_vars(Signalled(p)) /\ WF_vars(Exit(p)) /\ WF_vars(Abandon(p))

Spec == Init /\ [][Next]_vars /\ Fairness

-----------------------------------------------------------------------------
(***************************************************************************)
(* With fs.watch silent and an app that no signal ends, what is in the     *)
(* tree comes to be what was last built, while the loop runs and polls.    *)
(* Two edits escape: one made while the first build runs, after the        *)
(* compiler has read the file, and one made between the fingerprint and    *)
(* the compiler and taken back before the next poll.                       *)
(***************************************************************************)
EditsBuilt == <>[](read = tree \/ torn \/ ~Polling \/ main = "exited")

(* No two apps run at once, the one given up on aside, until a signal comes. *)
OneApp == stopping = "no" => \A p, q \in alive \ abandoned : p = q
===============================================================================
