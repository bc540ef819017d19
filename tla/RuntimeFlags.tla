---------------------------- MODULE RuntimeFlags ----------------------------
(***************************************************************************)
(* src/runtime_flags.py: the flags file, the dashboard handlers that load, *)
(* patch and save it, and the FlagsPoller through which the threads of the *)
(* runner read it.                                                         *)
(*                                                                         *)
(* The handlers are coroutines without an await between load and save, so  *)
(* the dashboard has one patch in progress at a time; the operator who     *)
(* edits the file by hand does not wait for it.  Two versions of the file  *)
(* never have the same modification time.                                  *)
(***************************************************************************)
EXTENDS Integers

CONSTANTS
    Thread,     \* threads of the runner that call get()
    Toggle,     \* the assets and strategies of the scan, strategy and execution toggles
    MaxWrites,  \* bound on the number of versions of the file
    ByHand      \* whether the operator edits or removes the file

ASSUME FlagsAssumption ==
    /\ MaxWrites \in Nat /\ ByHand \in BOOLEAN
    /\ \A th \in Thread : th # "nobody"

Flags    == [kill : BOOLEAN, off : SUBSET Toggle]
Defaults == [kill |-> FALSE, off |-> {}]
NoFile   == -1
Nobody   == "nobody"

VARIABLES
    \* the file
    content,  \* what it says
    sound,    \* it parses
    mtime,    \* its modification time, NoFile if there is none
    writes,   \* versions so far
    \* the dashboard
    patching, copy,  \* a handler is between load and save, with what it loaded
    \* the poller
    lastMtime, flags,  \* _last_mtime, _flags
    lock,              \* holder of _lock
    at,                \* where each thread is in _refresh
    got,               \* the mtime it saw
    read               \* what load returned to it

file   == <<content, sound, mtime, writes>>
dash   == <<patching, copy>>
poller == <<lastMtime, flags, lock, at, got, read>>
vars   == <<file, dash, poller>>

\* load: a file that is missing or does not parse counts as the defaults.
Load_NotMerged == IF mtime = NoFile THEN Defaults ELSE IF sound THEN content ELSE [off |-> {}]
Load == IF mtime # NoFile /\ sound THEN content ELSE Defaults

\* The runner starts with a forced refresh; until it is over nobody calls get.
Booting(th) == [t \in Thread |-> IF t = th THEN "stat" ELSE "idle"]

Init ==
    /\ content = Defaults /\ sound = TRUE /\ mtime = NoFile /\ writes = 0
    /\ patching = FALSE /\ copy = Defaults
    /\ lastMtime = NoFile /\ flags = Defaults /\ lock = Nobody
    /\ \E th \in Thread : at = Booting(th)
    /\ got = [t \in Thread |-> NoFile] /\ read = [t \in Thread |-> Defaults]

-----------------------------------------------------------------------------
(* The writers                                                             *)

\* os.replace and a save of the operator's editor alike: a new version.
Write(c, ok) ==
    /\ writes < MaxWrites
    /\ writes' = writes + 1 /\ mtime' = writes
    /\ content' = c /\ sound' = ok

DashboardLoad ==
    /\ ~patching
    /\ patching' = TRUE /\ copy' = Load
    /\ UNCHANGED <<file, poller>>

\* apply_dashboard_patch over what was loaded: one toggle, or the kill switch
\* in either direction.
Toggled(x, on) == [copy EXCEPT !.off = IF on THEN @ \ {x} ELSE @ \cup {x}]
Killed(on)     == [copy EXCEPT !.kill = on]

DashboardSave ==
    /\ patching
    /\ \/ \E x \in Toggle, on \in BOOLEAN : Write(Toggled(x, on), TRUE)
       \/ \E on \in BOOLEAN : Write(Killed(on), TRUE)
    /\ patching' = FALSE
    /\ UNCHANGED <<copy, poller>>

HandEdit ==
    /\ ByHand
    /\ \E c \in Flags, ok \in BOOLEAN : Write(c, ok)
    /\ UNCHANGED <<dash, poller>>

Remove ==
    /\ ByHand /\ mtime # NoFile
    /\ mtime' = NoFile
    /\ UNCHANGED <<content, sound, writes, dash, poller>>

-----------------------------------------------------------------------------
(* FlagsPoller                                                             *)

Goto(th, where) == at' = [at EXCEPT ![th] = where]

\* get, when interval_s has passed since the last check.
Get(th) ==
    /\ at[th] = "idle"
    /\ Goto(th, "stat")
    /\ UNCHANGED <<file, dash, lastMtime, flags, lock, got, read>>

Stat(th) ==
    /\ at[th] = "stat"
    /\ got' = [got EXCEPT ![th] = mtime]
    /\ Goto(th, "compare")
    /\ UNCHANGED <<file, dash, lastMtime, flags, lock, read>>

Changed_Once(th) == lastMtime = NoFile /\ got[th] # NoFile
Changed(th) == got[th] # lastMtime

\* The new time is noted before the file is read.
Compare(th) ==
    /\ at[th] = "compare"
    /\ IF Changed(th) THEN lastMtime' = got[th] /\ Goto(th, "acquire")
                      ELSE UNCHANGED lastMtime /\ Goto(th, "idle")
    /\ UNCHANGED <<file, dash, flags, lock, got, read>>

Free_Always == TRUE
Free == lock = Nobody

Acquire(th) ==
    /\ at[th] = "acquire" /\ Free
    /\ lock' = th
    /\ Goto(th, "read")
    /\ UNCHANGED <<file, dash, lastMtime, flags, got, read>>

ReadFile(th) ==
    /\ at[th] = "read"
    /\ read' = [read EXCEPT ![th] = Load]
    /\ Goto(th, "assign")
    /\ UNCHANGED <<file, dash, lastMtime, flags, lock, got>>

Assign(th) ==
    /\ at[th] = "assign"
    /\ flags' = read[th]
    /\ lock' = Nobody
    /\ Goto(th, "idle")
    /\ UNCHANGED <<file, dash, lastMtime, got, read>>

\* The runner is started again: a new poller.
RunnerRestart(th) ==
    /\ lastMtime' = NoFile /\ flags' = Defaults /\ lock' = Nobody
    /\ at' = Booting(th)
    /\ UNCHANGED <<file, dash, got, read>>

\* The dashboard dies between load and save.
DashboardRestart ==
    /\ patching /\ patching' = FALSE
    /\ UNCHANGED <<file, copy, poller>>

Refresh(th) == Stat(th) \/ Compare(th) \/ Acquire(th) \/ ReadFile(th) \/ Assign(th)

Next ==
    \/ DashboardLoad \/ DashboardSave \/ HandEdit \/ Remove \/ DashboardRestart
    \/ \E th \in Thread : Get(th) \/ Refresh(th) \/ RunnerRestart(th)

Spec == Init /\ [][Next]_vars

\* A thread of the runner polls on every turn of its loop.
FairSpec == Spec /\ \A th \in Thread : WF_vars(Get(th)) /\ WF_vars(Refresh(th))
-----------------------------------------------------------------------------
\* The type of every variable.
TypeOK ==
    /\ content \in Flags /\ sound \in BOOLEAN /\ writes \in 0..MaxWrites
    /\ mtime \in 0..(writes - 1) \cup {NoFile}
    /\ patching \in BOOLEAN /\ copy \in Flags
    /\ lastMtime \in 0..(writes - 1) \cup {NoFile} /\ flags \in Flags
    /\ lock \in Thread \cup {Nobody}
    /\ at \in [Thread -> {"idle", "stat", "compare", "acquire", "read", "assign"}]
    /\ got \in [Thread -> 0..(writes - 1) \cup {NoFile}]
    /\ read \in [Thread -> Flags]

Reloading == {th \in Thread : at[th] \in {"acquire", "read", "assign"}}

\* Flags that have gone stale are always noticed: when the noted time is that of
\* the file and no thread is reloading, the poller has what the file says, in
\* whatever order several threads and the writers took their steps.  Otherwise a
\* kill switch could be missed for ever.  (A file that is removed, written and
\* removed again while a thread reloads it can be: all absences look the same.)
NeverStaleForGood ==
    lastMtime = mtime /\ mtime # NoFile /\ Reloading = {} => flags = Load

\* "so reads from worker threads are safe": once the file is there to stay, the
\* poller comes to what it says, unless the runner is restarted for ever.
CatchesUp ==
    /\ <>[][\A th \in Thread : ~RunnerRestart(th)]_vars
    /\ <>[](mtime # NoFile)
    => <>[](flags = Load)

\* Module docstring: "The dashboard cannot flip it back to false from the UI";
\* apply_dashboard_patch: "can only be flipped true".
KillStays == [][content.kill => content'.kill]_vars
=============================================================================
