------------------------- MODULE RuntimeFlagsProofs -------------------------
(***************************************************************************)
(* The poller of RuntimeFlags never takes stale flags for good, for any    *)
(* number of threads, toggles and versions of the file.                    *)
(*                                                                         *)
(* NeverStaleForGood is not inductive: it says nothing while a thread      *)
(* reloads.  What carries it is that the lock admits one thread between    *)
(* reading the file and handing over what it read, so that the thread that *)
(* comes last brings the newest version.                                   *)
(***************************************************************************)
EXTENDS RuntimeFlags, TLAPS

USE FlagsAssumption DEF NoFile, Nobody

\* The lock is held by the thread that is between reading and assigning.
LockHeld == \A th \in Thread : lock = th <=> at[th] \in {"read", "assign"}

\* When the noted time is that of the file, some thread has yet to read it, or
\* the last one has read it, or the poller has it.
Noted ==
    lastMtime = mtime /\ mtime # NoFile =>
        \/ \E th \in Thread : at[th] \in {"acquire", "read"}
        \/ \E th \in Thread : at[th] = "assign" /\ read[th] = Load
        \/ Reloading = {} /\ flags = Load

\* The inductive invariant.
IInv == TypeOK /\ LockHeld /\ Noted

\* What load returns is always flags, whatever is in the file.
LEMMA LoadIsFlags == TypeOK => Load \in Flags /\ Defaults \in Flags
  BY DEF TypeOK, Load, Flags, Defaults

\* The initial states satisfy the invariant.
LEMMA InitInv == Init => IInv
<1> SUFFICES ASSUME Init PROVE IInv
  OBVIOUS
<1>0. Defaults \in Flags
  BY DEF Defaults, Flags
<1>1. PICK th \in Thread : at = Booting(th)
  BY DEF Init
<1>2. TypeOK
  <2>1. at \in [Thread -> {"idle", "stat", "compare", "acquire", "read", "assign"}]
    BY <1>1 DEF Booting
  <2>2. writes = 0 /\ 0 \in 0..MaxWrites
    BY DEF Init
  <2>3. /\ got \in [Thread -> 0..(writes - 1) \cup {NoFile}]
        /\ read \in [Thread -> Flags]
    BY <1>0 DEF Init
  <2>4. /\ content \in Flags /\ sound \in BOOLEAN
        /\ mtime \in 0..(writes - 1) \cup {NoFile}
        /\ patching \in BOOLEAN /\ copy \in Flags
        /\ lastMtime \in 0..(writes - 1) \cup {NoFile} /\ flags \in Flags
        /\ lock \in Thread \cup {Nobody}
    BY <1>0 DEF Init
  <2> QED
    BY <2>1, <2>2, <2>3, <2>4 DEF TypeOK
<1>3. LockHeld
  BY <1>1 DEF Init, LockHeld, Booting
<1>4. Noted
  BY DEF Init, Noted
<1> QED
  BY <1>2, <1>3, <1>4 DEF IInv

\* A new version of the file has a time that nobody has noted.
LEMMA WriteInv ==
  ASSUME IInv, NEW c \in Flags, NEW ok \in BOOLEAN, Write(c, ok),
         UNCHANGED poller, patching' \in BOOLEAN, copy' \in Flags
  PROVE  IInv'
<1> USE DEF IInv, Write, poller
<1>1. TypeOK'
  BY DEF TypeOK
<1>2. LockHeld'
  BY DEF LockHeld
<1>3. lastMtime' # mtime'
  BY DEF TypeOK
<1>4. Noted'
  BY <1>3 DEF Noted
<1> QED
  BY <1>1, <1>2, <1>4

\* A step of the poller's threads that leaves the file alone keeps what load
\* would return.
LEMMA SameLoad == UNCHANGED file => Load' = Load
  BY DEF file, Load

\* Every step preserves the invariant.
LEMMA NextInv == IInv /\ [Next]_vars => IInv'
<1> SUFFICES ASSUME IInv, [Next]_vars PROVE IInv'
  OBVIOUS
<1> USE DEF IInv
<1>0. Load \in Flags /\ Defaults \in Flags
  BY LoadIsFlags
<1>1. CASE DashboardLoad
  <2>1. TypeOK'
    BY <1>0, <1>1 DEF DashboardLoad, TypeOK, file, poller
  <2>2. LockHeld' /\ Noted'
    BY <1>1 DEF DashboardLoad, LockHeld, Noted, Reloading, Load, file, poller
  <2> QED
    BY <2>1, <2>2
<1>2. CASE DashboardSave
  <2>1. \A x \in Toggle, on \in BOOLEAN : Toggled(x, on) \in Flags
    BY DEF Toggled, TypeOK, Flags
  <2>2. \A on \in BOOLEAN : Killed(on) \in Flags
    BY DEF Killed, TypeOK, Flags
  <2>3. patching' \in BOOLEAN /\ copy' \in Flags /\ UNCHANGED poller
    BY <1>2 DEF DashboardSave, TypeOK, poller
  <2>4. PICK c \in Flags : Write(c, TRUE)
    BY <1>2, <2>1, <2>2 DEF DashboardSave
  <2> QED
    BY <2>3, <2>4, WriteInv
<1>3. CASE HandEdit
  <2>1. patching' \in BOOLEAN /\ copy' \in Flags /\ UNCHANGED poller
    BY <1>3 DEF HandEdit, dash, poller, TypeOK
  <2>2. PICK c \in Flags, ok \in BOOLEAN : Write(c, ok)
    BY <1>3 DEF HandEdit
  <2> QED
    BY <2>1, <2>2, WriteInv
<1>4. CASE Remove
  <2>1. TypeOK'
    BY <1>4 DEF Remove, TypeOK, dash, poller
  <2>2. LockHeld' /\ Noted'
    BY <1>4 DEF Remove, LockHeld, Noted, dash, poller
  <2> QED
    BY <2>1, <2>2
<1>5. CASE DashboardRestart
  <2>1. TypeOK'
    BY <1>5 DEF DashboardRestart, TypeOK, file, poller
  <2>2. LockHeld' /\ Noted'
    BY <1>5 DEF DashboardRestart, LockHeld, Noted, Reloading, Load, file, poller
  <2> QED
    BY <2>1, <2>2
<1>6. ASSUME NEW th \in Thread, Get(th) \/ Stat(th) PROVE IInv'
  <2> USE <1>6 DEF Get, Stat, Goto
  <2>1. TypeOK'
    BY DEF TypeOK, file, dash
  <2>2. LockHeld'
    BY DEF LockHeld, TypeOK, file, dash
  <2>3. Reloading' = Reloading
    BY DEF Reloading, TypeOK
  <2>4. Load' = Load
    BY SameLoad
  <2>5. Noted'
    BY <2>3, <2>4 DEF Noted, TypeOK, file
  <2> QED
    BY <2>1, <2>2, <2>5
<1>7. ASSUME NEW th \in Thread, Compare(th) PROVE IInv'
  <2> USE <1>7 DEF Compare, Goto
  <2>1. TypeOK'
    BY DEF TypeOK, file, dash
  <2>2. LockHeld'
    BY DEF LockHeld, TypeOK
  <2>3. CASE Changed(th)
    <3>1. at'[th] = "acquire"
      BY <2>3 DEF TypeOK
    <3> QED
      BY <2>1, <2>2, <3>1 DEF Noted
  <2>4. CASE ~Changed(th)
    <3>1. Reloading' = Reloading
      BY <2>4 DEF Reloading, TypeOK
    <3>2. Load' = Load
      BY SameLoad
    <3>3. Noted'
      BY <2>4, <3>1, <3>2 DEF Noted, TypeOK, file
    <3> QED
      BY <2>1, <2>2, <3>3
  <2> QED
    BY <2>3, <2>4
<1>8. ASSUME NEW th \in Thread, Acquire(th) PROVE IInv'
  <2> USE <1>8 DEF Acquire, Goto, Free
  <2>1. TypeOK'
    BY DEF TypeOK, file, dash
  <2>2. LockHeld'
    BY DEF LockHeld, TypeOK
  <2>3. at'[th] = "read"
    BY DEF TypeOK
  <2> QED
    BY <2>1, <2>2, <2>3 DEF Noted
<1>9. ASSUME NEW th \in Thread, ReadFile(th) PROVE IInv'
  <2> USE <1>9 DEF ReadFile, Goto
  <2>1. TypeOK'
    BY <1>0 DEF TypeOK, file, dash
  <2>2. LockHeld'
    BY DEF LockHeld, TypeOK
  <2>3. at'[th] = "assign" /\ read'[th] = Load'
    BY SameLoad DEF TypeOK
  <2> QED
    BY <2>1, <2>2, <2>3 DEF Noted
<1>10. ASSUME NEW th \in Thread, Assign(th) PROVE IInv'
  <2> USE <1>10 DEF Assign, Goto
  <2>1. TypeOK'
    BY DEF TypeOK, file, dash
  <2>2. LockHeld'
    BY DEF LockHeld, TypeOK
  <2>3. Load' = Load
    BY SameLoad
  \* nobody else is between reading and assigning
  <2>4. \A u \in Thread : u # th => at[u] \notin {"read", "assign"} /\ at'[u] = at[u]
    BY DEF LockHeld, TypeOK
  <2>5. Noted'
    <3> SUFFICES ASSUME lastMtime = mtime, mtime # NoFile,
                        ~\E u \in Thread : at'[u] \in {"acquire", "read"}
                 PROVE  Reloading' = {} /\ flags' = Load
      BY <2>3 DEF Noted, file
    <3>1. ~\E u \in Thread : at[u] \in {"acquire", "read"}
      BY <2>4
    <3>2. th \in Reloading
      BY DEF Reloading
    <3>3. PICK u \in Thread : at[u] = "assign" /\ read[u] = Load
      BY <3>1, <3>2 DEF Noted
    <3>4. u = th
      BY <2>4, <3>3
    <3>5. Reloading' = {}
      BY <2>4, <3>1 DEF Reloading, TypeOK
    <3> QED
      BY <3>3, <3>4, <3>5
  <2> QED
    BY <2>1, <2>2, <2>5
<1>11. ASSUME NEW th \in Thread, RunnerRestart(th) PROVE IInv'
  <2> USE <1>11 DEF RunnerRestart, Booting
  <2>1. TypeOK'
    BY <1>0 DEF TypeOK, file, dash
  <2>2. LockHeld'
    BY DEF LockHeld
  <2>3. Noted'
    BY DEF Noted
  <2> QED
    BY <2>1, <2>2, <2>3
<1>12. CASE UNCHANGED vars
  <2>1. TypeOK'
    BY <1>12 DEF vars, file, dash, poller, TypeOK
  <2>2. LockHeld' /\ Noted'
    BY <1>12 DEF vars, file, dash, poller, LockHeld, Noted, Reloading, Load
  <2> QED
    BY <2>1, <2>2
<1> QED
  BY <1>1, <1>2, <1>3, <1>4, <1>5, <1>6, <1>7, <1>8, <1>9, <1>10, <1>11, <1>12
  DEF Next, Refresh

\* The invariant holds in every reachable state.
THEOREM Invariant == Spec => []IInv
<1> QED
  BY InitInv, NextInv, PTL DEF Spec

\* The variables of the flags file, the dashboard and the poller keep their
\* types: whatever an operator leaves in the file, load returns flags.
THEOREM TypeCorrect == Spec => []TypeOK
<1>1. IInv => TypeOK
  BY DEF IInv
<1> QED
  BY <1>1, Invariant, PTL

\* The poller never holds on to stale flags: when it has noted the time of the
\* file and no thread is reloading, it has what the file says (_refresh, get).
THEOREM NoStaleFlags == Spec => []NeverStaleForGood
<1>1. IInv => NeverStaleForGood
  <2> SUFFICES ASSUME IInv, lastMtime = mtime, mtime # NoFile, Reloading = {}
               PROVE  flags = Load
    BY DEF NeverStaleForGood
  <2>1. \A th \in Thread : at[th] \notin {"acquire", "read", "assign"}
    BY DEF Reloading
  <2> QED
    BY <2>1 DEF IInv, Noted
<1> QED
  BY <1>1, Invariant, PTL
=============================================================================
