------------------------------ MODULE Handles -------------------------------
(***************************************************************************)
(* Handle tables, the named-object list and the life of an HDATA           *)
(* (NK/KERNEL/handle.c), with the callers that count references by hand:   *)
(* DoPHDClose, OpenOrCreateSyncObject, APISCreateAPIHandle, MAPMapView.    *)
(*                                                                         *)
(* dwRefCnt is kept as its two halves, handles and locks.  An action is a  *)
(* stretch of code with at most one access to a count or a table that      *)
(* another thread can see: a region under csHndl or NameCS, or one         *)
(* interlocked operation.  An HDATA is used once; reuseCnt is left out: a  *)
(* caller may name any entry that is in use, its own or another's.         *)
(***************************************************************************)
EXTENDS Integers, FiniteSets

CONSTANTS
    Thread, Proc, Obj, None,
    NumSlots,       \* entries of a handle table
    PageSize,       \* of one page of it: NUM_HNDL_1ST, NUM_HNDL_2ND
    NameOf,         \* the name of an object, or None
    Class,          \* phd->pci->phdApiSet: the HDATA of its API set, or None
    PreClosing,     \* objects whose class has a pre-close method
    Multi,          \* objects that get handles by their HDATA: maps, ends of queues
    Choices,        \* the sets of objects that get created
    MaxHandles,     \* of an object: MAX_HANDLE_REF
    MaxRevived,     \* bound on the times an object gets a handle after its last
    MaxLeaked       \* bound on the locks that are never released

Slot == 1 .. NumSlots
Name == {NameOf[o] : o \in Obj} \ {None}

ASSUME HandlesAssumption ==
    /\ None \notin Thread \cup Proc \cup Obj
    /\ IsFiniteSet(Thread) /\ IsFiniteSet(Proc)
    /\ NumSlots \in Nat \ {0} /\ PageSize \in Nat \ {0}
    /\ \A o \in Obj : o \in DOMAIN NameOf /\ o \in DOMAIN Class
    /\ \A o \in Obj : Class[o] \in Obj \cup {None}
    \* API sets, like all named objects, are of a class of the kernel
    /\ \A o \in Obj : Class[o] # None => Class[Class[o]] = None /\ NameOf[o] = None
    /\ \A o \in Multi : o \in Obj /\ Class[o] = None
    /\ Choices \subseteq SUBSET Obj
    /\ MaxHandles \in Nat \ {0} /\ MaxRevived \in Nat /\ MaxLeaked \in Nat

VARIABLES
    table,          \* phndtbl->hde[].phd of each process
    tstate,         \* "open", "closing" (fClosing), "deleted" (no phndtbl)
    handles, locks, \* the high and the low word of dwRefCnt
    life,           \* "fresh", "live", "freed"
    nameList,       \* g_NameList
    \* of the call a thread is in
    pc,
    phd,
    api,            \* phdAPISet, to be released at the end of the call
    created,        \* HNDLCreateNamedHandle made phd
    phds,           \* the entries HNDLCloseAllHandles has taken
    prc, page,      \* the process and the page it is at; 0 outside it
    \* history
    preClosed,      \* calls of the pre-close method
    tornDown,       \* calls of the method that takes the object itself apart
    revived,        \* a handle came after the last one was closed
    leaked          \* locks nobody will release

objVars == <<handles, locks, life, nameList>>
callVars == <<pc, phd, api, created, phds, prc, page>>
history == <<preClosed, tornDown, revived, leaked>>
vars == <<table, tstate, objVars, callVars, history>>

Init ==
    /\ table = [p \in Proc |-> [s \in Slot |-> None]]
    /\ tstate = [p \in Proc |-> "open"]
    /\ handles = [o \in Obj |-> 0] /\ locks = [o \in Obj |-> 0]
    /\ \E made \in Choices : life = [o \in Obj |-> IF o \in made THEN "fresh" ELSE "freed"]
    /\ nameList = {}
    /\ pc = [t \in Thread |-> "idle"]
    /\ phd = [t \in Thread |-> None] /\ api = [t \in Thread |-> None]
    /\ created = [t \in Thread |-> FALSE]
    /\ phds = [t \in Thread |-> [s \in Slot |-> None]]
    /\ prc = [t \in Thread |-> None] /\ page = [t \in Thread |-> 0]
    /\ preClosed = [o \in Obj |-> 0] /\ tornDown = [o \in Obj |-> 0]
    /\ revived = [o \in Obj |-> 0] /\ leaked = [o \in Obj |-> 0]

-----------------------------------------------------------------------------
(* Helpers *)

Goto(t, label) == pc' = [pc EXCEPT ![t] = label]

Bump(count, o) == IF o = None THEN count ELSE [count EXCEPT ![o] = @ + 1]

FreeSlots(p) == {s \in Slot : table[p][s] = None}

\* HNDLAlloc also counts the entry with the API set of the object.
CountClassNever(count, o) == count
CountClass(count, o) == Bump(count, Class[o])

CanAllocWhenClosing(p, s) == tstate[p] # "deleted" /\ table[p][s] = None
CanAlloc(p, s) == tstate[p] = "open" /\ table[p][s] = None
NoAlloc(p) == tstate[p] # "open" \/ FreeSlots(p) = {}
Enter(p, s, o) == table' = [table EXCEPT ![p][s] = o]

\* What a call still has to do once it is done with phd.
ContinueNoApi(t, a) ==
    IF page[t] # 0 THEN "batch" ELSE IF created[t] THEN "undo" ELSE "idle"
Continue(t, a) ==
    IF a # None THEN "api"
    ELSE IF page[t] # 0 THEN "batch" ELSE IF created[t] THEN "undo" ELSE "idle"

\* To a later step of the call, or to the end of it.
Go(t, label) ==
    /\ Goto(t, label)
    /\ phd' = IF label = "idle" THEN [phd EXCEPT ![t] = None] ELSE phd

Live(p, s) == tstate[p] # "deleted" /\ table[p][s] # None

-----------------------------------------------------------------------------
(* Using a handle, and making one *)

\* LockHandleData, by any call that takes a handle.
Lock(t, p, s) ==
    /\ pc[t] = "idle" /\ Live(p, s)
    /\ locks' = [locks EXCEPT ![table[p][s]] = @ + 1]
    /\ phd' = [phd EXCEPT ![t] = table[p][s]]
    /\ Goto(t, "using")
    /\ UNCHANGED <<table, tstate, handles, life, nameList, api, created, phds, prc, page, history>>

\* UnlockHandleData at the end of the call.
EndUse(t) ==
    /\ pc[t] = "using"
    /\ Goto(t, "unlock")
    /\ UNCHANGED <<table, tstate, objVars, phd, api, created, phds, prc, page, history>>

\* HNDLCreateHandle; for an object of an API set, APISCreateAPIHandle with the
\* handle of the set locked.  Without a free entry the HDATA is freed at once.
Create(t, p, s, o) ==
    /\ IF Class[o] = None THEN pc[t] = "idle" ELSE pc[t] = "using" /\ phd[t] = Class[o]
    /\ life[o] = "fresh" /\ NameOf[o] = None
    /\ CanAlloc(p, s)
    /\ life' = [life EXCEPT ![o] = "live"]
    /\ handles' = [handles EXCEPT ![o] = 1]
    /\ Enter(p, s, o)
    /\ locks' = CountClass(locks, o)
    /\ UNCHANGED <<tstate, nameList, callVars, history>>

\* HNDLCreateNamedHandle under NameCS: the name exists,
OpenNamed(t, o) ==
    /\ pc[t] = "idle" /\ o \in nameList /\ handles[o] < MaxHandles
    /\ handles' = [handles EXCEPT ![o] = @ + 1]
    /\ phd' = [phd EXCEPT ![t] = o]
    /\ Goto(t, "named")
    /\ UNCHANGED <<table, tstate, locks, life, nameList, api, created, phds, prc, page, history>>

\* or it does not and is to be created.
CreateNamed(t, o) ==
    /\ pc[t] = "idle"
    /\ life[o] = "fresh" /\ NameOf[o] # None
    /\ \A q \in nameList : NameOf[q] # NameOf[o]
    /\ life' = [life EXCEPT ![o] = "live"]
    /\ handles' = [handles EXCEPT ![o] = 1]
    /\ nameList' = nameList \cup {o}
    /\ phd' = [phd EXCEPT ![t] = o]
    /\ created' = [created EXCEPT ![t] = TRUE]
    /\ Goto(t, "named")
    /\ UNCHANGED <<table, tstate, locks, api, phds, prc, page, history>>

\* Its second half: the entry in the table of the process,
NamedEntry(t, p, s) ==
    /\ pc[t] = "named" /\ CanAlloc(p, s)
    /\ Enter(p, s, phd[t])
    /\ phd' = [phd EXCEPT ![t] = None]
    /\ created' = [created EXCEPT ![t] = FALSE]
    /\ Goto(t, "idle")
    /\ UNCHANGED <<tstate, objVars, api, phds, prc, page, history>>

\* or none: the table is full or closing, or ACLCheck denies an existing object.
NamedFail(t, p) ==
    /\ pc[t] = "named"
    /\ ~created[t] \/ NoAlloc(p)
    /\ Goto(t, "dropH")
    /\ UNCHANGED <<table, tstate, objVars, phd, api, created, phds, prc, page, history>>

-----------------------------------------------------------------------------
(* Duplicating a handle *)

\* HNDLDuplicate: LockHandleParam on the source.
Duplicate(t, p, s) ==
    /\ pc[t] = "idle" /\ Live(p, s) /\ leaked[table[p][s]] < MaxLeaked
    /\ locks' = [locks EXCEPT ![table[p][s]] = @ + 1]
    /\ phd' = [phd EXCEPT ![t] = table[p][s]]
    /\ Goto(t, "dup")
    /\ UNCHANGED <<table, tstate, handles, life, nameList, api, created, phds, prc, page, history>>

DuplicableAny(o) == handles[o] < MaxHandles
Duplicable(o) == handles[o] > 0 /\ handles[o] < MaxHandles

\* The count is read before the table is locked: one that does not do is not looked
\* at again.  (One that does is compared again, so that reading it is no step.)
DupRead(t) ==
    /\ pc[t] = "dup" /\ ~Duplicable(phd[t])
    /\ Goto(t, "dupNot")
    /\ UNCHANGED <<table, tstate, objVars, phd, api, created, phds, prc, page, history>>

\* The compare-exchange counts the handle,
DupEntry(t, p, s) ==
    /\ pc[t] = "dup" /\ CanAlloc(p, s) /\ Duplicable(phd[t])
    /\ Enter(p, s, phd[t])
    /\ handles' = [handles EXCEPT ![phd[t]] = @ + 1]
    /\ locks' = CountClass(locks, phd[t])
    /\ Goto(t, "unlock")
    /\ UNCHANGED <<tstate, life, nameList, phd, api, created, phds, prc, page, history>>

\* or it is refused, for the count as it is or as it was: HNDLZapHandle clears the
\* entry and leaves a lock behind, and nobody takes back the count of the entry with
\* the API set.
DupRefused(t, p, s) ==
    /\ CanAlloc(p, s)
    /\ pc[t] = "dupNot" \/ (pc[t] = "dup" /\ ~Duplicable(phd[t]))
    /\ locks' = Bump(CountClass(locks, phd[t]), phd[t])
    /\ leaked' = Bump(CountClass(leaked, phd[t]), phd[t])
    /\ Goto(t, "unlock")
    /\ UNCHANGED <<table, tstate, handles, life, nameList, phd, api, created, phds, prc, page,
                   preClosed, tornDown, revived>>

DupNoEntry(t, p) ==
    /\ pc[t] \in {"dup", "dupNot"} /\ NoAlloc(p)
    /\ Goto(t, "unlock")
    /\ UNCHANGED <<table, tstate, objVars, phd, api, created, phds, prc, page, history>>

\* DoLockHDATA and HNDLDupWithHDATA look at the count first: of a locked map
\* about to get a view, of a locked end of a message queue.
CheckCount(t, label) ==
    /\ pc[t] = "using" /\ phd[t] \in Multi /\ handles[phd[t]] < MaxHandles
    /\ revived[phd[t]] < MaxRevived
    /\ Goto(t, label)
    /\ UNCHANGED <<table, tstate, objVars, phd, api, created, phds, prc, page, history>>

\* Neither looks whether the last handle has gone.
Revive(t) ==
    revived' = IF handles[phd[t]] = 0 THEN [revived EXCEPT ![phd[t]] = @ + 1] ELSE revived

\* DoLockHDATA in MAPMapView: the view keeps a handle and a lock, which
\* UnmapViewOfFile gives up as HNDLCloseHandle does.
MapView(t) ==
    /\ pc[t] = "map"
    /\ Revive(t)
    /\ handles' = [handles EXCEPT ![phd[t]] = @ + 1]
    /\ Goto(t, "closeH")
    /\ UNCHANGED <<table, tstate, locks, life, nameList, phd, api, created, phds, prc, page,
                   preClosed, tornDown, leaked>>

\* HNDLDupWithHDATA
DupWithHDATA(t, p, s) ==
    /\ pc[t] = "dupwith" /\ CanAlloc(p, s)
    /\ Revive(t)
    /\ Enter(p, s, phd[t])
    /\ handles' = [handles EXCEPT ![phd[t]] = @ + 1]
    /\ Goto(t, "unlock")
    /\ UNCHANGED <<tstate, locks, life, nameList, phd, api, created, phds, prc, page,
                   preClosed, tornDown, leaked>>

DupWithNoEntry(t, p) ==
    /\ pc[t] = "dupwith" /\ NoAlloc(p)
    /\ Goto(t, "unlock")
    /\ UNCHANGED <<table, tstate, objVars, phd, api, created, phds, prc, page, history>>

-----------------------------------------------------------------------------
(* Closing *)

\* HNDLCloseHandle, HNDLZapHandle: the entry goes, a lock comes.
Zap(t, p, s) ==
    /\ pc[t] = "idle" /\ Live(p, s)
    /\ LET o == table[p][s] IN
       /\ locks' = [locks EXCEPT ![o] = @ + 1]
       /\ phd' = [phd EXCEPT ![t] = o]
       /\ api' = [api EXCEPT ![t] = Class[o]]
    /\ Enter(p, s, None)
    /\ Goto(t, "closeH")
    /\ UNCHANGED <<tstate, handles, life, nameList, created, phds, prc, page, history>>

PageSlots(n) == {s \in Slot : (s - 1) \div PageSize = n - 1}

\* HNDLCloseOneHndlTbl: takes and locks all handles of a page.
TakePage(t, p, n) ==
    LET held(o) == Cardinality({s \in PageSlots(n) : table[p][s] = o}) IN
    /\ phds' = [phds EXCEPT ![t] = [s \in Slot |->
                                      IF s \in PageSlots(n) THEN table[p][s] ELSE None]]
    /\ locks' = [o \in Obj |-> locks[o] + held(o)]
    /\ table' = [table EXCEPT ![p] = [s \in Slot |->
                                        IF s \in PageSlots(n) THEN None ELSE @[s]]]
    /\ prc' = [prc EXCEPT ![t] = p]
    /\ page' = [page EXCEPT ![t] = n]

\* HNDLCloseAllHandles, at the exit of a process: the first page,
CloseAll(t, p) ==
    /\ pc[t] = "idle" /\ tstate[p] = "open"
    /\ TakePage(t, p, 1)
    /\ tstate' = [tstate EXCEPT ![p] = "closing"]
    /\ Goto(t, "batch")
    /\ UNCHANGED <<handles, life, nameList, phd, api, created, history>>

\* closes what it has taken one by one, as HNDLCloseHandle,
CloseNext(t, s) ==
    /\ pc[t] = "batch" /\ phds[t][s] # None
    /\ phd' = [phd EXCEPT ![t] = phds[t][s]]
    /\ api' = [api EXCEPT ![t] = Class[phds[t][s]]]
    /\ phds' = [phds EXCEPT ![t][s] = None]
    /\ Goto(t, "closeH")
    /\ UNCHANGED <<table, tstate, objVars, created, prc, page, history>>

BatchDone(t) == pc[t] = "batch" /\ \A s \in Slot : phds[t][s] = None

\* and goes to the next page.
NextPage(t) ==
    /\ BatchDone(t) /\ page[t] * PageSize < NumSlots
    /\ TakePage(t, prc[t], page[t] + 1)
    /\ UNCHANGED <<tstate, handles, life, nameList, pc, phd, api, created, history>>

\* HNDLDeleteHandleTable
DeleteTable(t) ==
    /\ BatchDone(t) /\ page[t] * PageSize >= NumSlots
    /\ tstate' = [tstate EXCEPT ![prc[t]] = "deleted"]
    /\ prc' = [prc EXCEPT ![t] = None] /\ page' = [page EXCEPT ![t] = 0]
    /\ Goto(t, "idle")
    /\ UNCHANGED <<table, objVars, phd, api, created, phds, history>>

\* A named object leaves the list with its last handle, whatever its locks.
NamesWithoutFreed(o) == IF handles[o] = 1 /\ locks[o] = 0 THEN nameList \ {o} ELSE nameList
NamesWithout(o) == IF handles[o] = 1 THEN nameList \ {o} ELSE nameList

\* DoUnlockHDATA (phd, -HNDLCNT_INCR), with a lock held ("closeH") or not.
DropHandle(t) ==
    LET o == phd[t]
        last == handles[o] = 1 IN
    /\ pc[t] \in {"closeH", "dropH"}
    /\ handles' = [handles EXCEPT ![o] = @ - 1]
    /\ nameList' = NamesWithout(o)
    /\ CASE last /\ locks[o] = 0                             -> Go(t, "free")
         [] last /\ locks[o] # 0 /\ o \in PreClosing
               -> Go(t, IF pc[t] = "closeH" THEN "preclose" ELSE "precloseU")
         [] OTHER -> Go(t, IF pc[t] = "closeH" THEN "unlock" ELSE Continue(t, None))
    /\ UNCHANGED <<table, tstate, locks, life, api, created, phds, prc, page, history>>

\* PHD_PreCloseHandle, with a lock held or ("precloseU") not.
PreClose(t) ==
    /\ pc[t] \in {"preclose", "precloseU"}
    /\ preClosed' = [preClosed EXCEPT ![phd[t]] = @ + 1]
    /\ Go(t, IF pc[t] = "preclose" THEN "unlock" ELSE Continue(t, None))
    /\ UNCHANGED <<table, tstate, objVars, api, created, phds, prc, page,
                   tornDown, revived, leaked>>

LastLockOnly(o) == locks[o] = 1
LastLock(o) == handles[o] = 0 /\ locks[o] = 1

\* DoUnlockHDATA (., -LOCKCNT_INCR), of phd or of its API set.
DropLock(t) ==
    LET o == IF pc[t] = "api" THEN api[t] ELSE phd[t]
        a == IF pc[t] = "api" THEN None ELSE api[t]
        gone == LastLock(o) IN
    /\ pc[t] \in {"unlock", "api"}
    /\ locks' = [locks EXCEPT ![o] = @ - 1]
    /\ api' = [api EXCEPT ![t] = a]
    /\ phd' = [phd EXCEPT ![t] = IF gone THEN o ELSE None]
    /\ Goto(t, IF gone THEN "free" ELSE Continue(t, a))
    /\ UNCHANGED <<table, tstate, handles, life, nameList, created, phds, prc, page, history>>

\* PHD_CloseHandle takes the object apart, then the HDATA is freed.
Free(t) ==
    /\ pc[t] = "free"
    /\ life' = [life EXCEPT ![phd[t]] = "freed"]
    /\ tornDown' = [tornDown EXCEPT ![phd[t]] = @ + 1]
    /\ phd' = [phd EXCEPT ![t] = IF created[t] THEN @ ELSE None]
    /\ Goto(t, Continue(t, api[t]))
    /\ UNCHANGED <<table, tstate, handles, locks, nameList, api, created, phds, prc, page,
                   preClosed, revived, leaked>>

\* OpenOrCreateSyncObject cleans up after the error of HNDLCreateNamedHandle.
Undo(t) ==
    /\ pc[t] = "undo"
    /\ tornDown' = [tornDown EXCEPT ![phd[t]] = @ + 1]
    /\ phd' = [phd EXCEPT ![t] = None]
    /\ created' = [created EXCEPT ![t] = FALSE]
    /\ Goto(t, "idle")
    /\ UNCHANGED <<table, tstate, objVars, api, phds, prc, page, preClosed, revived, leaked>>

-----------------------------------------------------------------------------

\* What a call does once it has begun.
Step(t) ==
    \/ EndUse(t)
    \/ \E p \in Proc : NamedFail(t, p) \/ DupNoEntry(t, p) \/ DupWithNoEntry(t, p)
    \/ \E p \in Proc, s \in Slot :
          \/ NamedEntry(t, p, s)
          \/ DupEntry(t, p, s) \/ DupRefused(t, p, s)
          \/ DupWithHDATA(t, p, s)
    \/ MapView(t)
    \/ \E s \in Slot : CloseNext(t, s)
    \/ NextPage(t) \/ DeleteTable(t)
    \/ DropHandle(t) \/ PreClose(t) \/ DropLock(t) \/ Free(t) \/ Undo(t)

Next ==
    \E t \in Thread :
        \/ Step(t)
        \/ CheckCount(t, "map") \/ CheckCount(t, "dupwith") \/ DupRead(t)
        \/ \E p \in Proc : CloseAll(t, p)
        \/ \E p \in Proc, s \in Slot : Lock(t, p, s) \/ Duplicate(t, p, s) \/ Zap(t, p, s)
        \/ \E p \in Proc, s \in Slot, o \in Obj : Create(t, p, s, o)
        \/ \E o \in Obj : OpenNamed(t, o) \/ CreateNamed(t, o)

Spec == Init /\ [][Next]_vars

\* A call that has begun runs to its end: threads in the kernel are not
\* terminated there, and every thread gets the processor.
FairSpec == Spec /\ \A t \in Thread : WF_vars(Step(t))

-----------------------------------------------------------------------------
(* Properties *)

Labels == {"idle", "using", "named", "dup", "dupNot", "map", "dupwith", "batch", "closeH",
           "dropH", "preclose", "precloseU", "unlock", "api", "free", "undo"}

TypeOK ==
    /\ table \in [Proc -> [Slot -> Obj \cup {None}]]
    /\ tstate \in [Proc -> {"open", "closing", "deleted"}]
    /\ handles \in [Obj -> Nat] /\ locks \in [Obj -> Nat]
    /\ life \in [Obj -> {"fresh", "live", "freed"}]
    /\ nameList \in SUBSET Obj
    /\ pc \in [Thread -> Labels]
    /\ phd \in [Thread -> Obj \cup {None}] /\ api \in [Thread -> Obj \cup {None}]
    /\ created \in [Thread -> BOOLEAN]
    /\ phds \in [Thread -> [Slot -> Obj \cup {None}]]
    /\ prc \in [Thread -> Proc \cup {None}] /\ page \in [Thread -> Nat]
    /\ preClosed \in [Obj -> Nat] /\ tornDown \in [Obj -> Nat]
    /\ revived \in [Obj -> Nat] /\ leaked \in [Obj -> Nat]

HandlePcs == {"named", "closeH", "dropH"}
LockPcs == {"using", "dup", "dupNot", "map", "dupwith", "closeH", "preclose", "unlock"}

\* The places that hold a handle of o: table entries, entries taken by
\* HNDLCloseAllHandles, calls in progress.
Entries(o) == {e \in Proc \X Slot : table[e[1]][e[2]] = o}
Taken(o) == {e \in Thread \X Slot : phds[e[1]][e[2]] = o}
InCall(labels, o) == {t \in Thread : pc[t] \in labels /\ phd[t] = o}

\* The places that hold a lock of o: taken entries, calls, and for an API set
\* every entry of its objects, in a table, taken, or being closed.
ClassOf(o) == IF o = None THEN None ELSE Class[o]
ClassEntries(o) == {e \in Proc \X Slot : ClassOf(table[e[1]][e[2]]) = o}
ClassTaken(o) == {e \in Thread \X Slot : ClassOf(phds[e[1]][e[2]]) = o}
ClassInCall(o) == {t \in Thread : api[t] = o}

\* Both halves of dwRefCnt count exactly the places that hold the object, and
\* the locks HNDLDuplicate has left behind.
CountsExact ==
    \A o \in Obj :
        /\ handles[o] = Cardinality(Entries(o)) + Cardinality(Taken(o))
                            + Cardinality(InCall(HandlePcs, o))
        /\ locks[o] = Cardinality(Taken(o)) + Cardinality(InCall(LockPcs, o))
                          + Cardinality(ClassEntries(o)) + Cardinality(ClassTaken(o))
                          + Cardinality(ClassInCall(o)) + leaked[o]

Held(o) ==
    \/ Entries(o) # {} \/ Taken(o) # {} \/ InCall(HandlePcs \cup LockPcs, o) # {}
    \/ ClassEntries(o) # {} \/ ClassTaken(o) # {} \/ ClassInCall(o) # {}

\* Whatever a table or a call holds has not been freed, and only one thread
\* frees an object: an HDATA outlives its last handle and its last lock.  Left
\* out is the pre-close after a failed HNDLCreateNamedHandle, which holds neither.
NoUseAfterFree ==
    \A o \in Obj :
        /\ Held(o) => life[o] = "live" /\ InCall({"free"}, o) = {}
        /\ \A t, u \in InCall({"free"}, o) : life[o] = "live" /\ t = u

\* g_NameList holds exactly the named objects with an open handle, at most one
\* of each name: nobody opens an object whose last handle is gone.  Left out
\* are maps that got a view after their last handle: their name is lost.
NamesExact ==
    /\ \A o \in Obj : NameOf[o] # None /\ revived[o] = 0 =>
          (o \in nameList <=> handles[o] > 0)
    /\ \A o \in nameList : handles[o] > 0 /\ life[o] = "live"
    /\ \A o, q \in nameList : NameOf[o] = NameOf[q] => o = q

\* The pre-close method runs once, when the last handle goes, unless a lock
\* holder has made a handle since; HNDLDuplicate never makes such a handle.
PreClosedOnce ==
    \A o \in Obj :
        /\ preClosed[o] <= 1 + revived[o]
        /\ handles[o] > 0 => preClosed[o] <= revived[o]

\* An exiting process keeps no handle: its table stays empty once its pages are
\* taken, and a deleted table had none left.
ClosedTableEmpty ==
    \A p \in Proc : tstate[p] # "open" =>
        \A s \in Slot : table[p][s] # None =>
            \E t \in Thread : prc[t] = p /\ page[t] * PageSize < s

\* The object behind an HDATA is taken apart once, by the thread that frees the
\* HDATA.  Left out are objects whose HNDLCreateNamedHandle failed.
TornDownOnce ==
    \A o \in Obj : (tornDown[o] > 0 => life[o] # "live") /\ tornDown[o] <= 1

\* An object without a handle, and without handles of its objects when it is an
\* API set, is freed, unless HNDLDuplicate left a lock or somebody makes a handle.
Unwanted(o) ==
    /\ life[o] = "live" /\ leaked[o] = 0
    /\ \A q \in Obj : q = o \/ Class[q] = o => handles[q] = 0
Reclaimed == \A o \in Obj : Unwanted(o) ~> ~Unwanted(o)

=============================================================================
