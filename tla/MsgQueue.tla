------------------------------ MODULE MsgQueue ------------------------------
(***************************************************************************)
(* One message queue of NK/MSGQUEUE/msgqueue.c with its ends: MSGQRead,    *)
(* MSGQWrite, opening an end, closing it, MSGQPreClose and MSGQClose.      *)
(*                                                                         *)
(* An end is the HDATA of an event; its two counts follow Handles.tla.     *)
(* csLock is not kept: what runs under it is one action, except that a     *)
(* message above COPY_THRESHOLD is copied with the lock released, and the  *)
(* reader's event is set after the release.  Copied under the lock or not, *)
(* a message may fault.  What happens once freed memory has been used is   *)
(* undefined: nothing is modelled after that.                              *)
(***************************************************************************)
EXTENDS Integers, Sequences, FiniteSets

CONSTANTS
    Thread, ReaderEnd, WriterEnd, None,
    May,            \* what each thread does: "read", "write", "close", "open"
    Flags,          \* the dwFlags a queue may be created with, and whether it has
                    \* a name: [broken, nocommit, named]
    MaxNumMsg,      \* dwMaxNumMsg
    MaxWrites,      \* bound on the messages written
    MaxHandles      \* bound on the handles of each end

End == ReaderEnd \cup WriterEnd
Side(e) == IF e \in ReaderEnd THEN "reader" ELSE "writer"
Other(side) == IF side = "reader" THEN "writer" ELSE "reader"

ASSUME MsgQueueAssumption ==
    /\ ReaderEnd # {} /\ WriterEnd # {} /\ ReaderEnd \cap WriterEnd = {}
    /\ None \notin End /\ None \notin [id : Nat, big : BOOLEAN]
    /\ IsFiniteSet(Thread)
    /\ May \in [Thread -> SUBSET {"read", "write", "close", "open"}]
    /\ Flags # {} /\ Flags \subseteq [broken : BOOLEAN, nocommit : BOOLEAN, named : BOOLEAN]
    /\ MaxNumMsg \in Nat \ {0} /\ MaxWrites \in Nat /\ MaxHandles \in [End -> Nat \ {0}]

VARIABLES
    flags,          \* of this queue
    invalid,        \* MSGQUEUE_INVALID
    queue,          \* pHead ... pTail
    pAlert,
    freeNodes,      \* nodes in pFreeList
    dwCurNumMsg,
    link,           \* phdReader and phdWriter
    life,           \* of an end: "fresh", "live", "gone"
    handles, locks, \* of an end: dwRefCnt
    event,          \* of an end: set or not
    pc,
    own,            \* the end a thread's call is about
    node,           \* lpN while it is in neither list
    target,         \* the end whose event is waited for or is to be set
    writes,         \* messages written so far
    taken,          \* messages read, or thrown away by a fault or a close
    unsignalled,    \* a node came back without SetQEvent (phdWriter)
    crossed,        \* the end of a copy reset an event MSGQPreClose had set
    undefined       \* freed memory has been used

qVars == <<flags, invalid, queue, pAlert, freeNodes, dwCurNumMsg, link>>
endVars == <<life, handles, locks, event>>
history == <<writes, taken, unsignalled, crossed, undefined>>
vars == <<qVars, endVars, pc, own, node, target, history>>

Init ==
    /\ flags \in Flags
    /\ freeNodes = IF flags.nocommit THEN 0 ELSE MaxNumMsg
    /\ invalid = FALSE /\ queue = <<>> /\ pAlert = None /\ dwCurNumMsg = 0
    /\ \E r \in ReaderEnd \cup {None}, w \in WriterEnd \cup {None} :
          /\ {r, w} # {None}
          /\ link = [reader |-> r, writer |-> w]
          /\ life = [e \in End |-> IF e \in {r, w} THEN "live" ELSE "fresh"]
          /\ handles = [e \in End |-> IF e \in {r, w} THEN 1 ELSE 0]
          /\ event = [e \in End |-> e = w]
    /\ locks = [e \in End |-> 0]
    /\ pc = [t \in Thread |-> "idle"]
    /\ own = [t \in Thread |-> None] /\ node = [t \in Thread |-> None]
    /\ target = [t \in Thread |-> None]
    /\ writes = 0 /\ taken = {}
    /\ unsignalled = FALSE /\ crossed = FALSE /\ undefined = FALSE

-----------------------------------------------------------------------------
(* Helpers *)

Enqueue(q, n) == Append(q, n)
\* Mutant: pHead is left when the last node goes.
DequeueKeepsLast(q) == IF Len(q) = 1 THEN q ELSE Tail(q)

Dequeue(q) == Tail(q)

IsQueueEmpty(q, a) == q = <<>> /\ a = None

\* The nodes in the queue and the alert.
Messages == {queue[i] : i \in DOMAIN queue} \cup ({pAlert} \ {None})

\* GetHandleCountFromHDATA (phd) # 0
HasHandles(e) == e # None /\ handles[e] > 0

Broken(side) == ~flags.broken /\ ~HasHandles(link[side])

\* Why a read or a write gives up: its own end has no handles, or the queue is
\* broken.
Finished(side) == ~HasHandles(link[side]) \/ Broken(Other(side))

\* EVNTModify: events are manual-reset, and a set wakes everybody who waits.
Reset(ev, e) == IF e = None THEN ev ELSE [ev EXCEPT ![e] = FALSE]
Set(ev, e) == IF e = None THEN ev ELSE [ev EXCEPT ![e] = TRUE]
Sleeps(t, e) == pc[t] \in {"rsleep", "wsleep"} /\ target[t] = e
Awake(label) == IF label = "rsleep" THEN "read" ELSE "write"
\* Thread t goes on at label, and those asleep on the ends in es wake up.
GoWaking(t, label, es) ==
    pc' = [u \in Thread |-> IF u = t THEN label
                            ELSE IF \E e \in es : Sleeps(u, e) THEN Awake(pc[u])
                            ELSE pc[u]]
Go(t, label) == GoWaking(t, label, {})

\* Entries in handle tables that still name e.
Open(e) == handles[e] > Cardinality({t \in Thread : pc[t] = "dropH" /\ own[t] = e})

Enter(t, e, label) ==
    /\ pc[t] = "idle" /\ Open(e)
    /\ locks' = [locks EXCEPT ![e] = @ + 1]
    /\ own' = [own EXCEPT ![t] = e]
    /\ Go(t, label)
    /\ UNCHANGED <<qVars, life, handles, event, node, target, history>>

-----------------------------------------------------------------------------
(* MSGQRead *)

Read(t, e) == "read" \in May[t] /\ e \in ReaderEnd /\ Enter(t, e, "read")

\* An end without handles or a broken queue: an error, as is a message whose
\* token cannot be duplicated.
ReadFails(t) ==
    /\ pc[t] = "read"
    /\ Finished("reader") \/ ~IsQueueEmpty(queue, pAlert)
    /\ Go(t, "done")
    /\ UNCHANGED <<qVars, endVars, own, node, target, history>>

\* Mutant: the reader's event is reset whatever is left.
AfterReadAlwaysReset(q, a) ==
    /\ event' = Reset(Set(event, link.writer), link.reader)
    /\ UNCHANGED crossed

\* The end of a read, under the lock: room is signalled, and the reader's event
\* reset when nothing is left.
AfterRead(q, a) ==
    LET ev == Set(event, link.writer) IN
    /\ event' = IF IsQueueEmpty(q, a) THEN Reset(ev, link.reader) ELSE ev
    /\ crossed' = (crossed \/ (IsQueueEmpty(q, a) /\ Finished("reader")))

ReadAlert(t) ==
    /\ pc[t] = "read" /\ ~Finished("reader") /\ pAlert # None
    /\ pAlert' = None
    /\ taken' = taken \cup {pAlert.id}
    /\ AfterRead(queue, None)
    /\ GoWaking(t, "done", {link.writer})
    /\ UNCHANGED <<flags, invalid, queue, freeNodes, dwCurNumMsg, link, life, handles, locks,
                   own, node, target, writes, unsignalled, undefined>>

\* Mutant: every node is kept.
FreeNodeKept(n) == freeNodes + 1

\* The node goes to the free list; not pre-committed it stays there only alone and
\* when it has room for cbMaxMessage: that is what a big message stands for.
FreeNode(n) ==
    IF flags.nocommit /\ (freeNodes > 0 \/ ~n.big) THEN freeNodes ELSE freeNodes + 1

\* So is a copy to a small buffer, of the start of a message of any size.
ReadSmall(t) ==
    /\ pc[t] = "read" /\ ~Finished("reader") /\ pAlert = None /\ queue # <<>>
    /\ queue' = Dequeue(queue)
    /\ dwCurNumMsg' = dwCurNumMsg - 1
    /\ freeNodes' = FreeNode(Head(queue))
    /\ taken' = taken \cup {Head(queue).id}
    /\ AfterRead(Dequeue(queue), pAlert)
    /\ GoWaking(t, "done", {link.writer})
    /\ UNCHANGED <<flags, invalid, pAlert, link, life, handles, locks,
                   own, node, target, writes, unsignalled, undefined>>

\* Above COPY_THRESHOLD the lock is released for the copy
ReadBig(t) ==
    /\ pc[t] = "read" /\ ~Finished("reader") /\ pAlert = None /\ queue # <<>> /\ Head(queue).big
    /\ queue' = Dequeue(queue)
    /\ dwCurNumMsg' = dwCurNumMsg - 1
    /\ node' = [node EXCEPT ![t] = Head(queue)]
    /\ Go(t, "rcopy")
    /\ UNCHANGED <<flags, invalid, pAlert, freeNodes, link, endVars, own, target, history>>

\* and taken again.
ReadBigDone(t) ==
    /\ pc[t] = "rcopy"
    /\ freeNodes' = FreeNode(node[t])
    /\ node' = [node EXCEPT ![t] = None]
    /\ taken' = taken \cup {node[t].id}
    /\ AfterRead(queue, pAlert)
    /\ GoWaking(t, "done", {link.writer})
    /\ UNCHANGED <<flags, invalid, queue, pAlert, dwCurNumMsg, link, life, handles, locks,
                   own, target, writes, unsignalled, undefined>>

\* WaitForQueueEvent: the event is reset under the lock,
ReadWait(t) ==
    /\ pc[t] = "read" /\ ~Finished("reader") /\ IsQueueEmpty(queue, pAlert)
    /\ event' = Reset(event, link.reader)
    /\ target' = [target EXCEPT ![t] = link.reader]
    /\ Go(t, "rwait")
    /\ UNCHANGED <<qVars, life, handles, locks, own, node, history>>

\* waited for without it,
Wait(t) ==
    /\ pc[t] \in {"rwait", "wwait"}
    /\ LET label == IF pc[t] = "rwait" THEN "rsleep" ELSE "wsleep" IN
       Go(t, IF event[target[t]] THEN Awake(label) ELSE label)
    /\ UNCHANGED <<qVars, endVars, own, node, target, history>>

\* until the timeout, or the end of the thread.
WaitEnds(t) ==
    /\ pc[t] \in {"rwait", "wwait", "rsleep", "wsleep"}
    /\ Go(t, "done")
    /\ UNCHANGED <<qVars, endVars, own, node, target, history>>

-----------------------------------------------------------------------------
(* MSGQWrite *)

Write(t, e) ==
    /\ "write" \in May[t] /\ e \in WriterEnd /\ writes < MaxWrites
    /\ Enter(t, e, "write")

WriteFails(t) ==
    /\ pc[t] = "write" /\ Finished("writer")
    /\ Go(t, "done")
    /\ UNCHANGED <<qVars, endVars, own, node, target, history>>

\* A node from the free list, or, not pre-committed, from the heap.  dwCurNumMsg is
\* unsigned: below zero it is not less than dwMaxNumMsg.
HasNode == freeNodes > 0 \/ (flags.nocommit /\ dwCurNumMsg \in 0..MaxNumMsg - 1)
NodeFromList == IF freeNodes > 0 THEN freeNodes - 1 ELSE freeNodes

\* Mutant: it is not locked.
LockReaderNot(t) ==
    /\ target' = [target EXCEPT ![t] = link.reader]
    /\ Go(t, IF link.reader = None THEN "done" ELSE "signal")
    /\ UNCHANGED <<locks, undefined>>

\* The reader is locked, to be signalled once csLock is released.  Locking an
\* HDATA whose last reference has gone does not keep it.
LockReader(t) ==
    LET r == link.reader IN
    IF r = None
    THEN /\ Go(t, "done")
         /\ UNCHANGED <<target, locks, undefined>>
    ELSE /\ target' = [target EXCEPT ![t] = r]
         /\ locks' = [locks EXCEPT ![r] = @ + 1]
         /\ undefined' = (handles[r] = 0 /\ locks[r] = 0)
         /\ Go(t, "signal")

ResetIfFull(cur) ==
    /\ event' = IF cur = MaxNumMsg THEN Reset(event, link.writer) ELSE event
    /\ crossed' = (crossed \/ (cur = MaxNumMsg /\ Finished("writer")))

WriteAlert(t) ==
    /\ pc[t] = "write" /\ ~Finished("writer") /\ pAlert = None /\ writes < MaxWrites
    /\ pAlert' = [id |-> writes + 1, big |-> FALSE]
    /\ writes' = writes + 1
    /\ LockReader(t)
    /\ ResetIfFull(dwCurNumMsg)
    /\ UNCHANGED <<flags, invalid, queue, freeNodes, dwCurNumMsg, link, life, handles,
                   own, node, taken, unsignalled>>

WriteSmall(t) ==
    /\ pc[t] = "write" /\ ~Finished("writer") /\ HasNode /\ writes < MaxWrites
    /\ queue' = Enqueue(queue, [id |-> writes + 1, big |-> FALSE])
    /\ writes' = writes + 1
    /\ freeNodes' = NodeFromList
    /\ dwCurNumMsg' = dwCurNumMsg + 1
    /\ LockReader(t)
    /\ ResetIfFull(dwCurNumMsg + 1)
    /\ UNCHANGED <<flags, invalid, pAlert, link, life, handles, own, node, taken, unsignalled>>

\* The copy of a small message or of an alert faults, or there is no memory.
\* Under the lock nothing has happened, but a node that is not pre-committed is
\* freed even if it had been kept.
WriteFaults(t) ==
    /\ pc[t] = "write" /\ ~Finished("writer") /\ (HasNode \/ pAlert = None)
    /\ freeNodes' \in {freeNodes, IF flags.nocommit THEN NodeFromList ELSE freeNodes}
    /\ Go(t, "done")
    /\ UNCHANGED <<flags, invalid, queue, pAlert, dwCurNumMsg, link,
                   endVars, own, node, target, history>>

WriteBig(t) ==
    /\ pc[t] = "write" /\ ~Finished("writer") /\ HasNode /\ writes < MaxWrites
    /\ freeNodes' = NodeFromList
    /\ dwCurNumMsg' = dwCurNumMsg + 1
    /\ writes' = writes + 1
    /\ node' = [node EXCEPT ![t] = [id |-> writes + 1, big |-> TRUE]]
    /\ Go(t, "wcopy")
    /\ UNCHANGED <<flags, invalid, queue, pAlert, link, endVars, own, target,
                   taken, unsignalled, crossed, undefined>>

WriteBigDone(t) ==
    /\ pc[t] = "wcopy"
    /\ queue' = Enqueue(queue, node[t])
    /\ node' = [node EXCEPT ![t] = None]
    /\ LockReader(t)
    /\ ResetIfFull(dwCurNumMsg)
    /\ UNCHANGED <<flags, invalid, pAlert, freeNodes, dwCurNumMsg, link, life, handles,
                   own, writes, taken, unsignalled>>

\* The node goes back, and no writer is told.
WriteBigFaults(t) ==
    /\ pc[t] = "wcopy"
    /\ dwCurNumMsg' = dwCurNumMsg - 1
    /\ freeNodes' = IF flags.nocommit THEN freeNodes ELSE freeNodes + 1
    /\ taken' = taken \cup {node[t].id}
    /\ node' = [node EXCEPT ![t] = None]
    /\ unsignalled' = TRUE
    /\ Go(t, "done")
    /\ UNCHANGED <<flags, invalid, queue, pAlert, link, endVars, own, target,
                   writes, crossed, undefined>>

WriteWait(t) ==
    /\ pc[t] = "write" /\ ~Finished("writer") /\ ~HasNode
    /\ event' = Reset(event, link.writer)
    /\ target' = [target EXCEPT ![t] = link.writer]
    /\ Go(t, "wwait")
    /\ UNCHANGED <<qVars, life, handles, locks, own, node, history>>

\* SetQEvent (phdReader), after the release of csLock,
Signal(t) ==
    /\ pc[t] = "signal"
    /\ event' = Set(event, target[t])
    /\ GoWaking(t, "unsignal", {target[t]})
    /\ UNCHANGED <<qVars, life, handles, locks, own, node, target, history>>

\* and UnlockHandleData (phdReader).
UnlockReader(t) ==
    LET r == target[t] IN
    /\ pc[t] = "unsignal"
    /\ locks' = [locks EXCEPT ![r] = @ - 1]
    /\ Go(t, IF handles[r] = 0 /\ locks[r] = 1 THEN "closeReader" ELSE "done")
    /\ UNCHANGED <<qVars, life, handles, event, own, node, target, history>>

-----------------------------------------------------------------------------
(* Opening and closing an end *)

LinkQToPHD(e) ==
    /\ life' = [life EXCEPT ![e] = "live"]
    /\ handles' = [handles EXCEPT ![e] = 1]
    /\ link' = [link EXCEPT ![Side(e)] = e]
    /\ event' = [event EXCEPT ![e] = IF e \in WriterEnd THEN TRUE
                                     ELSE ~IsQueueEmpty(queue, pAlert)]

\* The end a name leads to has handles.
NamedEnd(side) == {e \in End : Side(e) = side /\ life[e] = "live" /\ handles[e] > 0}

\* CreateNamedMsgQ, under g_MsgQcs: an end that exists gets another handle,
OpenNamed(t, e) ==
    /\ "open" \in May[t] /\ pc[t] = "idle" /\ flags.named
    /\ e \in NamedEnd(Side(e)) /\ handles[e] < MaxHandles[e]
    /\ handles' = [handles EXCEPT ![e] = @ + 1]
    /\ UNCHANGED <<qVars, life, locks, event, pc, own, node, target, history>>

\* and one that does not is made and linked to the queue of the other end.
CreateNamed(t, e) ==
    /\ "open" \in May[t] /\ pc[t] = "idle" /\ flags.named
    /\ life[e] = "fresh" /\ NamedEnd(Side(e)) = {} /\ NamedEnd(Other(Side(e))) # {}
    /\ LinkQToPHD(e)
    /\ UNCHANGED <<flags, invalid, queue, pAlert, freeNodes, dwCurNumMsg, locks,
                   pc, own, node, target, history>>

\* NKOpenMsgQueueEx of an unnamed queue: the flag is looked at first,
OpenEx(t, e) ==
    /\ "open" \in May[t] /\ ~flags.named /\ ~invalid
    /\ Enter(t, e, "open")

\* then, under the lock, the end asked for, of either side, gets a handle
OpenExDup(t, e) ==
    /\ pc[t] = "open" /\ link[Side(e)] = e /\ handles[e] < MaxHandles[e]
    /\ handles' = [handles EXCEPT ![e] = @ + 1]
    /\ undefined' = (handles[e] = 0 /\ locks[e] = 0)
    /\ Go(t, "done")
    /\ UNCHANGED <<qVars, life, locks, event, own, node, target, writes, taken, unsignalled, crossed>>

\* or is made.
OpenExCreate(t, e) ==
    /\ pc[t] = "open" /\ link[Side(e)] = None /\ life[e] = "fresh"
    /\ LinkQToPHD(e)
    /\ Go(t, "done")
    /\ UNCHANGED <<flags, invalid, queue, pAlert, freeNodes, dwCurNumMsg, locks,
                   own, node, target, history>>

OpenExFails(t) ==
    /\ pc[t] = "open"
    /\ Go(t, "done")
    /\ UNCHANGED <<qVars, endVars, own, node, target, history>>

\* HNDLCloseHandle
Close(t, e) == "close" \in May[t] /\ Enter(t, e, "dropH")

DropHandle(t) ==
    LET e == own[t] IN
    /\ pc[t] = "dropH"
    /\ handles' = [handles EXCEPT ![e] = @ - 1]
    /\ Go(t, IF handles[e] = 1 THEN "preclose" ELSE "done")
    /\ UNCHANGED <<qVars, life, locks, event, own, node, target, history>>

\* Mutant: only those at the end that is closed are woken.
PreCloseOwn(t) ==
    /\ pc[t] = "preclose"
    /\ event' = Set(event, own[t])
    /\ GoWaking(t, "done", {own[t]})
    /\ UNCHANGED <<qVars, life, handles, locks, own, node, target, history>>

\* MSGQPreClose wakes the readers and the writers.
PreClose(t) ==
    /\ pc[t] = "preclose"
    /\ event' = Set(Set(event, link.reader), link.writer)
    /\ GoWaking(t, "done", {link.reader, link.writer})
    /\ UNCHANGED <<qVars, life, handles, locks, own, node, target, history>>

\* UnlockHandleData at the end of a call.
Done(t) ==
    LET e == own[t] IN
    /\ pc[t] = "done"
    /\ locks' = [locks EXCEPT ![e] = @ - 1]
    /\ target' = [target EXCEPT ![t] = None]
    /\ IF handles[e] = 0 /\ locks[e] = 1
       THEN Go(t, "close") /\ UNCHANGED own
       ELSE Go(t, "idle") /\ own' = [own EXCEPT ![t] = None]
    /\ UNCHANGED <<qVars, life, handles, event, node, history>>

\* MSGQClose of the end e.
MSGQClose(e) ==
    LET other == link[Other(Side(e))]
        fDestroy == other = None
        drop == fDestroy \/ ~flags.broken IN
    /\ link' = [link EXCEPT ![Side(e)] = None]
    /\ queue' = IF drop THEN <<>> ELSE queue
    /\ pAlert' = IF drop THEN None ELSE pAlert
    /\ freeNodes' = IF drop THEN 0 ELSE freeNodes
    /\ dwCurNumMsg' = IF drop THEN 0 ELSE dwCurNumMsg
    /\ invalid' = (invalid \/ drop)
    /\ taken' = IF drop THEN taken \cup {n.id : n \in Messages} ELSE taken
    \* an end that still refers to the queue uses it after it is freed
    /\ undefined' = (fDestroy /\ \E o \in End \ {e} : life[o] = "live")
    /\ life' = [life EXCEPT ![e] = "gone"]
    /\ event' = Set(event, e)
    /\ UNCHANGED <<flags, handles, locks, node, writes, unsignalled, crossed>>

CloseEnd(t) ==
    /\ pc[t] = "close"
    /\ MSGQClose(own[t])
    /\ own' = [own EXCEPT ![t] = None]
    /\ GoWaking(t, "idle", {own[t]})
    /\ UNCHANGED target

CloseReader(t) ==
    /\ pc[t] = "closeReader"
    /\ MSGQClose(target[t])
    /\ GoWaking(t, "done", {target[t]})
    /\ UNCHANGED <<own, target>>

-----------------------------------------------------------------------------

\* What a call does once it has begun.
Step(t) ==
    \/ ReadFails(t) \/ ReadAlert(t) \/ ReadSmall(t) \/ ReadBig(t) \/ ReadBigDone(t)
    \/ ReadWait(t) \/ Wait(t)
    \/ WriteFails(t) \/ WriteAlert(t) \/ WriteSmall(t) \/ WriteBig(t) \/ WriteBigDone(t)
    \/ WriteWait(t) \/ Signal(t) \/ UnlockReader(t)
    \/ \E e \in End : OpenExDup(t, e) \/ OpenExCreate(t, e)
    \/ OpenExFails(t)
    \/ DropHandle(t) \/ PreClose(t) \/ Done(t) \/ CloseEnd(t) \/ CloseReader(t)

Next ==
    /\ ~undefined
    /\ \E t \in Thread :
          \/ Step(t) \/ WaitEnds(t) \/ WriteFaults(t) \/ WriteBigFaults(t)
          \/ \E e \in End :
                \/ Read(t, e) \/ Write(t, e) \/ Close(t, e)
                \/ OpenNamed(t, e) \/ CreateNamed(t, e) \/ OpenEx(t, e)

Spec == Init /\ [][Next]_vars

-----------------------------------------------------------------------------
(* Properties *)

Copying(label) == {t \in Thread : pc[t] = label}

Message == [id : 1..MaxWrites, big : BOOLEAN]
Alert == {m \in Message : ~m.big}
Labels == {"idle", "read", "rcopy", "rwait", "rsleep", "write", "wcopy", "wwait", "wsleep",
           "signal", "unsignal", "closeReader", "open", "dropH", "preclose", "done", "close"}

\* Type correctness.
TypeOK ==
    /\ flags \in Flags
    /\ invalid \in BOOLEAN /\ freeNodes \in Nat /\ dwCurNumMsg \in Int
    /\ queue \in Seq(Message) /\ pAlert \in Alert \cup {None}
    /\ link \in [reader : ReaderEnd \cup {None}, writer : WriterEnd \cup {None}]
    /\ life \in [End -> {"fresh", "live", "gone"}] /\ event \in [End -> BOOLEAN]
    /\ handles \in [End -> Nat] /\ (\A e \in End : handles[e] <= MaxHandles[e])
    /\ locks \in [End -> 0..2 * Cardinality(Thread)]
    /\ pc \in [Thread -> Labels]
    /\ own \in [Thread -> End \cup {None}] /\ target \in [Thread -> End \cup {None}]
    /\ node \in [Thread -> Message \cup {None}]
    /\ writes \in 0..MaxWrites /\ taken \subseteq 1..writes
    /\ unsignalled \in BOOLEAN /\ crossed \in BOOLEAN /\ undefined \in BOOLEAN

\* Until an end of a queue that may not be broken is closed, no node is lost or
\* counted twice: those in the queue and those being filled are dwCurNumMsg, and
\* with the free list and those being copied out they are the ones PreAllocQNodes
\* made.  Not pre-committed, at most one node is kept (695-706), and it may be
\* written into when dwMaxNumMsg messages wait already: each reader that comes back
\* from its copy can keep a node again, so there may be one message more for every
\* thread but one.
NodesExact ==
    ~invalid =>
        /\ dwCurNumMsg = Len(queue) + Cardinality(Copying("wcopy"))
        /\ IF flags.nocommit
           THEN /\ freeNodes <= 1
                /\ dwCurNumMsg + freeNodes + Cardinality(Copying("rcopy"))
                       <= MaxNumMsg + Cardinality(Thread) - 1
           ELSE dwCurNumMsg + freeNodes + Cardinality(Copying("rcopy")) = MaxNumMsg

QueueSound == TypeOK /\ NodesExact

\* Every message is in one place: waiting in the queue or as the alert, being
\* copied by one thread, read, or thrown away by a fault or a close.
EachMessageOnce ==
    LET copiers == {t \in Thread : node[t] # None} IN
    /\ 1..writes = taken \cup {n.id : n \in Messages} \cup {node[t].id : t \in copiers}
    /\ writes = Cardinality(taken) + Cardinality(Messages) + Cardinality(copiers)
    /\ Cardinality(Messages) = Len(queue) + IF pAlert = None THEN 0 ELSE 1

\* No reader sleeps on the reader's end while a message waits, except until the
\* writer that has just released csLock sets the event (890-895).
NoSleepingReader ==
    \A t \in Thread : pc[t] = "rsleep" /\ target[t] = link.reader /\ ~IsQueueEmpty(queue, pAlert)
        /\ ~Finished("reader")
        => \E u \in Thread : pc[u] = "signal" /\ target[u] = target[t]

\* A message fits within dwMaxNumMsg.
HasRoom == HasNode /\ dwCurNumMsg < MaxNumMsg

\* No writer sleeps while a message fits, except until a reader has copied
\* its message out or MSGQPreClose has been called, or when the node is one that a
\* fault in a writer's copy gave back (875-884 tells nobody), or when the end of a
\* copy has reset an event that MSGQPreClose had set before the reader was replaced.
NoSleepingWriter ==
    \A t \in Thread : pc[t] = "wsleep" /\ target[t] = link.writer /\ HasRoom
        /\ ~Finished("writer") /\ ~unsignalled /\ ~crossed
        => Copying("rcopy") # {} \/ Copying("preclose") # {}

NoSleeper == NoSleepingReader /\ NoSleepingWriter

\* An end is not closed under a call: what a thread works on, or is about to
\* signal, has not been freed.
EndKept ==
    \A t \in Thread :
        /\ own[t] # None => life[own[t]] = "live" \/ undefined
        /\ pc[t] \in {"signal", "unsignal", "closeReader"} => life[target[t]] = "live" \/ undefined

\* An end with handles that the queue does not know of: MSGQClose of its
\* predecessor has unlinked it.
Orphan(e) == handles[e] > 0 /\ link[Side(e)] # e

\* Asleep, though the end has no handles or the queue is broken, and nobody is
\* about to do something about it.
Stranded(t) ==
    /\ pc[t] \in {"rsleep", "wsleep"} /\ Finished(Side(target[t]))
    /\ target[t] = link[Side(target[t])]
    /\ Copying("preclose") = {}

\* "Signal the queue event to wake up all reader/writes" (447): once the last handle of
\* an end is closed no reader and no writer is left asleep.  It is so as long as
\* no copy that was under way ends by resetting the event again and no end is
\* unlinked by its predecessor.
NobodyStranded ==
    crossed \/ undefined \/ (\E e \in End : Orphan(e)) \/ \A t \in Thread : ~Stranded(t)

\* What the comment says without reserve.
CloseWakesAll == \A t \in Thread : ~Stranded(t)
=============================================================================
