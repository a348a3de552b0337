---------------------------- MODULE HandlesProofs ----------------------------
(* Theorems about Handles, for any threads, processes, tables and objects. *)
EXTENDS Handles, FiniteSetTheorems, TLAPS

----------------------------------------------------------------------------
(* The inductive invariant *)

\* Where a call may be with what it holds.
CallOK(t) ==
    /\ pc[t] \in HandlePcs \cup LockPcs \cup {"free"} => phd[t] \in Obj
    /\ pc[t] = "api" => api[t] \in Obj
    /\ api[t] # None => pc[t] \in {"closeH", "preclose", "unlock", "api", "free"}
    /\ pc[t] = "closeH" => api[t] = Class[phd[t]]
    /\ pc[t] \in {"named", "dropH", "map", "dupwith"} => Class[phd[t]] = None
    /\ page[t] # 0 => pc[t] \in {"batch", "closeH", "preclose", "unlock", "api", "free"}
    /\ IF page[t] # 0 THEN prc[t] \in Proc ELSE prc[t] = None
    /\ pc[t] = "batch" => page[t] # 0
    /\ \A s \in Slot : phds[t][s] # None => page[t] # 0
CallsOK == \A t \in Thread : CallOK(t)

\* Nobody opens a name without a handle.
NamedHeld == \A o \in nameList : handles[o] > 0 /\ Class[o] = None

\* CountsExact and NoUseAfterFree need each other: the counts tell the thread
\* that frees an object that nobody holds it, and an object that is made has
\* exact counts because nobody held it before.
Core == TypeOK /\ CallsOK /\ NamedHeld /\ CountsExact /\ NoUseAfterFree
----------------------------------------------------------------------------
(* Counting *)

One(b) == IF b THEN 1 ELSE 0

\* Sets that agree everywhere but at x.
LEMMA CardinalityStep ==
    ASSUME NEW S, NEW T, NEW x, IsFiniteSet(S), \A y : y # x => (y \in S <=> y \in T)
    PROVE  /\ Cardinality(S) \in Nat /\ Cardinality(T) \in Nat
           /\ Cardinality(T) = Cardinality(S) + One(x \in T) - One(x \in S)
<1>1. IsFiniteSet(S \ {x}) /\ Cardinality(S) \in Nat /\ Cardinality(S \ {x}) \in Nat
  BY FS_RemoveElement, FS_CardinalityType
<1>2. Cardinality(S \ {x}) = Cardinality(S) - One(x \in S)
  BY <1>1, FS_RemoveElement DEF One
<1>3. CASE x \in T
  <2>1. T = (S \ {x}) \cup {x} /\ x \notin S \ {x}
    BY <1>3
  <2>2. Cardinality(T) = Cardinality(S \ {x}) + 1
    BY <1>1, <2>1, FS_AddElement
  <2> QED
    BY <1>1, <1>2, <1>3, <2>2 DEF One
<1>4. CASE x \notin T
  <2>1. T = S \ {x}
    BY <1>4
  <2> QED
    BY <1>1, <1>2, <1>4, <2>1 DEF One
<1> QED
  BY <1>3, <1>4

\* The places that can hold an object are finitely many.
LEMMA FinitePlaces == IsFiniteSet(Proc \X Slot) /\ IsFiniteSet(Thread \X Slot)
<1>1. IsFiniteSet(Slot)
  BY FS_Interval, HandlesAssumption DEF Slot
<1> QED
  BY <1>1, FS_Product, HandlesAssumption

\* So are those that hold one object.
LEMMA FiniteHolders ==
    ASSUME NEW o
    PROVE  /\ IsFiniteSet(Entries(o)) /\ IsFiniteSet(Taken(o))
           /\ IsFiniteSet(ClassEntries(o)) /\ IsFiniteSet(ClassTaken(o))
           /\ IsFiniteSet(InCall(HandlePcs, o)) /\ IsFiniteSet(InCall(LockPcs, o))
           /\ IsFiniteSet(ClassInCall(o))
<1>1. /\ Entries(o) \in SUBSET (Proc \X Slot) /\ Taken(o) \in SUBSET (Thread \X Slot)
      /\ ClassEntries(o) \in SUBSET (Proc \X Slot) /\ ClassTaken(o) \in SUBSET (Thread \X Slot)
      /\ InCall(HandlePcs, o) \in SUBSET Thread /\ InCall(LockPcs, o) \in SUBSET Thread
      /\ ClassInCall(o) \in SUBSET Thread
  BY DEF Entries, Taken, ClassEntries, ClassTaken, InCall, ClassInCall
<1> QED
  BY <1>1, FS_Subset, FinitePlaces, HandlesAssumption

\* A step that changes one entry of one table.
LEMMA TableStep ==
    ASSUME NEW p \in Proc, NEW s \in Slot, NEW o,
           \A q \in Proc, r \in Slot : q # p \/ r # s => table'[q][r] = table[q][r]
    PROVE  /\ Cardinality(Entries(o))' = Cardinality(Entries(o))
                  + One(table'[p][s] = o) - One(table[p][s] = o)
           /\ Cardinality(ClassEntries(o))' = Cardinality(ClassEntries(o))
                  + One(ClassOf(table'[p][s]) = o) - One(ClassOf(table[p][s]) = o)
<1>1. \A y : y # <<p, s>> => (y \in Entries(o) <=> y \in Entries(o)')
  BY DEF Entries
<1>2. \A y : y # <<p, s>> => (y \in ClassEntries(o) <=> y \in ClassEntries(o)')
  BY DEF ClassEntries
<1>3. /\ <<p, s>> \in Entries(o) <=> table[p][s] = o
      /\ <<p, s>> \in Entries(o)' <=> table'[p][s] = o
      /\ <<p, s>> \in ClassEntries(o) <=> ClassOf(table[p][s]) = o
      /\ <<p, s>> \in ClassEntries(o)' <=> ClassOf(table'[p][s]) = o
  BY DEF Entries, ClassEntries
<1>4. Cardinality(Entries(o)') = Cardinality(Entries(o))
          + One(<<p, s>> \in Entries(o)') - One(<<p, s>> \in Entries(o))
  BY <1>1, CardinalityStep, FiniteHolders
<1>5. Cardinality(ClassEntries(o)') = Cardinality(ClassEntries(o))
          + One(<<p, s>> \in ClassEntries(o)') - One(<<p, s>> \in ClassEntries(o))
  BY <1>2, CardinalityStep, FiniteHolders
<1> QED
  BY <1>3, <1>4, <1>5 DEF One

\* A step that changes one of the entries a thread has taken.
LEMMA TakenStep ==
    ASSUME NEW t \in Thread, NEW s \in Slot, NEW o,
           \A u \in Thread, r \in Slot : u # t \/ r # s => phds'[u][r] = phds[u][r]
    PROVE  /\ Cardinality(Taken(o))' = Cardinality(Taken(o))
                  + One(phds'[t][s] = o) - One(phds[t][s] = o)
           /\ Cardinality(ClassTaken(o))' = Cardinality(ClassTaken(o))
                  + One(ClassOf(phds'[t][s]) = o) - One(ClassOf(phds[t][s]) = o)
<1>1. \A y : y # <<t, s>> => (y \in Taken(o) <=> y \in Taken(o)')
  BY DEF Taken
<1>2. \A y : y # <<t, s>> => (y \in ClassTaken(o) <=> y \in ClassTaken(o)')
  BY DEF ClassTaken
<1>3. /\ <<t, s>> \in Taken(o) <=> phds[t][s] = o
      /\ <<t, s>> \in Taken(o)' <=> phds'[t][s] = o
      /\ <<t, s>> \in ClassTaken(o) <=> ClassOf(phds[t][s]) = o
      /\ <<t, s>> \in ClassTaken(o)' <=> ClassOf(phds'[t][s]) = o
  BY DEF Taken, ClassTaken
<1>4. Cardinality(Taken(o)') = Cardinality(Taken(o))
          + One(<<t, s>> \in Taken(o)') - One(<<t, s>> \in Taken(o))
  BY <1>1, CardinalityStep, FiniteHolders
<1>5. Cardinality(ClassTaken(o)') = Cardinality(ClassTaken(o))
          + One(<<t, s>> \in ClassTaken(o)') - One(<<t, s>> \in ClassTaken(o))
  BY <1>2, CardinalityStep, FiniteHolders
<1> QED
  BY <1>3, <1>4, <1>5 DEF One

\* A step of the call of one thread.
OnlyCall(t) ==
    \A u \in Thread \ {t} : pc'[u] = pc[u] /\ phd'[u] = phd[u] /\ api'[u] = api[u]

\* It changes each count of the calls by what this call holds before and after.
LEMMA CallStep ==
    ASSUME NEW t \in Thread, NEW o, OnlyCall(t)
    PROVE  /\ Cardinality(InCall(HandlePcs, o))' = Cardinality(InCall(HandlePcs, o))
                  + One(pc'[t] \in HandlePcs /\ phd'[t] = o) - One(pc[t] \in HandlePcs /\ phd[t] = o)
           /\ Cardinality(InCall(LockPcs, o))' = Cardinality(InCall(LockPcs, o))
                  + One(pc'[t] \in LockPcs /\ phd'[t] = o) - One(pc[t] \in LockPcs /\ phd[t] = o)
           /\ Cardinality(ClassInCall(o))' = Cardinality(ClassInCall(o))
                  + One(api'[t] = o) - One(api[t] = o)
<1>1. \A y : y # t => /\ y \in InCall(HandlePcs, o) <=> y \in InCall(HandlePcs, o)'
                      /\ y \in InCall(LockPcs, o) <=> y \in InCall(LockPcs, o)'
                      /\ y \in ClassInCall(o) <=> y \in ClassInCall(o)'
  BY DEF InCall, ClassInCall, OnlyCall, HandlePcs, LockPcs
<1>2. /\ t \in InCall(HandlePcs, o) <=> pc[t] \in HandlePcs /\ phd[t] = o
      /\ t \in InCall(HandlePcs, o)' <=> pc'[t] \in HandlePcs /\ phd'[t] = o
      /\ t \in InCall(LockPcs, o) <=> pc[t] \in LockPcs /\ phd[t] = o
      /\ t \in InCall(LockPcs, o)' <=> pc'[t] \in LockPcs /\ phd'[t] = o
      /\ t \in ClassInCall(o) <=> api[t] = o
      /\ t \in ClassInCall(o)' <=> api'[t] = o
  BY DEF InCall, ClassInCall, HandlePcs, LockPcs
<1>3. Cardinality(InCall(HandlePcs, o)') = Cardinality(InCall(HandlePcs, o))
          + One(t \in InCall(HandlePcs, o)') - One(t \in InCall(HandlePcs, o))
  BY <1>1, CardinalityStep, FiniteHolders
<1>4. Cardinality(InCall(LockPcs, o)') = Cardinality(InCall(LockPcs, o))
          + One(t \in InCall(LockPcs, o)') - One(t \in InCall(LockPcs, o))
  BY <1>1, CardinalityStep, FiniteHolders
<1>5. Cardinality(ClassInCall(o)') = Cardinality(ClassInCall(o))
          + One(t \in ClassInCall(o)') - One(t \in ClassInCall(o))
  BY <1>1, CardinalityStep, FiniteHolders
<1> QED
  BY <1>2, <1>3, <1>4, <1>5 DEF One

\* Sizes are numbers, and stay as they are when nothing moves.
LEMMA CountType ==
    ASSUME NEW o
    PROVE  /\ Cardinality(Entries(o)) \in Nat /\ Cardinality(Taken(o)) \in Nat
           /\ Cardinality(ClassEntries(o)) \in Nat /\ Cardinality(ClassTaken(o)) \in Nat
           /\ Cardinality(InCall(HandlePcs, o)) \in Nat /\ Cardinality(InCall(LockPcs, o)) \in Nat
           /\ Cardinality(ClassInCall(o)) \in Nat
<1> QED
  BY FiniteHolders, FS_CardinalityType

\* Entries move only when a table changes,
LEMMA SameTable ==
    ASSUME NEW o, UNCHANGED table
    PROVE  Entries(o)' = Entries(o) /\ ClassEntries(o)' = ClassEntries(o)
<1> QED
  BY DEF Entries, ClassEntries

\* and taken entries only when a thread takes or closes one.
LEMMA SameTaken ==
    ASSUME NEW o, UNCHANGED phds
    PROVE  Taken(o)' = Taken(o) /\ ClassTaken(o)' = ClassTaken(o)
<1> QED
  BY DEF Taken, ClassTaken

\* What a step of a call adds to the places that hold o.
HandlesAdded(t, o) ==
    One(pc'[t] \in HandlePcs /\ phd'[t] = o) - One(pc[t] \in HandlePcs /\ phd[t] = o)
LocksAdded(t, o) ==
    One(pc'[t] \in LockPcs /\ phd'[t] = o) - One(pc[t] \in LockPcs /\ phd[t] = o)
        + One(api'[t] = o) - One(api[t] = o)

\* The counts stay exact when they change by what a call adds,
LEMMA CountsByCall ==
    ASSUME TypeOK, TypeOK', CountsExact, NEW t \in Thread, OnlyCall(t), UNCHANGED <<table, phds>>,
           \A o \in Obj : handles'[o] = handles[o] + HandlesAdded(t, o),
           \A o \in Obj : locks'[o] = locks[o] + LocksAdded(t, o) + (leaked'[o] - leaked[o])
    PROVE  CountsExact'
<1> SUFFICES ASSUME NEW o \in Obj
             PROVE  /\ handles'[o] = Cardinality(Entries(o)') + Cardinality(Taken(o)')
                           + Cardinality(InCall(HandlePcs, o)')
                    /\ locks'[o] = Cardinality(Taken(o)') + Cardinality(InCall(LockPcs, o)')
                           + Cardinality(ClassEntries(o)') + Cardinality(ClassTaken(o)')
                           + Cardinality(ClassInCall(o)') + leaked'[o]
  BY DEF CountsExact
<1>1. /\ Entries(o)' = Entries(o) /\ ClassEntries(o)' = ClassEntries(o)
      /\ Taken(o)' = Taken(o) /\ ClassTaken(o)' = ClassTaken(o)
  BY SameTable, SameTaken
<1>2. /\ leaked[o] \in Nat /\ leaked'[o] \in Nat
      /\ handles[o] = Cardinality(Entries(o)) + Cardinality(Taken(o))
                          + Cardinality(InCall(HandlePcs, o))
      /\ locks[o] = Cardinality(Taken(o)) + Cardinality(InCall(LockPcs, o))
                        + Cardinality(ClassEntries(o)) + Cardinality(ClassTaken(o))
                        + Cardinality(ClassInCall(o)) + leaked[o]
  BY DEF TypeOK, CountsExact
<1> QED
  BY <1>1, <1>2, CallStep, CountType DEF HandlesAdded, LocksAdded, One

\* by what a call and an entry of a table add,
LEMMA CountsByEntry ==
    ASSUME TypeOK, TypeOK', CountsExact, NEW t \in Thread, OnlyCall(t), UNCHANGED <<phds, leaked>>,
           NEW p \in Proc, NEW s \in Slot,
           \A q \in Proc, r \in Slot : q # p \/ r # s => table'[q][r] = table[q][r],
           \A o \in Obj : handles'[o] = handles[o] + HandlesAdded(t, o)
               + One(table'[p][s] = o) - One(table[p][s] = o),
           \A o \in Obj : locks'[o] = locks[o] + LocksAdded(t, o)
               + One(ClassOf(table'[p][s]) = o) - One(ClassOf(table[p][s]) = o)
    PROVE  CountsExact'
<1> SUFFICES ASSUME NEW o \in Obj
             PROVE  /\ handles'[o] = Cardinality(Entries(o)') + Cardinality(Taken(o)')
                           + Cardinality(InCall(HandlePcs, o)')
                    /\ locks'[o] = Cardinality(Taken(o)') + Cardinality(InCall(LockPcs, o)')
                           + Cardinality(ClassEntries(o)') + Cardinality(ClassTaken(o)')
                           + Cardinality(ClassInCall(o)') + leaked'[o]
  BY DEF CountsExact
<1>1. Taken(o)' = Taken(o) /\ ClassTaken(o)' = ClassTaken(o)
  BY SameTaken
<1>2. /\ leaked[o] \in Nat /\ leaked'[o] = leaked[o]
      /\ handles[o] = Cardinality(Entries(o)) + Cardinality(Taken(o))
                          + Cardinality(InCall(HandlePcs, o))
      /\ locks[o] = Cardinality(Taken(o)) + Cardinality(InCall(LockPcs, o))
                        + Cardinality(ClassEntries(o)) + Cardinality(ClassTaken(o))
                        + Cardinality(ClassInCall(o)) + leaked[o]
  BY DEF TypeOK, CountsExact
<1>3. /\ Cardinality(Entries(o)') = Cardinality(Entries(o))
                  + One(table'[p][s] = o) - One(table[p][s] = o)
      /\ Cardinality(ClassEntries(o)') = Cardinality(ClassEntries(o))
                  + One(ClassOf(table'[p][s]) = o) - One(ClassOf(table[p][s]) = o)
  BY TableStep
<1> QED
  BY <1>1, <1>2, <1>3, CallStep, CountType DEF HandlesAdded, LocksAdded, One

\* and by what a call and a taken entry add.
LEMMA CountsByTaken ==
    ASSUME TypeOK, TypeOK', CountsExact, NEW t \in Thread, OnlyCall(t), UNCHANGED <<table, leaked>>,
           NEW s \in Slot,
           \A u \in Thread, r \in Slot : u # t \/ r # s => phds'[u][r] = phds[u][r],
           \A o \in Obj : handles'[o] = handles[o] + HandlesAdded(t, o)
               + One(phds'[t][s] = o) - One(phds[t][s] = o),
           \A o \in Obj : locks'[o] = locks[o] + LocksAdded(t, o)
               + One(phds'[t][s] = o) - One(phds[t][s] = o)
               + One(ClassOf(phds'[t][s]) = o) - One(ClassOf(phds[t][s]) = o)
    PROVE  CountsExact'
<1> SUFFICES ASSUME NEW o \in Obj
             PROVE  /\ handles'[o] = Cardinality(Entries(o)') + Cardinality(Taken(o)')
                           + Cardinality(InCall(HandlePcs, o)')
                    /\ locks'[o] = Cardinality(Taken(o)') + Cardinality(InCall(LockPcs, o)')
                           + Cardinality(ClassEntries(o)') + Cardinality(ClassTaken(o)')
                           + Cardinality(ClassInCall(o)') + leaked'[o]
  BY DEF CountsExact
<1>1. Entries(o)' = Entries(o) /\ ClassEntries(o)' = ClassEntries(o)
  BY SameTable
<1>2. /\ leaked[o] \in Nat /\ leaked'[o] = leaked[o]
      /\ handles[o] = Cardinality(Entries(o)) + Cardinality(Taken(o))
                          + Cardinality(InCall(HandlePcs, o))
      /\ locks[o] = Cardinality(Taken(o)) + Cardinality(InCall(LockPcs, o))
                        + Cardinality(ClassEntries(o)) + Cardinality(ClassTaken(o))
                        + Cardinality(ClassInCall(o)) + leaked[o]
  BY DEF TypeOK, CountsExact
<1>3. /\ Cardinality(Taken(o)') = Cardinality(Taken(o))
                  + One(phds'[t][s] = o) - One(phds[t][s] = o)
      /\ Cardinality(ClassTaken(o)') = Cardinality(ClassTaken(o))
                  + One(ClassOf(phds'[t][s]) = o) - One(ClassOf(phds[t][s]) = o)
  BY TakenStep
<1> QED
  BY <1>1, <1>2, <1>3, CallStep, CountType DEF HandlesAdded, LocksAdded, One

----------------------------------------------------------------------------
(* Whoever holds an object is counted *)

\* Whether a finite set has a member, by its size.
LEMMA NotEmpty ==
    ASSUME NEW S, IsFiniteSet(S)
    PROVE  S # {} <=> Cardinality(S) > 0
<1> QED
  BY FS_EmptySet, FS_CardinalityType

\* An object is held as long as one of its counts is not zero.
LEMMA HeldByCounts ==
    TypeOK /\ CountsExact =>
        \A o \in Obj : Held(o) <=> handles[o] > 0 \/ locks[o] > leaked[o]
<1> SUFFICES ASSUME TypeOK, CountsExact, NEW o \in Obj
             PROVE  Held(o) <=> handles[o] > 0 \/ locks[o] > leaked[o]
  OBVIOUS
<1>1. /\ leaked[o] \in Nat
      /\ handles[o] = Cardinality(Entries(o)) + Cardinality(Taken(o))
                          + Cardinality(InCall(HandlePcs, o))
      /\ locks[o] = Cardinality(Taken(o)) + Cardinality(InCall(LockPcs, o))
                        + Cardinality(ClassEntries(o)) + Cardinality(ClassTaken(o))
                        + Cardinality(ClassInCall(o)) + leaked[o]
  BY DEF TypeOK, CountsExact
<1>2. /\ Entries(o) # {} <=> Cardinality(Entries(o)) > 0
      /\ Taken(o) # {} <=> Cardinality(Taken(o)) > 0
      /\ InCall(HandlePcs, o) # {} <=> Cardinality(InCall(HandlePcs, o)) > 0
      /\ InCall(LockPcs, o) # {} <=> Cardinality(InCall(LockPcs, o)) > 0
      /\ ClassEntries(o) # {} <=> Cardinality(ClassEntries(o)) > 0
      /\ ClassTaken(o) # {} <=> Cardinality(ClassTaken(o)) > 0
      /\ ClassInCall(o) # {} <=> Cardinality(ClassInCall(o)) > 0
  BY NotEmpty, FiniteHolders
<1>3. InCall(HandlePcs \cup LockPcs, o) # {} <=>
          InCall(HandlePcs, o) # {} \/ InCall(LockPcs, o) # {}
  BY DEF InCall
<1>4. Held(o) <=> \/ Entries(o) # {} \/ Taken(o) # {} \/ InCall(HandlePcs, o) # {}
                  \/ InCall(LockPcs, o) # {}
                  \/ ClassEntries(o) # {} \/ ClassTaken(o) # {} \/ ClassInCall(o) # {}
  BY <1>3 DEF Held
<1> QED
  BY <1>1, <1>2, <1>4, CountType

\* The same of the next state.
LEMMA HeldByCountsPrime ==
    (TypeOK /\ CountsExact)' =>
        (\A o \in Obj : Held(o) <=> handles[o] > 0 \/ locks[o] > leaked[o])'
<1> QED
  BY HeldByCounts, PTL

\* Each place that holds an object has it counted.
LEMMA HolderCounted ==
    ASSUME TypeOK, CountsExact, NEW o \in Obj
    PROVE  /\ Entries(o) # {} \/ Taken(o) # {} \/ InCall(HandlePcs, o) # {} => handles[o] > 0
           /\ \/ Taken(o) # {} \/ InCall(LockPcs, o) # {}
              \/ ClassEntries(o) # {} \/ ClassTaken(o) # {} \/ ClassInCall(o) # {}
              => locks[o] > leaked[o]
<1>1. /\ leaked[o] \in Nat
      /\ handles[o] = Cardinality(Entries(o)) + Cardinality(Taken(o))
                          + Cardinality(InCall(HandlePcs, o))
      /\ locks[o] = Cardinality(Taken(o)) + Cardinality(InCall(LockPcs, o))
                        + Cardinality(ClassEntries(o)) + Cardinality(ClassTaken(o))
                        + Cardinality(ClassInCall(o)) + leaked[o]
  BY DEF TypeOK, CountsExact
<1>2. /\ Entries(o) # {} <=> Cardinality(Entries(o)) > 0
      /\ Taken(o) # {} <=> Cardinality(Taken(o)) > 0
      /\ InCall(HandlePcs, o) # {} <=> Cardinality(InCall(HandlePcs, o)) > 0
      /\ InCall(LockPcs, o) # {} <=> Cardinality(InCall(LockPcs, o)) > 0
      /\ ClassEntries(o) # {} <=> Cardinality(ClassEntries(o)) > 0
      /\ ClassTaken(o) # {} <=> Cardinality(ClassTaken(o)) > 0
      /\ ClassInCall(o) # {} <=> Cardinality(ClassInCall(o)) > 0
  BY NotEmpty, FiniteHolders
<1>3. Entries(o) # {} \/ Taken(o) # {} \/ InCall(HandlePcs, o) # {} => handles[o] > 0
  BY <1>1, <1>2, CountType
<1>4. ASSUME \/ Taken(o) # {} \/ InCall(LockPcs, o) # {}
             \/ ClassEntries(o) # {} \/ ClassTaken(o) # {} \/ ClassInCall(o) # {}
      PROVE  locks[o] > leaked[o]
  BY <1>1, <1>2, <1>4, CountType
<1> QED
  BY <1>3, <1>4

\* An entry of a table holds a handle of its object and a lock of its API set,
LEMMA EntryHolds ==
    ASSUME TypeOK, CountsExact, NEW p \in Proc, NEW s \in Slot, table[p][s] # None
    PROVE  /\ table[p][s] \in Obj /\ handles[table[p][s]] > 0
           /\ Class[table[p][s]] \in Obj =>
                  locks[Class[table[p][s]]] > leaked[Class[table[p][s]]]
<1>1. table[p][s] \in Obj
  BY DEF TypeOK
<1>2. <<p, s>> \in Entries(table[p][s])
  BY DEF Entries
<1>3. <<p, s>> \in ClassEntries(Class[table[p][s]])
  BY DEF ClassEntries, ClassOf
<1> QED
  BY <1>1, <1>2, <1>3, HolderCounted

\* a taken entry a handle and a lock of its object and a lock of its API set,
LEMMA TakenHolds ==
    ASSUME TypeOK, CountsExact, NEW t \in Thread, NEW s \in Slot, phds[t][s] # None
    PROVE  /\ phds[t][s] \in Obj /\ handles[phds[t][s]] > 0
           /\ locks[phds[t][s]] > leaked[phds[t][s]]
           /\ Class[phds[t][s]] \in Obj =>
                  locks[Class[phds[t][s]]] > leaked[Class[phds[t][s]]]
<1>1. phds[t][s] \in Obj
  BY DEF TypeOK
<1>2. <<t, s>> \in Taken(phds[t][s])
  BY DEF Taken
<1>3. <<t, s>> \in ClassTaken(Class[phds[t][s]])
  BY DEF ClassTaken, ClassOf
<1> QED
  BY <1>1, <1>2, <1>3, HolderCounted

\* and a call what its place says.
LEMMA CallHolds ==
    ASSUME TypeOK, CountsExact, NEW t \in Thread
    PROVE  /\ pc[t] \in HandlePcs /\ phd[t] \in Obj => handles[phd[t]] > 0
           /\ pc[t] \in LockPcs /\ phd[t] \in Obj => locks[phd[t]] > leaked[phd[t]]
           /\ api[t] \in Obj => locks[api[t]] > leaked[api[t]]
<1>1. pc[t] \in HandlePcs => t \in InCall(HandlePcs, phd[t])
  BY DEF InCall
<1>2. pc[t] \in LockPcs => t \in InCall(LockPcs, phd[t])
  BY DEF InCall
<1>3. t \in ClassInCall(api[t])
  BY DEF ClassInCall
<1> QED
  BY <1>1, <1>2, <1>3, HolderCounted

----------------------------------------------------------------------------
(* Types *)

\* What the assumption says of objects and their API sets.
LEMMA ObjFacts ==
    /\ None \notin Obj /\ None \notin Proc /\ None \notin Thread
    /\ \A o \in Obj : Class[o] \in Obj \cup {None}
    /\ \A o \in Obj : NameOf[o] # None => Class[o] = None
    /\ \A o \in Obj : Class[o] # None => Class[Class[o]] = None
    /\ \A o \in Multi : Class[o] = None
<1> QED
  BY HandlesAssumption

\* Where a call goes on after a lock is dropped.
LEMMA ContinueType ==
    ASSUME NEW t, NEW a
    PROVE  /\ Continue(t, a) \in {"api", "batch", "undo", "idle"}
           /\ Continue(t, a) = "api" <=> a # None
           /\ Continue(t, a) = "batch" <=> a = None /\ page[t] # 0
           /\ page[t] # 0 \/ a # None => Continue(t, a) \in {"api", "batch"}
<1> QED
  BY DEF Continue

\* What DoUnlockHDATA of HNDL_REF leaves: only the last handle goes on to the pre-close
\* method or to the object's end.
LEMMA DropHandleEffect ==
    ASSUME Core, NEW t \in Thread, DropHandle(t)
    PROVE  /\ phd[t] \in Obj /\ handles[phd[t]] > 0
           /\ handles' = [handles EXCEPT ![phd[t]] = @ - 1]
           /\ \/ /\ pc[t] = "closeH" /\ locks[phd[t]] > leaked[phd[t]]
                 /\ pc'[t] \in {"preclose", "unlock"}
                 /\ phd' = phd
                 /\ pc'[t] = "preclose" => handles[phd[t]] = 1
              \/ /\ pc[t] = "dropH" /\ pc'[t] = "free" /\ phd' = phd
                 /\ handles[phd[t]] = 1 /\ locks[phd[t]] = 0
              \/ /\ pc[t] = "dropH" /\ pc'[t] = "precloseU" /\ phd' = phd
                 /\ handles[phd[t]] = 1 /\ locks[phd[t]] # 0
              \/ /\ pc[t] = "dropH" /\ pc'[t] \in {"undo", "idle"}
                 /\ phd' \in {phd, [phd EXCEPT ![t] = None]}
                 /\ ~(handles[phd[t]] = 1 /\ locks[phd[t]] = 0)
           /\ pc' = [pc EXCEPT ![t] = pc'[t]]
<1>1. CallOK(t) /\ TypeOK /\ CountsExact
  BY DEF Core, CallsOK
<1>2. pc[t] \in {"closeH", "dropH"} /\ pc[t] \in HandlePcs
  BY DEF DropHandle, HandlePcs
<1>3. phd[t] \in Obj /\ handles[phd[t]] > 0
  BY <1>1, <1>2, CallHolds DEF CallOK
<1>4. CASE pc[t] = "closeH"
  <2>1. locks[phd[t]] > leaked[phd[t]] /\ locks[phd[t]] # 0
    BY <1>1, <1>3, <1>4, CallHolds DEF LockPcs, TypeOK
  <2>2. \/ Go(t, "preclose") /\ handles[phd[t]] = 1
        \/ Go(t, "unlock")
    BY <1>4, <2>1 DEF DropHandle
  <2> QED
    BY <1>1, <1>3, <1>4, <2>1, <2>2 DEF Go, Goto, TypeOK, DropHandle
<1>5. CASE pc[t] = "dropH"
  <2>1. page[t] = 0
    BY <1>1, <1>5 DEF CallOK
  <2>2. Continue(t, None) \in {"undo", "idle"}
    BY <2>1, ContinueType
  <2>3. \/ Go(t, "free") /\ handles[phd[t]] = 1 /\ locks[phd[t]] = 0
        \/ Go(t, "precloseU") /\ handles[phd[t]] = 1 /\ locks[phd[t]] # 0
        \/ Go(t, Continue(t, None)) /\ ~(handles[phd[t]] = 1 /\ locks[phd[t]] = 0)
    BY <1>5 DEF DropHandle
  <2> QED
    BY <1>1, <1>3, <1>5, <2>2, <2>3 DEF Go, Goto, TypeOK, DropHandle
<1> QED
  BY <1>2, <1>4, <1>5

\* A jump moves one thread.
LEMMA GotoMoves ==
    ASSUME TypeOK, NEW t \in Thread, NEW l \in Labels, pc' = [pc EXCEPT ![t] = l]
    PROVE  /\ pc' \in [Thread -> Labels] /\ pc'[t] = l
           /\ \A u \in Thread \ {t} : pc'[u] = pc[u]
<1> QED
  BY DEF TypeOK

\* What UnlockHandleData leaves: only the last count frees.
LEMMA DropLockEffect ==
    ASSUME Core, NEW t \in Thread, DropLock(t)
    PROVE  LET o == IF pc[t] = "api" THEN api[t] ELSE phd[t]
               a == IF pc[t] = "api" THEN None ELSE api[t]
           IN  /\ o \in Obj /\ locks[o] > leaked[o] /\ locks[o] > 0
               /\ pc[t] \in {"unlock", "api"}
               /\ locks' = [locks EXCEPT ![o] = @ - 1]
               /\ api' = [api EXCEPT ![t] = a]
               /\ IF handles[o] = 0 /\ locks[o] = 1
                  THEN pc' = [pc EXCEPT ![t] = "free"] /\ phd' = [phd EXCEPT ![t] = o]
                  ELSE pc' = [pc EXCEPT ![t] = Continue(t, a)] /\ phd' = [phd EXCEPT ![t] = None]
<1>1. CallOK(t) /\ TypeOK /\ CountsExact
  BY DEF Core, CallsOK
<1>2. CASE pc[t] = "api"
  <2>1. api[t] \in Obj /\ locks[api[t]] > leaked[api[t]] /\ locks[api[t]] > 0
    BY <1>1, <1>2, CallHolds DEF CallOK, TypeOK
  <2> QED
    BY <1>2, <2>1 DEF DropLock, LastLock, Goto
<1>3. CASE pc[t] = "unlock"
  <2>1. phd[t] \in Obj /\ locks[phd[t]] > leaked[phd[t]] /\ locks[phd[t]] > 0
    BY <1>1, <1>3, CallHolds DEF CallOK, TypeOK, LockPcs
  <2> QED
    BY <1>3, <2>1 DEF DropLock, LastLock, Goto
<1> QED
  BY <1>2, <1>3 DEF DropLock

\* The entries of a page that hold an object, or an object of an API set.
OnPage(p, n, o) == {s \in PageSlots(n) : table[p][s] = o}
ClassOnPage(p, n, o) == {s \in PageSlots(n) : ClassOf(table[p][s]) = o}

\* There are finitely many of them.
LEMMA OnPageType ==
    ASSUME NEW p, NEW n, NEW o
    PROVE  /\ IsFiniteSet(OnPage(p, n, o)) /\ Cardinality(OnPage(p, n, o)) \in Nat
           /\ IsFiniteSet(ClassOnPage(p, n, o)) /\ Cardinality(ClassOnPage(p, n, o)) \in Nat
<1>1. IsFiniteSet(Slot)
  BY FS_Interval, HandlesAssumption DEF Slot
<1>2. OnPage(p, n, o) \in SUBSET Slot /\ ClassOnPage(p, n, o) \in SUBSET Slot
  BY DEF OnPage, ClassOnPage, PageSlots
<1> QED
  BY <1>1, <1>2, FS_Subset, FS_CardinalityType

\* Taking a page keeps the types.
LEMMA TakePageType ==
    ASSUME TypeOK, NEW t \in Thread, NEW p \in Proc, NEW n \in Nat, TakePage(t, p, n)
    PROVE  /\ table' \in [Proc -> [Slot -> Obj \cup {None}]]
           /\ locks' \in [Obj -> Nat]
           /\ phds' \in [Thread -> [Slot -> Obj \cup {None}]]
           /\ prc' \in [Thread -> Proc \cup {None}] /\ page' \in [Thread -> Nat]
<1>1. \A o \in Obj : Cardinality(OnPage(p, n, o)) \in Nat
  BY OnPageType
<1>2. locks' = [o \in Obj |-> locks[o] + Cardinality(OnPage(p, n, o))]
  BY DEF TakePage, OnPage
<1>3. locks' \in [Obj -> Nat]
  BY <1>1, <1>2 DEF TypeOK
<1> QED
  BY <1>3 DEF TakePage, TypeOK

\* A counter counts on, whatever is counted.
LEMMA CountedType ==
    ASSUME NEW f \in [Obj -> Nat], NEW x
    PROVE  [f EXCEPT ![x] = @ + 1] \in [Obj -> Nat]
<1>1. CASE x \in Obj
  BY <1>1
<1>2. CASE x \notin Obj
  BY <1>2
<1> QED
  BY <1>1, <1>2

\* Two counts of the same object go up together.
LEMMA BumpBoth ==
    ASSUME NEW f \in [Obj -> Nat], NEW g \in [Obj -> Nat], NEW x \in Obj \cup {None}
    PROVE  /\ Bump(f, x) \in [Obj -> Nat] /\ Bump(g, x) \in [Obj -> Nat]
           /\ \A o \in Obj : Bump(f, x)[o] - Bump(g, x)[o] = f[o] - g[o]
<1>1. CASE x = None
  BY <1>1 DEF Bump
<1>2. CASE x \in Obj /\ x # None
  <2>1. /\ Bump(f, x) = [f EXCEPT ![x] = @ + 1]
        /\ Bump(g, x) = [g EXCEPT ![x] = @ + 1]
    BY <1>2 DEF Bump
  <2>2. \A o \in Obj : f[o] \in Nat /\ g[o] \in Nat
    OBVIOUS
  <2> QED
    BY <1>2, <2>1, <2>2
<1> QED
  BY <1>1, <1>2

\* TypeOK holds in the initial states
LEMMA TypeInit == Init => TypeOK
<1> QED
  BY ObjFacts DEF Init, TypeOK, Labels

\* and is kept by every step, the counts staying natural numbers: nobody drops a count
\* that was not taken.
LEMMA TypeStep ==
    ASSUME Core, [Next]_vars
    PROVE  TypeOK'
<1> USE ObjFacts DEF Core
<1>1. CASE UNCHANGED vars
  BY <1>1 DEF vars, objVars, callVars, history, TypeOK
<1>2. ASSUME NEW t \in Thread, EndUse(t) \/ MapView(t) \/ PreClose(t) \/ Undo(t)
                 \/ CheckCount(t, "map") \/ CheckCount(t, "dupwith") \/ DupRead(t)
      PROVE  TypeOK'
  <2>1. CASE EndUse(t) \/ CheckCount(t, "map") \/ CheckCount(t, "dupwith") \/ DupRead(t)
    BY ZenonT(30), <2>1 DEF EndUse, CheckCount, DupRead, Goto, history, objVars, TypeOK, Labels
  <2>2. CASE MapView(t)
    <3>1. phd[t] \in Obj
      BY <2>2 DEF MapView, CallsOK, CallOK, LockPcs
    <3> QED
      BY <2>2, <3>1 DEF MapView, Revive, Goto, TypeOK, Labels
  <2>3. CASE PreClose(t)
    <3>1. /\ phd' \in [Thread -> Obj \cup {None}] /\ pc' \in [Thread -> Labels]
      BY <2>3, ContinueType DEF PreClose, Go, Goto, TypeOK, Labels
    <3> QED
      BY <2>3, <3>1, CountedType DEF PreClose, objVars, TypeOK
  <2>4. CASE Undo(t)
    <3>1. tornDown' \in [Obj -> Nat]
      BY <2>4, CountedType DEF Undo, TypeOK
    <3> QED
      BY <2>4, <3>1 DEF Undo, Goto, objVars, TypeOK, Labels
  <2> QED
    BY <1>2, <2>1, <2>2, <2>3, <2>4
<1>3. ASSUME NEW t \in Thread, NEW p \in Proc,
             NamedFail(t, p) \/ DupNoEntry(t, p) \/ DupWithNoEntry(t, p)
      PROVE  TypeOK'
  BY ZenonT(30), <1>3
     DEF NamedFail, DupNoEntry, DupWithNoEntry, Goto, history, objVars, TypeOK, Labels
<1>4. ASSUME NEW t \in Thread, NEW p \in Proc, NEW s \in Slot,
             NamedEntry(t, p, s) \/ DupWithHDATA(t, p, s)
      PROVE  TypeOK'
  <2>1. phd[t] \in Obj
    BY <1>4 DEF NamedEntry, DupWithHDATA, CallsOK, CallOK, LockPcs, HandlePcs
  <2>2. CASE NamedEntry(t, p, s)
    BY <2>1, <2>2 DEF NamedEntry, Enter, Goto, history, objVars, TypeOK, Labels
  <2>3. CASE DupWithHDATA(t, p, s)
    BY <2>1, <2>3 DEF DupWithHDATA, Enter, Revive, Goto, TypeOK, Labels
  <2> QED
    BY <1>4, <2>2, <2>3
<1>5. ASSUME NEW t \in Thread, NEW p \in Proc, NEW s \in Slot, DupEntry(t, p, s)
      PROVE  TypeOK'
  BY <1>5 DEF DupEntry, CallsOK, CallOK, LockPcs, Enter, CountClass, Bump, Goto, history, objVars,
     TypeOK, Labels
<1>6. ASSUME NEW t \in Thread, NEW p \in Proc, NEW s \in Slot, DupRefused(t, p, s)
      PROVE  TypeOK'
  <2>1. phd[t] \in Obj
    BY <1>6 DEF DupRefused, CallsOK, CallOK, LockPcs
  <2>2. /\ CountClass(locks, phd[t]) \in [Obj -> Nat]
        /\ CountClass(leaked, phd[t]) \in [Obj -> Nat]
    BY <2>1 DEF CountClass, Bump, TypeOK
  <2>3. locks' \in [Obj -> Nat] /\ leaked' \in [Obj -> Nat]
    BY <1>6, <2>1, <2>2 DEF DupRefused, Bump
  <2> QED
    BY <1>6, <2>3 DEF DupRefused, Goto, TypeOK, Labels
<1>7. ASSUME NEW t \in Thread, NEW s \in Slot, CloseNext(t, s)
      PROVE  TypeOK'
  BY <1>7 DEF CloseNext, Goto, history, objVars, TypeOK, Labels
<1>8. ASSUME NEW t \in Thread, NextPage(t) \/ DeleteTable(t)
      PROVE  TypeOK'
  <2>1. CASE NextPage(t)
    <3>1. prc[t] \in Proc /\ page[t] + 1 \in Nat
      BY <2>1 DEF NextPage, BatchDone, CallsOK, CallOK, TypeOK
    <3> QED
      BY <2>1, <3>1, TakePageType DEF NextPage, history, TypeOK
  <2>2. CASE DeleteTable(t)
    BY <2>2 DEF DeleteTable, Goto, history, objVars, TypeOK, Labels
  <2> QED
    BY <1>8, <2>1, <2>2
<1>9. ASSUME NEW t \in Thread, DropHandle(t)
      PROVE  TypeOK'
  <2>1. handles[phd[t]] - 1 \in Nat /\ phd[t] \in Obj
    BY <1>9, DropHandleEffect DEF TypeOK
  <2>2. phd' \in [Thread -> Obj \cup {None}] /\ pc' \in [Thread -> Labels]
    <3>1. phd' \in {phd, [phd EXCEPT ![t] = None]}
      BY <1>9, DropHandleEffect
    <3>2. pc'[t] \in Labels
      BY <1>9, DropHandleEffect DEF Labels
    <3>3. pc' = [pc EXCEPT ![t] = pc'[t]]
      BY <1>9, DropHandleEffect
    <3>4. \A l \in Labels : [pc EXCEPT ![t] = l] \in [Thread -> Labels]
      BY DEF TypeOK
    <3> QED
      BY <3>1, <3>2, <3>3, <3>4 DEF TypeOK
  <2> QED
    <3>1. nameList' \in SUBSET Obj
      BY <1>9 DEF DropHandle, NamesWithout, TypeOK
    <3>2. handles' \in [Obj -> Nat]
      BY <1>9, <2>1, DropHandleEffect DEF TypeOK
    <3>3. UNCHANGED <<table, tstate, locks, life, api, created, phds, prc, page, history>>
      BY <1>9 DEF DropHandle
    <3> QED
      BY <2>2, <3>1, <3>2, <3>3 DEF history, TypeOK
<1>10. ASSUME NEW t \in Thread, DropLock(t)
      PROVE  TypeOK'
  <2> DEFINE o == IF pc[t] = "api" THEN api[t] ELSE phd[t]
             a == IF pc[t] = "api" THEN None ELSE api[t]
  <2>1. /\ o \in Obj /\ locks[o] > 0 /\ a \in Obj \cup {None}
        /\ locks' = [locks EXCEPT ![o] = @ - 1]
        /\ api' = [api EXCEPT ![t] = a]
        /\ \/ pc' = [pc EXCEPT ![t] = "free"] /\ phd' = [phd EXCEPT ![t] = o]
           \/ pc' = [pc EXCEPT ![t] = Continue(t, a)] /\ phd' = [phd EXCEPT ![t] = None]
    BY <1>10, DropLockEffect DEF TypeOK
  <2>2. Continue(t, a) \in Labels
    BY ContinueType DEF Labels
  <2> HIDE DEF o, a
  <2>3. /\ locks' \in [Obj -> Nat] /\ api' \in [Thread -> Obj \cup {None}]
    BY <2>1 DEF TypeOK
  <2>4. phd' \in [Thread -> Obj \cup {None}] /\ pc' \in [Thread -> Labels]
    <3>1. "free" \in Labels
      BY DEF Labels
    <3>2. pc' \in [Thread -> Labels]
      BY <2>1, <2>2, <3>1, GotoMoves
    <3>3. phd' \in [Thread -> Obj \cup {None}]
      BY ZenonT(30), <2>1 DEF TypeOK
    <3> QED
      BY <3>2, <3>3
  <2>5. UNCHANGED <<table, tstate, handles, life, nameList, created, phds, prc, page, history>>
    BY <1>10 DEF DropLock
  <2> QED
    BY <2>3, <2>4, <2>5 DEF history, TypeOK
<1>11. ASSUME NEW t \in Thread, Free(t)
      PROVE  TypeOK'
  <2>1. phd' \in [Thread -> Obj \cup {None}] /\ pc' \in [Thread -> Labels]
    BY <1>11, ContinueType DEF Free, Goto, TypeOK, Labels
  <2> QED
    BY <1>11, <2>1 DEF Free, CallsOK, CallOK, TypeOK
<1>12. ASSUME NEW t \in Thread, NEW p \in Proc, CloseAll(t, p)
      PROVE  TypeOK'
  <2>1. TakePage(t, p, 1) /\ 1 \in Nat
    BY <1>12 DEF CloseAll
  <2> QED
    BY <1>12, <2>1, TakePageType DEF CloseAll, Goto, history, TypeOK, Labels
<1>13. ASSUME NEW t \in Thread, NEW p \in Proc, NEW s \in Slot,
             Lock(t, p, s) \/ Duplicate(t, p, s) \/ Zap(t, p, s)
      PROVE  TypeOK'
  <2>1. table[p][s] \in Obj
    BY <1>13 DEF Lock, Duplicate, Zap, Live, TypeOK
  <2>2. CASE Lock(t, p, s) \/ Duplicate(t, p, s)
    <3>1. locks' = [locks EXCEPT ![table[p][s]] = @ + 1] /\ phd' = [phd EXCEPT ![t] = table[p][s]]
      BY <2>2 DEF Lock, Duplicate
    <3>2. locks' \in [Obj -> Nat] /\ phd' \in [Thread -> Obj \cup {None}]
      BY <2>1, <3>1 DEF TypeOK
    <3>3. pc' \in [Thread -> Labels]
      <4>1. pc' = [pc EXCEPT ![t] = "using"] \/ pc' = [pc EXCEPT ![t] = "dup"]
        BY <2>2 DEF Lock, Duplicate, Goto
      <4>2. "using" \in Labels /\ "dup" \in Labels
        BY DEF Labels
      <4> QED
        BY <4>1, <4>2, GotoMoves
    <3>4. UNCHANGED <<table, tstate, handles, life, nameList, api, created, phds, prc, page, history>>
      BY <2>2 DEF Lock, Duplicate
    <3> QED
      BY <3>2, <3>3, <3>4 DEF history, TypeOK
  <2>3. CASE Zap(t, p, s)
    BY <2>1, <2>3 DEF Zap, Enter, Goto, history, TypeOK, Labels
  <2> QED
    BY <1>13, <2>2, <2>3
<1>14. ASSUME NEW t \in Thread, NEW p \in Proc, NEW s \in Slot, NEW o \in Obj, Create(t, p, s, o)
      PROVE  TypeOK'
  BY <1>14 DEF Create, CountClass, Bump, Enter, history, callVars, TypeOK, Labels
<1>15. ASSUME NEW t \in Thread, NEW o \in Obj, OpenNamed(t, o) \/ CreateNamed(t, o)
      PROVE  TypeOK'
  <2>1. CASE OpenNamed(t, o)
    BY <2>1 DEF OpenNamed, Goto, history, TypeOK, Labels
  <2>2. CASE CreateNamed(t, o)
    BY <2>2 DEF CreateNamed, Goto, history, TypeOK, Labels
  <2> QED
    BY <1>15, <2>1, <2>2
<1> QED
  BY <1>1, <1>2, <1>3, <1>4, <1>5, <1>6, <1>7, <1>8, <1>9, <1>10, <1>11, <1>12, <1>13, <1>14, <1>15
  DEF Next, Step

----------------------------------------------------------------------------
(* Calls *)

\* A step of one thread leaves the calls of the others alone.
OnlyMoves(t) ==
    \A u \in Thread \ {t} :
        /\ pc'[u] = pc[u] /\ phd'[u] = phd[u] /\ api'[u] = api[u]
        /\ page'[u] = page[u] /\ prc'[u] = prc[u] /\ phds'[u] = phds[u]

LEMMA CallsByOne ==
    ASSUME CallsOK, NEW t \in Thread, OnlyMoves(t), CallOK(t)'
    PROVE  CallsOK'
<1> SUFFICES ASSUME NEW u \in Thread, u # t PROVE CallOK(u)'
  BY DEF CallsOK
<1>1. CallOK(u)
  BY DEF CallsOK
<1> QED
  BY <1>1 DEF OnlyMoves, CallOK

\* CallsOK is kept by every step.
LEMMA CallsStep ==
    ASSUME Core, [Next]_vars
    PROVE  CallsOK'
<1> USE ObjFacts DEF Core
<1>1. CASE UNCHANGED vars
  BY <1>1 DEF vars, callVars, CallsOK, CallOK
<1> DEFINE Moved(t) == OnlyMoves(t) /\ CallOK(t)'
<1>2. ASSUME NEW t \in Thread, EndUse(t) \/ PreClose(t) \/ Undo(t)
                 \/ CheckCount(t, "map") \/ CheckCount(t, "dupwith") \/ DupRead(t) \/ MapView(t)
      PROVE  Moved(t)
  <2>1. CallOK(t)
    BY DEF CallsOK
  <2> QED
    BY <1>2, <2>1, ContinueType DEF EndUse, MapView, PreClose, Undo, CheckCount, DupRead, Go, Goto,
       OnlyMoves, CallOK, TypeOK, HandlePcs, LockPcs
<1>3. ASSUME NEW t \in Thread, NEW p \in Proc,
             NamedFail(t, p) \/ DupNoEntry(t, p) \/ DupWithNoEntry(t, p)
      PROVE  Moved(t)
  <2>1. CallOK(t)
    BY DEF CallsOK
  <2> QED
    BY <1>3, <2>1 DEF NamedFail, DupNoEntry, DupWithNoEntry, Goto, OnlyMoves, CallOK, TypeOK,
       HandlePcs, LockPcs
<1>4. ASSUME NEW t \in Thread, NEW p \in Proc, NEW s \in Slot,
             NamedEntry(t, p, s) \/ DupEntry(t, p, s) \/ DupRefused(t, p, s) \/ DupWithHDATA(t, p, s)
      PROVE  Moved(t)
  <2>1. CallOK(t)
    BY DEF CallsOK
  <2> QED
    BY <1>4, <2>1 DEF NamedEntry, DupEntry, DupRefused, DupWithHDATA, Goto, OnlyMoves, CallOK,
       TypeOK, HandlePcs, LockPcs
<1>5. ASSUME NEW t \in Thread, NEW s \in Slot, CloseNext(t, s)
      PROVE  Moved(t)
  <2>1. CallOK(t)
    BY DEF CallsOK
  <2> QED
    BY <1>5, <2>1 DEF CloseNext, Goto, OnlyMoves, CallOK, TypeOK, HandlePcs, LockPcs
<1>6. ASSUME NEW t \in Thread, NextPage(t)
      PROVE  Moved(t)
  <2>1. CallOK(t)
    BY DEF CallsOK
  <2> QED
    BY <1>6, <2>1 DEF NextPage, BatchDone, TakePage, OnlyMoves, CallOK, TypeOK, HandlePcs, LockPcs
<1>7. ASSUME NEW t \in Thread, DeleteTable(t)
      PROVE  Moved(t)
  <2>1. CallOK(t)
    BY DEF CallsOK
  <2> QED
    BY <1>7, <2>1 DEF DeleteTable, BatchDone, Goto, OnlyMoves, CallOK, TypeOK, HandlePcs, LockPcs
<1>8. ASSUME NEW t \in Thread, DropHandle(t)
      PROVE  Moved(t)
  <2>1. CallOK(t)
    BY DEF CallsOK
  <2>2. UNCHANGED <<api, page, prc, phds>>
    BY <1>8 DEF DropHandle
  <2>3. OnlyMoves(t) /\ phd[t] \in Obj /\ (phd'[t] = phd[t] \/ pc'[t] \in {"undo", "idle"})
    BY <1>8, <2>2, DropHandleEffect DEF OnlyMoves, TypeOK
  <2>4. \/ pc[t] = "closeH" /\ pc'[t] \in {"preclose", "unlock"}
        \/ pc[t] = "dropH" /\ pc'[t] \in {"free", "precloseU", "undo", "idle"}
    BY <1>8, DropHandleEffect
  <2>5. CallOK(t)'
    BY SMTT(30), <2>1, <2>2, <2>3, <2>4 DEF CallOK, HandlePcs, LockPcs
  <2> QED
    BY <2>3, <2>5
<1>9. ASSUME NEW t \in Thread, DropLock(t)
      PROVE  Moved(t)
  <2>1. CallOK(t)
    BY DEF CallsOK
  <2>2. UNCHANGED <<page, prc, phds>>
    BY <1>9 DEF DropLock
  <2> DEFINE o == IF pc[t] = "api" THEN api[t] ELSE phd[t]
             a == IF pc[t] = "api" THEN None ELSE api[t]
  <2>3. /\ o \in Obj /\ pc[t] \in {"unlock", "api"}
        /\ api' = [api EXCEPT ![t] = a]
        /\ \/ pc' = [pc EXCEPT ![t] = "free"] /\ phd' = [phd EXCEPT ![t] = o]
           \/ pc' = [pc EXCEPT ![t] = Continue(t, a)] /\ phd' = [phd EXCEPT ![t] = None]
    BY <1>9, DropLockEffect
  <2>4. a # None => a \in Obj
    BY DEF TypeOK
  <2> HIDE DEF o, a
  <2>5. OnlyMoves(t)
    BY <2>2, <2>3 DEF OnlyMoves, TypeOK
  <2>6. CASE pc' = [pc EXCEPT ![t] = "free"] /\ phd' = [phd EXCEPT ![t] = o]
    <3>1. pc'[t] = "free" /\ phd'[t] \in Obj /\ api'[t] = a /\ page'[t] = page[t]
          /\ prc'[t] = prc[t] /\ phds'[t] = phds[t]
      BY <2>2, <2>3, <2>6 DEF TypeOK
    <3> QED
      BY <2>1, <2>5, <3>1 DEF CallOK, HandlePcs, LockPcs
  <2>7. CASE pc' = [pc EXCEPT ![t] = Continue(t, a)] /\ phd' = [phd EXCEPT ![t] = None]
    <3>1. pc'[t] = Continue(t, a) /\ api'[t] = a /\ page'[t] = page[t]
          /\ prc'[t] = prc[t] /\ phds'[t] = phds[t]
      BY <2>2, <2>3, <2>7 DEF TypeOK
    <3> QED
      BY <2>1, <2>4, <2>5, <3>1, ContinueType DEF CallOK, HandlePcs, LockPcs
  <2> QED
    BY <2>3, <2>6, <2>7
<1>10. ASSUME NEW t \in Thread, Free(t)
      PROVE  Moved(t)
  <2>1. CallOK(t)
    BY DEF CallsOK
  <2> QED
    <3>1. OnlyMoves(t)
      BY <1>10 DEF Free, Goto, OnlyMoves, TypeOK
    <3>2. pc'[t] = Continue(t, api[t]) /\ api'[t] = api[t] /\ page'[t] = page[t]
          /\ prc'[t] = prc[t] /\ phds'[t] = phds[t] /\ pc[t] = "free"
          /\ api[t] \in Obj \cup {None}
      BY <1>10 DEF Free, Goto, TypeOK
    <3> QED
      BY <2>1, <3>1, <3>2, ContinueType DEF CallOK, HandlePcs, LockPcs
<1>11. ASSUME NEW t \in Thread, NEW p \in Proc, CloseAll(t, p)
      PROVE  Moved(t)
  <2>1. CallOK(t)
    BY DEF CallsOK
  <2> QED
    BY <1>11, <2>1 DEF CloseAll, TakePage, Goto, OnlyMoves, CallOK, TypeOK, HandlePcs, LockPcs
<1>12. ASSUME NEW t \in Thread, NEW p \in Proc, NEW s \in Slot,
             Lock(t, p, s) \/ Duplicate(t, p, s) \/ Zap(t, p, s)
      PROVE  Moved(t)
  <2>1. CallOK(t)
    BY DEF CallsOK
  <2> QED
    BY <1>12, <2>1 DEF Lock, Duplicate, Zap, Live, Goto, OnlyMoves, CallOK, TypeOK, HandlePcs, LockPcs
<1>13. ASSUME NEW t \in Thread, NEW p \in Proc, NEW s \in Slot, NEW o \in Obj, Create(t, p, s, o)
      PROVE  Moved(t)
  <2>1. CallOK(t)
    BY DEF CallsOK
  <2> QED
    BY <1>13, <2>1 DEF Create, callVars, OnlyMoves, CallOK
<1>14. ASSUME NEW t \in Thread, NEW o \in Obj, OpenNamed(t, o) \/ CreateNamed(t, o)
      PROVE  Moved(t)
  <2>1. CallOK(t)
    BY DEF CallsOK
  <2> QED
    BY <1>14, <2>1 DEF OpenNamed, CreateNamed, NamedHeld, Goto, OnlyMoves, CallOK, TypeOK,
       HandlePcs, LockPcs
<1> HIDE DEF Moved
<1>15. (\E t \in Thread : Moved(t)) => CallsOK'
  BY CallsByOne DEF Moved
<1> QED
  BY <1>1, <1>2, <1>3, <1>4, <1>5, <1>6, <1>7, <1>8, <1>9, <1>10, <1>11, <1>12, <1>13, <1>14, <1>15
  DEF Next, Step

----------------------------------------------------------------------------
(* Names *)

\* NamedHeld is kept by every step: the last handle of a named object takes its name
\* along.
LEMMA NamedStep ==
    ASSUME Core, [Next]_vars
    PROVE  NamedHeld'
<1> USE ObjFacts DEF Core
<1>1. CASE UNCHANGED vars
  BY <1>1 DEF vars, objVars, NamedHeld
<1>2. ASSUME UNCHANGED <<handles, nameList>>
      PROVE  NamedHeld'
  BY <1>2 DEF NamedHeld
<1>3. ASSUME UNCHANGED nameList, NEW o \in Obj, handles' = [handles EXCEPT ![o] = @ + 1]
      PROVE  NamedHeld'
  BY <1>3 DEF NamedHeld, TypeOK
<1>4. ASSUME NEW t \in Thread, MapView(t) \/ \E p \in Proc, s \in Slot :
                 DupEntry(t, p, s) \/ DupWithHDATA(t, p, s)
      PROVE  NamedHeld'
  <2>1. phd[t] \in Obj /\ UNCHANGED nameList /\ handles' = [handles EXCEPT ![phd[t]] = @ + 1]
    BY <1>4 DEF MapView, DupEntry, DupWithHDATA, CallsOK, CallOK, LockPcs
  <2> QED
    BY <1>3, <2>1
<1>5. ASSUME NEW t \in Thread, DropHandle(t)
      PROVE  NamedHeld'
  <2>1. nameList' = NamesWithout(phd[t])
    BY <1>5 DEF DropHandle
  <2> QED
    BY <1>5, <2>1, DropHandleEffect DEF NamedHeld, NamesWithout, TypeOK
<1>6. ASSUME NEW t \in Thread, NEW p \in Proc, NEW s \in Slot, NEW o \in Obj, Create(t, p, s, o)
      PROVE  NamedHeld'
  BY <1>6 DEF Create, NamedHeld, TypeOK
<1>7. ASSUME NEW t \in Thread, NEW o \in Obj, OpenNamed(t, o) \/ CreateNamed(t, o)
      PROVE  NamedHeld'
  <2>1. CASE OpenNamed(t, o)
    BY <2>1 DEF OpenNamed, NamedHeld, TypeOK
  <2>2. CASE CreateNamed(t, o)
    BY <2>2 DEF CreateNamed, NamedHeld, TypeOK
  <2> QED
    BY <1>7, <2>1, <2>2
<1>8. ASSUME NEW t \in Thread,
             \/ EndUse(t) \/ NextPage(t) \/ DeleteTable(t) \/ PreClose(t) \/ DropLock(t)
             \/ Free(t) \/ Undo(t) \/ CheckCount(t, "map") \/ CheckCount(t, "dupwith") \/ DupRead(t)
             \/ \E s \in Slot : CloseNext(t, s)
             \/ \E p \in Proc : NamedFail(t, p) \/ DupNoEntry(t, p) \/ DupWithNoEntry(t, p)
                                    \/ CloseAll(t, p)
             \/ \E p \in Proc, s \in Slot : NamedEntry(t, p, s) \/ DupRefused(t, p, s)
                    \/ Lock(t, p, s) \/ Duplicate(t, p, s) \/ Zap(t, p, s)
      PROVE  UNCHANGED <<handles, nameList>>
  BY <1>8 DEF EndUse, NextPage, DeleteTable, PreClose, DropLock, Free, Undo, CheckCount, DupRead, CloseNext,
     NamedFail, DupNoEntry, DupWithNoEntry, CloseAll, NamedEntry, DupRefused, Lock, Duplicate, Zap,
     objVars
<1> QED
  BY <1>1, <1>2, <1>4, <1>5, <1>6, <1>7, <1>8 DEF Next, Step

----------------------------------------------------------------------------
(* Counts *)

\* An object that is not yet made has no count and nobody who holds it.
LEMMA FreshUnheld ==
    ASSUME Core, NEW o \in Obj, life[o] = "fresh"
    PROVE  /\ ~Held(o) /\ handles[o] = 0 /\ locks[o] = leaked[o]
           /\ \A t \in Thread : ~(pc[t] = "free" /\ phd[t] = o)
<1>1. ~Held(o) /\ InCall({"free"}, o) = {}
  BY DEF Core, NoUseAfterFree
<1>2. handles[o] \in Nat /\ locks[o] \in Nat /\ leaked[o] \in Nat
  BY DEF Core, TypeOK
<1>3. ~(handles[o] > 0 \/ locks[o] > leaked[o])
  BY <1>1, HeldByCounts DEF Core
<1>4. locks[o] >= leaked[o]
  BY <1>2, CountType DEF Core, CountsExact
<1> QED
  BY <1>1, <1>2, <1>3, <1>4 DEF InCall

\* Taking a page moves handles from a table to a call; the locks count them there.
LEMMA TakePageCounts ==
    ASSUME TypeOK, TypeOK', CountsExact, NEW t \in Thread, NEW p \in Proc, NEW n \in Nat,
           TakePage(t, p, n), \A s \in Slot : phds[t][s] = None,
           UNCHANGED <<handles, leaked>>, OnlyCall(t),
           \A o \in Obj : HandlesAdded(t, o) = 0 /\ LocksAdded(t, o) = 0
    PROVE  CountsExact'
<1> SUFFICES ASSUME NEW o \in Obj
             PROVE  /\ handles'[o] = Cardinality(Entries(o)') + Cardinality(Taken(o)')
                           + Cardinality(InCall(HandlePcs, o)')
                    /\ locks'[o] = Cardinality(Taken(o)') + Cardinality(InCall(LockPcs, o)')
                           + Cardinality(ClassEntries(o)') + Cardinality(ClassTaken(o)')
                           + Cardinality(ClassInCall(o)') + leaked'[o]
  BY DEF CountsExact
<1> DEFINE H == OnPage(p, n, o)
           C == ClassOnPage(p, n, o)
<1>1. \A s \in Slot : /\ table'[p][s] = IF s \in PageSlots(n) THEN None ELSE table[p][s]
                      /\ phds'[t][s] = IF s \in PageSlots(n) THEN table[p][s] ELSE None
  BY DEF TakePage, TypeOK
<1>2. \A q \in Proc \ {p} : table'[q] = table[q]
  BY DEF TakePage, TypeOK
<1>3. \A u \in Thread \ {t} : phds'[u] = phds[u]
  BY DEF TakePage, TypeOK
<1>4. /\ IsFiniteSet(H) /\ Cardinality(H) \in Nat
      /\ IsFiniteSet(C) /\ Cardinality(C) \in Nat
  BY OnPageType
<1>5. \A x, S : IsFiniteSet(S) => /\ IsFiniteSet({x} \X S)
                                  /\ Cardinality({x} \X S) = Cardinality(S)
  <2> SUFFICES ASSUME NEW x, NEW S, IsFiniteSet(S)
               PROVE  IsFiniteSet({x} \X S) /\ Cardinality({x} \X S) = Cardinality(S)
    OBVIOUS
  <2>1. IsFiniteSet({x}) /\ Cardinality({x}) = 1 /\ Cardinality(S) \in Nat
    BY FS_Singleton, FS_CardinalityType
  <2> QED
    BY <2>1, FS_Product
<1>6. o # None /\ ClassOf(None) # o
  BY ObjFacts DEF ClassOf
<1>7. /\ Entries(o)' = Entries(o) \ ({p} \X H) /\ {p} \X H \subseteq Entries(o)
      /\ Taken(o)' = Taken(o) \cup ({t} \X H) /\ Taken(o) \cap ({t} \X H) = {}
  <2>1. Entries(o)' = Entries(o) \ ({p} \X H)
    BY <1>1, <1>2, <1>6 DEF Entries, OnPage
  <2>2. {p} \X H \subseteq Entries(o)
    BY DEF Entries, OnPage, PageSlots
  <2>3. Taken(o)' = Taken(o) \cup ({t} \X H)
    BY <1>1, <1>3, <1>6 DEF Taken, OnPage, PageSlots
  <2>4. Taken(o) \cap ({t} \X H) = {}
    BY <1>6 DEF Taken, OnPage, PageSlots
  <2> QED
    BY <2>1, <2>2, <2>3, <2>4
<1>8. /\ ClassEntries(o)' = ClassEntries(o) \ ({p} \X C) /\ {p} \X C \subseteq ClassEntries(o)
      /\ ClassTaken(o)' = ClassTaken(o) \cup ({t} \X C) /\ ClassTaken(o) \cap ({t} \X C) = {}
  <2>1. ClassEntries(o)' = ClassEntries(o) \ ({p} \X C)
    BY <1>1, <1>2, <1>6 DEF ClassEntries, ClassOnPage
  <2>2. {p} \X C \subseteq ClassEntries(o)
    BY DEF ClassEntries, ClassOnPage, PageSlots
  <2>3. ClassTaken(o)' = ClassTaken(o) \cup ({t} \X C)
    BY <1>1, <1>3, <1>6 DEF ClassTaken, ClassOnPage, PageSlots
  <2>4. ClassTaken(o) \cap ({t} \X C) = {}
    BY <1>6 DEF ClassTaken, ClassOnPage, PageSlots
  <2> QED
    BY <2>1, <2>2, <2>3, <2>4
<1> HIDE DEF H, C
<1>9. \A S, T : IsFiniteSet(S) /\ T \subseteq S =>
          Cardinality(S \ T) = Cardinality(S) - Cardinality(T)
  <2> SUFFICES ASSUME NEW S, NEW T, IsFiniteSet(S), T \subseteq S
               PROVE  Cardinality(S \ T) = Cardinality(S) - Cardinality(T)
    OBVIOUS
  <2>1. S \cap T = T
    OBVIOUS
  <2> QED
    BY ZenonT(30), <2>1, FS_Difference
<1>10. \A S, T : IsFiniteSet(S) /\ IsFiniteSet(T) /\ S \cap T = {} =>
           Cardinality(S \cup T) = Cardinality(S) + Cardinality(T)
  <2> SUFFICES ASSUME NEW S, NEW T, IsFiniteSet(S), IsFiniteSet(T), S \cap T = {}
               PROVE  Cardinality(S \cup T) = Cardinality(S) + Cardinality(T)
    OBVIOUS
  <2>1. Cardinality(S \cap T) = 0 /\ Cardinality(S) \in Nat /\ Cardinality(T) \in Nat
    BY FS_EmptySet, FS_CardinalityType
  <2>2. Cardinality(S \cup T) = Cardinality(S) + Cardinality(T) - Cardinality(S \cap T)
    BY FS_Union
  <2> QED
    BY <2>1, <2>2
<1>11. /\ Cardinality(Entries(o)') = Cardinality(Entries(o)) - Cardinality(H)
       /\ Cardinality(ClassEntries(o)') = Cardinality(ClassEntries(o)) - Cardinality(C)
  <2>1. /\ IsFiniteSet(Entries(o)) /\ IsFiniteSet(ClassEntries(o))
        /\ Cardinality({p} \X H) = Cardinality(H) /\ Cardinality({p} \X C) = Cardinality(C)
    BY <1>4, <1>5, FiniteHolders
  <2> QED
    BY <1>7, <1>8, <1>9, <2>1
<1>12. /\ Cardinality(Taken(o)') = Cardinality(Taken(o)) + Cardinality(H)
       /\ Cardinality(ClassTaken(o)') = Cardinality(ClassTaken(o)) + Cardinality(C)
  <2>1. /\ IsFiniteSet(Taken(o)) /\ IsFiniteSet(ClassTaken(o))
        /\ IsFiniteSet({t} \X H) /\ Cardinality({t} \X H) = Cardinality(H)
        /\ IsFiniteSet({t} \X C) /\ Cardinality({t} \X C) = Cardinality(C)
    BY <1>4, <1>5, FiniteHolders
  <2> QED
    BY <1>7, <1>8, <1>10, <2>1
<1>13. /\ leaked[o] \in Nat /\ leaked'[o] = leaked[o] /\ handles'[o] = handles[o]
       /\ handles[o] = Cardinality(Entries(o)) + Cardinality(Taken(o))
                           + Cardinality(InCall(HandlePcs, o))
       /\ locks[o] = Cardinality(Taken(o)) + Cardinality(InCall(LockPcs, o))
                         + Cardinality(ClassEntries(o)) + Cardinality(ClassTaken(o))
                         + Cardinality(ClassInCall(o)) + leaked[o]
  BY DEF TypeOK, CountsExact
<1>14. locks'[o] = locks[o] + Cardinality(H)
  BY DEF TakePage, OnPage, H
<1>15. /\ Cardinality(InCall(HandlePcs, o)') = Cardinality(InCall(HandlePcs, o))
       /\ Cardinality(InCall(LockPcs, o)') + Cardinality(ClassInCall(o)')
              = Cardinality(InCall(LockPcs, o)) + Cardinality(ClassInCall(o))
  BY CallStep, CountType DEF HandlesAdded, LocksAdded, One
<1>16. /\ Cardinality(InCall(LockPcs, o)') \in Int /\ Cardinality(ClassInCall(o)') \in Int
  BY CallStep, CountType DEF One
<1> QED
  BY <1>4, <1>11, <1>12, <1>13, <1>14, <1>15, <1>16, CountType

\* CountsExact is kept by every step.
LEMMA CountsStep ==
    ASSUME Core, TypeOK', [Next]_vars
    PROVE  CountsExact'
<1> USE ObjFacts DEF Core
<1>1. CASE UNCHANGED vars
  <2>1. \A o \in Obj : /\ Entries(o)' = Entries(o) /\ ClassEntries(o)' = ClassEntries(o)
                       /\ Taken(o)' = Taken(o) /\ ClassTaken(o)' = ClassTaken(o)
                       /\ InCall(HandlePcs, o)' = InCall(HandlePcs, o)
                       /\ InCall(LockPcs, o)' = InCall(LockPcs, o)
                       /\ ClassInCall(o)' = ClassInCall(o)
    BY <1>1 DEF vars, callVars, Entries, ClassEntries, Taken, ClassTaken, InCall, ClassInCall
  <2> QED
    BY <1>1, <2>1 DEF vars, objVars, history, CountsExact
\* What a step of a call alone has to show.
<1> DEFINE ByCall(t) ==
             /\ OnlyCall(t) /\ UNCHANGED <<table, phds>>
             /\ \A o \in Obj : handles'[o] = handles[o] + HandlesAdded(t, o)
             /\ \A o \in Obj : locks'[o] = locks[o] + LocksAdded(t, o) + (leaked'[o] - leaked[o])
<1>2. ASSUME NEW t \in Thread, EndUse(t) \/ PreClose(t) \/ Undo(t)
                 \/ CheckCount(t, "map") \/ CheckCount(t, "dupwith") \/ DupRead(t)
                 \/ \E p \in Proc : NamedFail(t, p) \/ DupNoEntry(t, p) \/ DupWithNoEntry(t, p)
      PROVE  ByCall(t)
  <2>1. UNCHANGED <<table, phds, api, handles, locks, leaked>>
    BY <1>2 DEF EndUse, PreClose, Undo, CheckCount, DupRead, NamedFail, DupNoEntry, DupWithNoEntry, objVars,
       history
  <2>2. OnlyCall(t)
    BY <1>2 DEF EndUse, PreClose, Undo, CheckCount, DupRead, NamedFail, DupNoEntry, DupWithNoEntry, Go, Goto,
       OnlyCall, TypeOK
  <2>3. CASE EndUse(t) \/ CheckCount(t, "map") \/ CheckCount(t, "dupwith") \/ DupRead(t)
             \/ \E p \in Proc : NamedFail(t, p) \/ DupNoEntry(t, p) \/ DupWithNoEntry(t, p)
    <3>1. /\ phd' = phd
          /\ pc[t] \in HandlePcs <=> pc'[t] \in HandlePcs
          /\ pc[t] \in LockPcs <=> pc'[t] \in LockPcs
      BY <2>3 DEF EndUse, CheckCount, DupRead, NamedFail, DupNoEntry, DupWithNoEntry, Goto, TypeOK,
         HandlePcs, LockPcs
    <3>2. \A o \in Obj : HandlesAdded(t, o) = 0 /\ LocksAdded(t, o) = 0
      BY <2>1, <3>1 DEF HandlesAdded, LocksAdded, One
    <3> QED
      BY <2>1, <2>2, <3>2 DEF TypeOK
  <2>4. CASE PreClose(t) \/ Undo(t)
    <3>1. /\ pc[t] \notin HandlePcs /\ pc'[t] \notin HandlePcs
          /\ pc[t] \in LockPcs <=> pc'[t] \in LockPcs
          /\ pc'[t] \in LockPcs => phd'[t] = phd[t]
      <4>1. CASE PreClose(t) /\ pc[t] = "preclose"
        BY <4>1 DEF PreClose, Go, Goto, TypeOK, HandlePcs, LockPcs
      <4>2. CASE PreClose(t) /\ pc[t] = "precloseU"
        BY <4>2, ContinueType DEF PreClose, Go, Goto, TypeOK, HandlePcs, LockPcs
      <4>3. CASE Undo(t)
        BY <4>3 DEF Undo, Goto, TypeOK, HandlePcs, LockPcs
      <4> QED
        BY <2>4, <4>1, <4>2, <4>3 DEF PreClose
    <3>2. \A o \in Obj : HandlesAdded(t, o) = 0 /\ LocksAdded(t, o) = 0
      BY <2>1, <3>1 DEF HandlesAdded, LocksAdded, One
    <3> QED
      BY <2>1, <2>2, <3>2 DEF TypeOK
  <2> QED
    BY <1>2, <2>3, <2>4
<1>3. ASSUME NEW t \in Thread, MapView(t)
      PROVE  ByCall(t)
  BY <1>3 DEF MapView, Goto, TypeOK, OnlyCall, HandlesAdded, LocksAdded, One, HandlePcs, LockPcs
<1>4. ASSUME NEW t \in Thread, NEW p \in Proc, NEW s \in Slot, DupRefused(t, p, s)
      PROVE  ByCall(t)
  <2>1. phd[t] \in Obj
    BY <1>4 DEF DupRefused, CallsOK, CallOK, LockPcs
  <2>2. \A o \in Obj : locks'[o] - leaked'[o] = locks[o] - leaked[o]
    <3>1. /\ locks' = Bump(CountClass(locks, phd[t]), phd[t])
          /\ leaked' = Bump(CountClass(leaked, phd[t]), phd[t])
      BY <1>4 DEF DupRefused
    <3>2. locks \in [Obj -> Nat] /\ leaked \in [Obj -> Nat] /\ Class[phd[t]] \in Obj \cup {None}
      BY <2>1 DEF TypeOK
    <3>3. /\ CountClass(locks, phd[t]) \in [Obj -> Nat]
          /\ CountClass(leaked, phd[t]) \in [Obj -> Nat]
          /\ \A o \in Obj : CountClass(locks, phd[t])[o] - CountClass(leaked, phd[t])[o]
                              = locks[o] - leaked[o]
      BY <3>2, BumpBoth DEF CountClass
    <3> QED
      BY <2>1, <3>1, <3>3, BumpBoth
  <2>3. \A o \in Obj : HandlesAdded(t, o) = 0 /\ LocksAdded(t, o) = 0
    BY <1>4 DEF DupRefused, Goto, TypeOK, HandlesAdded, LocksAdded, One, HandlePcs, LockPcs
  <2>4. UNCHANGED <<table, phds, handles>> /\ OnlyCall(t)
    BY <1>4 DEF DupRefused, Goto, TypeOK, OnlyCall
  <2>5. \A o \in Obj : /\ handles[o] \in Nat /\ locks[o] \in Nat /\ leaked[o] \in Nat
                       /\ locks'[o] \in Nat /\ leaked'[o] \in Nat
    BY DEF TypeOK
  <2> QED
    BY <2>2, <2>3, <2>4, <2>5
<1>5. ASSUME NEW t \in Thread, DropHandle(t)
      PROVE  ByCall(t)
  <2>1. UNCHANGED <<table, phds, api, locks, leaked>>
    BY <1>5 DEF DropHandle, history
  <2>2. pc[t] \in {"closeH", "dropH"}
    BY <1>5 DEF DropHandle
  <2>3. OnlyCall(t)
    <3>1. phd' \in {phd, [phd EXCEPT ![t] = None]} /\ pc' = [pc EXCEPT ![t] = pc'[t]]
      BY <1>5, DropHandleEffect
    <3> QED
      BY <2>1, <3>1 DEF OnlyCall, TypeOK
  <2>4. /\ phd[t] \in Obj /\ handles' = [handles EXCEPT ![phd[t]] = @ - 1]
        /\ pc[t] \in HandlePcs /\ pc'[t] \notin HandlePcs
        /\ pc[t] \in LockPcs <=> pc'[t] \in LockPcs
        /\ pc'[t] \in LockPcs => phd'[t] = phd[t]
    BY <1>5, <2>2, DropHandleEffect DEF HandlePcs, LockPcs
  <2>5. \A o \in Obj : LocksAdded(t, o) = 0
    BY <2>1, <2>4 DEF LocksAdded, One
  <2>6. \A o \in Obj : handles'[o] = handles[o] + HandlesAdded(t, o)
    BY <2>4 DEF HandlesAdded, One, TypeOK
  <2> QED
    BY <2>1, <2>3, <2>5, <2>6 DEF TypeOK
<1>6. ASSUME NEW t \in Thread, DropLock(t)
      PROVE  ByCall(t)
  <2>1. UNCHANGED <<table, phds, handles, leaked>>
    BY <1>6 DEF DropLock, history
  <2> DEFINE o == IF pc[t] = "api" THEN api[t] ELSE phd[t]
             a == IF pc[t] = "api" THEN None ELSE api[t]
  <2>2. /\ o \in Obj /\ pc[t] \in {"unlock", "api"}
        /\ locks' = [locks EXCEPT ![o] = @ - 1]
        /\ api' = [api EXCEPT ![t] = a]
        /\ \/ pc' = [pc EXCEPT ![t] = "free"] /\ phd' = [phd EXCEPT ![t] = o]
           \/ pc' = [pc EXCEPT ![t] = Continue(t, a)] /\ phd' = [phd EXCEPT ![t] = None]
    BY <1>6, DropLockEffect
  <2>3. /\ pc[t] \notin HandlePcs
        /\ pc[t] \in LockPcs <=> pc[t] = "unlock"
        /\ o = IF pc[t] = "unlock" THEN phd[t] ELSE api[t]
        /\ a = IF pc[t] = "unlock" THEN api[t] ELSE None
    BY <2>2 DEF HandlePcs, LockPcs
  <2> HIDE DEF o, a
  <2>4. OnlyCall(t) /\ api'[t] = a
    BY <2>2 DEF OnlyCall, TypeOK
  <2>5. pc'[t] \notin HandlePcs /\ pc'[t] \notin LockPcs
    <3>1. "free" \in Labels /\ Continue(t, a) \in Labels
      BY ContinueType DEF Labels
    <3>2. pc'[t] = "free" \/ pc'[t] = Continue(t, a)
      BY <2>2, <3>1, GotoMoves
    <3> QED
      BY <3>2, ContinueType DEF HandlePcs, LockPcs
  <2>6. \A x \in Obj : HandlesAdded(t, x) = 0 /\ LocksAdded(t, x) = 0 - One(x = o)
    BY <2>2, <2>3, <2>4, <2>5, ObjFacts DEF HandlesAdded, LocksAdded, One
  <2>7. \A x \in Obj : locks'[x] = locks[x] - One(x = o)
    BY <2>2 DEF One, TypeOK
  <2>8. \A x \in Obj : /\ One(x = o) \in Int /\ handles[x] \in Nat /\ locks[x] \in Nat
                       /\ leaked[x] \in Nat
    BY DEF One, TypeOK
  <2>9. \A x \in Obj : handles'[x] = handles[x] + HandlesAdded(t, x)
    BY <2>1, <2>6, <2>8
  <2>10. \A x \in Obj : locks'[x] = locks[x] + LocksAdded(t, x) + (leaked'[x] - leaked[x])
    BY <2>1, <2>6, <2>7, <2>8
  <2> QED
    BY <2>1, <2>4, <2>9, <2>10
<1>7. ASSUME NEW t \in Thread, Free(t)
      PROVE  ByCall(t)
  <2>1. Continue(t, api[t]) \notin HandlePcs \cup LockPcs
    BY ContinueType DEF HandlePcs, LockPcs
  <2> QED
    BY <1>7, <2>1 DEF Free, Goto, TypeOK, OnlyCall, HandlesAdded, LocksAdded, One, HandlePcs, LockPcs
<1>8. ASSUME NEW t \in Thread, DeleteTable(t)
      PROVE  ByCall(t)
  BY <1>8 DEF DeleteTable, BatchDone, Goto, objVars, history, TypeOK, OnlyCall, HandlesAdded,
     LocksAdded, One, HandlePcs, LockPcs
<1>9. ASSUME NEW t \in Thread, NEW p \in Proc, NEW s \in Slot, Lock(t, p, s) \/ Duplicate(t, p, s)
      PROVE  ByCall(t)
  <2>1. CASE Lock(t, p, s)
    BY <2>1 DEF Lock, Live, Goto, history, TypeOK, OnlyCall, HandlesAdded, LocksAdded, One,
       HandlePcs, LockPcs
  <2>2. CASE Duplicate(t, p, s)
    BY <2>2 DEF Duplicate, Live, Goto, history, TypeOK, OnlyCall, HandlesAdded, LocksAdded, One,
       HandlePcs, LockPcs
  <2> QED
    BY <1>9, <2>1, <2>2
<1>10. ASSUME NEW t \in Thread, NEW o \in Obj, OpenNamed(t, o)
      PROVE  ByCall(t)
  BY <1>10 DEF OpenNamed, Goto, history, TypeOK, OnlyCall, HandlesAdded, LocksAdded, One,
     HandlePcs, LockPcs
<1>11. ASSUME NEW t \in Thread, NEW o \in Obj, CreateNamed(t, o)
      PROVE  ByCall(t)
  <2>1. handles[o] = 0
    BY <1>11, FreshUnheld DEF CreateNamed
  <2> QED
    BY <1>11, <2>1 DEF CreateNamed, Goto, history, TypeOK, OnlyCall, HandlesAdded, LocksAdded, One,
       HandlePcs, LockPcs
<1>12. ASSUME NEW t \in Thread, ByCall(t)
      PROVE  CountsExact'
  BY <1>12, CountsByCall
<1> HIDE DEF ByCall
\* Steps that change an entry of a table.
<1>13. ASSUME NEW t \in Thread, NEW p \in Proc, NEW s \in Slot, NamedEntry(t, p, s)
      PROVE  CountsExact'
  <2>1. table[p][s] = None /\ phd[t] \in Obj /\ Class[phd[t]] = None
    BY <1>13 DEF NamedEntry, CanAlloc, CallsOK, CallOK, HandlePcs
  <2>2. table'[p][s] = phd[t] /\ \A q \in Proc, r \in Slot : q # p \/ r # s => table'[q][r] = table[q][r]
    BY <1>13 DEF NamedEntry, Enter, TypeOK
  <2>3. OnlyCall(t) /\ UNCHANGED <<phds, leaked>>
    BY <1>13 DEF NamedEntry, Goto, OnlyCall, history, TypeOK
  <2>4. \A o \in Obj : /\ handles'[o] = handles[o] + HandlesAdded(t, o)
                              + One(table'[p][s] = o) - One(table[p][s] = o)
                       /\ locks'[o] = locks[o] + LocksAdded(t, o)
                              + One(ClassOf(table'[p][s]) = o) - One(ClassOf(table[p][s]) = o)
    BY <1>13, <2>1, <2>2 DEF NamedEntry, Goto, objVars, TypeOK, HandlesAdded, LocksAdded, One,
       ClassOf, HandlePcs, LockPcs
  <2> QED
    BY <2>2, <2>3, <2>4, CountsByEntry
<1>14. ASSUME NEW t \in Thread, NEW p \in Proc, NEW s \in Slot, DupEntry(t, p, s)
      PROVE  CountsExact'
  <2>1. table[p][s] = None /\ phd[t] \in Obj
    BY <1>14 DEF DupEntry, CanAlloc, CallsOK, CallOK, LockPcs
  <2>2. table'[p][s] = phd[t] /\ \A q \in Proc, r \in Slot : q # p \/ r # s => table'[q][r] = table[q][r]
    BY <1>14 DEF DupEntry, Enter, TypeOK
  <2>3. OnlyCall(t) /\ UNCHANGED <<phds, leaked>>
    BY <1>14 DEF DupEntry, Goto, OnlyCall, history, TypeOK
  <2>4. \A o \in Obj : /\ handles'[o] = handles[o] + HandlesAdded(t, o)
                              + One(table'[p][s] = o) - One(table[p][s] = o)
                       /\ locks'[o] = locks[o] + LocksAdded(t, o)
                              + One(ClassOf(table'[p][s]) = o) - One(ClassOf(table[p][s]) = o)
    BY <1>14, <2>1, <2>2 DEF DupEntry, Goto, TypeOK, HandlesAdded, LocksAdded, One, CountClass, Bump,
       ClassOf, HandlePcs, LockPcs
  <2> QED
    BY <2>2, <2>3, <2>4, CountsByEntry
<1>15. ASSUME NEW t \in Thread, NEW p \in Proc, NEW s \in Slot, DupWithHDATA(t, p, s)
      PROVE  CountsExact'
  <2>1. table[p][s] = None /\ phd[t] \in Obj /\ Class[phd[t]] = None
    BY <1>15 DEF DupWithHDATA, CanAlloc, CallsOK, CallOK, LockPcs
  <2>2. table'[p][s] = phd[t] /\ \A q \in Proc, r \in Slot : q # p \/ r # s => table'[q][r] = table[q][r]
    BY <1>15 DEF DupWithHDATA, Enter, TypeOK
  <2>3. OnlyCall(t) /\ UNCHANGED <<phds, leaked>>
    BY <1>15 DEF DupWithHDATA, Goto, OnlyCall, TypeOK
  <2>4. \A o \in Obj : /\ handles'[o] = handles[o] + HandlesAdded(t, o)
                              + One(table'[p][s] = o) - One(table[p][s] = o)
                       /\ locks'[o] = locks[o] + LocksAdded(t, o)
                              + One(ClassOf(table'[p][s]) = o) - One(ClassOf(table[p][s]) = o)
    BY <1>15, <2>1, <2>2 DEF DupWithHDATA, Goto, TypeOK, HandlesAdded, LocksAdded, One,
       ClassOf, HandlePcs, LockPcs
  <2> QED
    BY <2>2, <2>3, <2>4, CountsByEntry
<1>16. ASSUME NEW t \in Thread, NEW p \in Proc, NEW s \in Slot, Zap(t, p, s)
      PROVE  CountsExact'
  <2>1. pc[t] = "idle" /\ table[p][s] \in Obj /\ api[t] = None
    <3>1. CallOK(t) /\ pc[t] = "idle" /\ table[p][s] \in Obj
      BY <1>16 DEF Zap, Live, CallsOK, TypeOK
    <3> QED
      BY <3>1 DEF CallOK
  <2>2. table'[p][s] = None /\ \A q \in Proc, r \in Slot : q # p \/ r # s => table'[q][r] = table[q][r]
    BY <1>16 DEF Zap, Enter, TypeOK
  <2>3. OnlyCall(t) /\ UNCHANGED <<phds, leaked>>
    BY <1>16 DEF Zap, Goto, OnlyCall, history, TypeOK
  <2>4. \A o \in Obj : /\ handles'[o] = handles[o] + HandlesAdded(t, o)
                              + One(table'[p][s] = o) - One(table[p][s] = o)
                       /\ locks'[o] = locks[o] + LocksAdded(t, o)
                              + One(ClassOf(table'[p][s]) = o) - One(ClassOf(table[p][s]) = o)
    BY <1>16, <2>1, <2>2 DEF Zap, Goto, TypeOK, HandlesAdded, LocksAdded, One, ClassOf,
       HandlePcs, LockPcs
  <2> QED
    BY <2>2, <2>3, <2>4, CountsByEntry
<1>17. ASSUME NEW t \in Thread, NEW p \in Proc, NEW s \in Slot, NEW q \in Obj, Create(t, p, s, q)
      PROVE  CountsExact'
  <2>1. table[p][s] = None /\ handles[q] = 0
    BY <1>17, FreshUnheld DEF Create, CanAlloc
  <2>2. table'[p][s] = q /\ \A u \in Proc, r \in Slot : u # p \/ r # s => table'[u][r] = table[u][r]
    BY <1>17 DEF Create, Enter, TypeOK
  <2>3. OnlyCall(t) /\ UNCHANGED <<phds, leaked>>
    BY <1>17 DEF Create, callVars, OnlyCall, history
  <2>4. \A o \in Obj : HandlesAdded(t, o) = 0 /\ LocksAdded(t, o) = 0
    BY <1>17 DEF Create, callVars, HandlesAdded, LocksAdded, One
  <2>5. \A o \in Obj : /\ handles'[o] = handles[o] + HandlesAdded(t, o)
                              + One(table'[p][s] = o) - One(table[p][s] = o)
                       /\ locks'[o] = locks[o] + LocksAdded(t, o)
                              + One(ClassOf(table'[p][s]) = o) - One(ClassOf(table[p][s]) = o)
    BY <1>17, <2>1, <2>2, <2>4 DEF Create, TypeOK, One, CountClass, Bump, ClassOf
  <2> QED
    BY <2>2, <2>3, <2>5, CountsByEntry
\* Steps that change what a thread has taken.
<1>18. ASSUME NEW t \in Thread, NEW s \in Slot, CloseNext(t, s)
      PROVE  CountsExact'
  <2>1. pc[t] = "batch" /\ phds[t][s] \in Obj /\ api[t] = None
    <3>1. CallOK(t) /\ pc[t] = "batch" /\ phds[t][s] \in Obj
      BY <1>18 DEF CloseNext, CallsOK, TypeOK
    <3> QED
      BY <3>1 DEF CallOK
  <2>2. phds'[t][s] = None /\ \A u \in Thread, r \in Slot : u # t \/ r # s => phds'[u][r] = phds[u][r]
    BY <1>18 DEF CloseNext, TypeOK
  <2>3. OnlyCall(t) /\ UNCHANGED <<table, leaked>>
    BY <1>18 DEF CloseNext, Goto, OnlyCall, history, TypeOK
  <2>4. \A o \in Obj : /\ handles'[o] = handles[o] + HandlesAdded(t, o)
                              + One(phds'[t][s] = o) - One(phds[t][s] = o)
                       /\ locks'[o] = locks[o] + LocksAdded(t, o)
                              + One(phds'[t][s] = o) - One(phds[t][s] = o)
                              + One(ClassOf(phds'[t][s]) = o) - One(ClassOf(phds[t][s]) = o)
    <3>1. /\ pc[t] \notin HandlePcs /\ pc[t] \notin LockPcs
          /\ pc'[t] \in HandlePcs /\ pc'[t] \in LockPcs
          /\ phd'[t] = phds[t][s] /\ api'[t] = ClassOf(phds[t][s])
          /\ handles' = handles /\ locks' = locks
      BY <1>18, <2>1 DEF CloseNext, Goto, objVars, TypeOK, ClassOf, HandlePcs, LockPcs
    <3>2. ClassOf(None) = None
      BY DEF ClassOf
    <3> QED
      BY <2>1, <2>2, <3>1, <3>2 DEF HandlesAdded, LocksAdded, One, TypeOK
  <2> QED
    BY <2>2, <2>3, <2>4, CountsByTaken
<1>19. ASSUME NEW t \in Thread, NextPage(t)
      PROVE  CountsExact'
  <2>1. /\ prc[t] \in Proc /\ page[t] + 1 \in Nat /\ \A s \in Slot : phds[t][s] = None
        /\ TakePage(t, prc[t], page[t] + 1)
    BY <1>19 DEF NextPage, BatchDone, CallsOK, CallOK, TypeOK
  <2>2. /\ UNCHANGED <<handles, leaked>> /\ OnlyCall(t)
        /\ \A o \in Obj : HandlesAdded(t, o) = 0 /\ LocksAdded(t, o) = 0
    BY <1>19 DEF NextPage, history, OnlyCall, HandlesAdded, LocksAdded, One
  <2> QED
    BY <2>1, <2>2, TakePageCounts
<1>20. ASSUME NEW t \in Thread, NEW p \in Proc, CloseAll(t, p)
      PROVE  CountsExact'
  <2>1. /\ 1 \in Nat /\ \A s \in Slot : phds[t][s] = None
        /\ TakePage(t, p, 1)
    BY <1>20 DEF CloseAll, CallsOK, CallOK
  <2>2. /\ UNCHANGED <<handles, leaked>> /\ OnlyCall(t)
        /\ \A o \in Obj : HandlesAdded(t, o) = 0 /\ LocksAdded(t, o) = 0
    BY <1>20 DEF CloseAll, Goto, history, OnlyCall, HandlesAdded, LocksAdded, One, HandlePcs, LockPcs,
       TypeOK
  <2> QED
    BY <2>1, <2>2, TakePageCounts
<1> QED
  BY <1>1, <1>2, <1>3, <1>4, <1>5, <1>6, <1>7, <1>8, <1>9, <1>10, <1>11, <1>12, <1>13, <1>14, <1>15,
     <1>16, <1>17, <1>18, <1>19, <1>20 DEF Next, Step

----------------------------------------------------------------------------
(* Nothing in use is freed *)

\* An object has a count above zero.
Counted(o) == handles[o] > 0 \/ locks[o] > leaked[o]

\* A step after which nobody holds what nobody held before, and that frees nothing.
LEMMA QuietStep ==
    ASSUME Core, (TypeOK /\ CountsExact)', NEW t \in Thread, OnlyCall(t), UNCHANGED life,
           pc[t] # "free", pc'[t] # "free",
           \A o \in Obj : Counted(o)' => Counted(o)
    PROVE  NoUseAfterFree'
<1>1. \A o \in Obj : Held(o)' => Held(o)
  BY HeldByCounts, HeldByCountsPrime DEF Counted, Core
<1>2. \A o \in Obj : InCall({"free"}, o)' = InCall({"free"}, o)
  BY DEF InCall, OnlyCall
<1> QED
  BY <1>1, <1>2 DEF NoUseAfterFree, Core

\* A step by which a thread drops the last count of what it held.
LEMMA FreeingStep ==
    ASSUME Core, (TypeOK /\ CountsExact)', NEW t \in Thread, OnlyCall(t), UNCHANGED life,
           NEW q \in Obj, pc[t] # "free", pc'[t] = "free", phd'[t] = q,
           Counted(q), ~Counted(q)',
           \A o \in Obj : Counted(o)' => Counted(o)
    PROVE  NoUseAfterFree'
<1>1. /\ \A o \in Obj : Held(o)' => Held(o)
      /\ Held(q) /\ ~Held(q)'
  BY HeldByCounts, HeldByCountsPrime DEF Counted, Core
<1>2. /\ InCall({"free"}, q) = {} /\ InCall({"free"}, q)' = {t} /\ life'[q] = "live"
  <2>1. InCall({"free"}, q) = {} /\ life[q] = "live"
    BY <1>1 DEF NoUseAfterFree, Core
  <2> QED
    BY <2>1 DEF InCall, OnlyCall
<1>3. \A o \in Obj \ {q} : InCall({"free"}, o)' = InCall({"free"}, o)
  BY DEF InCall, OnlyCall
<1> QED
  BY <1>1, <1>2, <1>3 DEF NoUseAfterFree, Core

\* A step that makes an object.
LEMMA MakingStep ==
    ASSUME Core, (TypeOK /\ CountsExact)', NEW t \in Thread, OnlyCall(t),
           NEW q \in Obj, life[q] = "fresh", life' = [life EXCEPT ![q] = "live"],
           pc[t] # "free", pc'[t] # "free",
           \A o \in Obj \ {q} : Counted(o)' => Counted(o)
    PROVE  NoUseAfterFree'
<1>1. \A o \in Obj \ {q} : Held(o)' => Held(o)
  BY HeldByCounts, HeldByCountsPrime DEF Counted, Core
<1>2. \A o \in Obj : InCall({"free"}, o)' = InCall({"free"}, o)
  BY DEF InCall, OnlyCall
<1>3. InCall({"free"}, q) = {}
  BY FreshUnheld DEF InCall
<1>4. life'[q] = "live" /\ \A o \in Obj \ {q} : life'[o] = life[o]
  BY DEF Core, TypeOK
<1> QED
  BY <1>1, <1>2, <1>3, <1>4 DEF NoUseAfterFree, Core

\* An API set is counted as long as an object of it has a handle.
LEMMA ClassCounted ==
    ASSUME Core, NEW o \in Obj, handles[o] > 0, Class[o] \in Obj
    PROVE  locks[Class[o]] > leaked[Class[o]]
<1> USE ObjFacts DEF Core
<1>1. Entries(o) # {} \/ Taken(o) # {} \/ InCall(HandlePcs, o) # {}
  <2>1. /\ Entries(o) # {} <=> Cardinality(Entries(o)) > 0
        /\ Taken(o) # {} <=> Cardinality(Taken(o)) > 0
        /\ InCall(HandlePcs, o) # {} <=> Cardinality(InCall(HandlePcs, o)) > 0
    BY NotEmpty, FiniteHolders
  <2>2. handles[o] = Cardinality(Entries(o)) + Cardinality(Taken(o))
                         + Cardinality(InCall(HandlePcs, o))
    BY DEF CountsExact
  <2> QED
    BY <2>1, <2>2, CountType
<1>2. CASE Entries(o) # {}
  <2>1. PICK e \in Proc \X Slot : table[e[1]][e[2]] = o
    BY <1>2 DEF Entries
  <2>2. e \in ClassEntries(Class[o])
    BY <2>1 DEF ClassEntries, ClassOf
  <2> QED
    BY <2>2, HolderCounted
<1>3. CASE Taken(o) # {}
  <2>1. PICK e \in Thread \X Slot : phds[e[1]][e[2]] = o
    BY <1>3 DEF Taken
  <2>2. e \in ClassTaken(Class[o])
    BY <2>1 DEF ClassTaken, ClassOf
  <2> QED
    BY <2>2, HolderCounted
<1>4. CASE InCall(HandlePcs, o) # {}
  <2>1. PICK t \in Thread : pc[t] \in HandlePcs /\ phd[t] = o
    BY <1>4 DEF InCall
  <2>2. CallOK(t) /\ Class[o] # None
    BY DEF CallsOK
  <2>3. api[t] = Class[o]
    BY <2>1, <2>2 DEF CallOK, HandlePcs
  <2> QED
    BY <2>1, <2>3, CallHolds
<1> QED
  BY <1>1, <1>2, <1>3, <1>4

\* The counts are numbers.
LEMMA CountNumbers ==
    TypeOK => \A o \in Obj : handles[o] \in Nat /\ locks[o] \in Nat /\ leaked[o] \in Nat
<1> QED
  BY DEF TypeOK

\* NoUseAfterFree is kept by every step.
LEMMA UseStep ==
    ASSUME Core, (TypeOK /\ CountsExact)', [Next]_vars
    PROVE  NoUseAfterFree'
<1> USE ObjFacts DEF Core
<1>1. CASE UNCHANGED vars
  BY <1>1 DEF vars, objVars, callVars, NoUseAfterFree, Held, Entries, Taken, ClassEntries,
     ClassTaken, InCall, ClassInCall
<1> DEFINE Quiet(t) ==
             /\ OnlyCall(t) /\ UNCHANGED life /\ pc[t] # "free" /\ pc'[t] # "free"
             /\ \A o \in Obj : Counted(o)' => Counted(o)
<1>2. ASSUME NEW t \in Thread, Quiet(t)
      PROVE  NoUseAfterFree'
  BY <1>2, QuietStep
<1>3. ASSUME UNCHANGED <<handles, locks, leaked>>
      PROVE  \A o \in Obj : Counted(o)' => Counted(o)
  BY <1>3 DEF Counted
\* Steps that leave the counts alone.
<1>4. ASSUME NEW t \in Thread,
             \/ EndUse(t) \/ PreClose(t) \/ Undo(t) \/ DeleteTable(t)
             \/ CheckCount(t, "map") \/ CheckCount(t, "dupwith") \/ DupRead(t)
             \/ \E p \in Proc : NamedFail(t, p) \/ DupNoEntry(t, p) \/ DupWithNoEntry(t, p)
             \/ \E p \in Proc, s \in Slot : NamedEntry(t, p, s)
      PROVE  Quiet(t)
  <2>1. UNCHANGED <<handles, locks, leaked, life>>
    BY <1>4 DEF EndUse, PreClose, Undo, DeleteTable, CheckCount, DupRead, NamedFail, DupNoEntry,
       DupWithNoEntry, NamedEntry, objVars, history
  <2>2. \A o \in Obj : Counted(o)' => Counted(o)
    BY <1>3, <2>1
  <2>3. /\ OnlyCall(t) /\ pc[t] # "free" /\ pc'[t] # "free"
    <3>1. CASE PreClose(t)
      <4>1. CASE pc[t] = "preclose"
        BY <3>1, <4>1 DEF PreClose, Go, Goto, OnlyCall, TypeOK
      <4>2. CASE pc[t] = "precloseU"
        BY ZenonT(30), <3>1, <4>2, ContinueType DEF PreClose, Go, Goto, OnlyCall, TypeOK
      <4> QED
        BY <3>1, <4>1, <4>2 DEF PreClose
    <3>2. CASE ~PreClose(t)
      BY <1>4, <3>2 DEF EndUse, Undo, DeleteTable, BatchDone, CheckCount, DupRead, NamedFail, DupNoEntry,
         DupWithNoEntry, NamedEntry, Goto, OnlyCall, TypeOK
    <3> QED
      BY <3>1, <3>2
  <2> QED
    BY <2>1, <2>2, <2>3
<1>20. ASSUME NEW t \in Thread, NEW s \in Slot, CloseNext(t, s)
       PROVE  Quiet(t)
  <2>1. UNCHANGED <<handles, locks, leaked, life>>
    BY <1>20 DEF CloseNext, objVars, history
  <2>2. \A o \in Obj : Counted(o)' => Counted(o)
    BY <1>3, <2>1
  <2>3. /\ OnlyCall(t) /\ pc[t] # "free" /\ pc'[t] # "free"
    BY <1>20 DEF CloseNext, Goto, OnlyCall, TypeOK
  <2> QED
    BY <2>1, <2>2, <2>3
\* Steps by which a thread gets hold of an object that somebody holds.
<1>5. ASSUME NEW t \in Thread, NEW p \in Proc, NEW s \in Slot,
             Lock(t, p, s) \/ Duplicate(t, p, s) \/ Zap(t, p, s)
      PROVE  Quiet(t)
  <2>1. table[p][s] # None /\ UNCHANGED <<life, handles, leaked>>
        /\ locks' = [locks EXCEPT ![table[p][s]] = @ + 1]
    BY <1>5 DEF Lock, Duplicate, Zap, Live, history
  <2>2. \A o \in Obj : Counted(o)' => Counted(o)
    BY <2>1, EntryHolds, CountNumbers DEF Counted
  <2>3. OnlyCall(t) /\ pc[t] # "free" /\ pc'[t] # "free"
    BY <1>5 DEF Lock, Duplicate, Zap, Goto, OnlyCall, TypeOK
  <2> QED
    BY <2>1, <2>2, <2>3
<1>6. ASSUME NEW t \in Thread, NEW q \in Obj, OpenNamed(t, q)
      PROVE  Quiet(t)
  <2>1. /\ UNCHANGED <<life, locks, leaked>> /\ handles' = [handles EXCEPT ![q] = @ + 1]
        /\ handles[q] > 0
    BY <1>6 DEF OpenNamed, NamedHeld, history
  <2>2. \A o \in Obj : Counted(o)' => Counted(o)
    BY <2>1, CountNumbers DEF Counted
  <2>3. OnlyCall(t) /\ pc[t] # "free" /\ pc'[t] # "free"
    BY <1>6 DEF OpenNamed, Goto, OnlyCall, TypeOK
  <2> QED
    BY <2>1, <2>2, <2>3
<1>7. ASSUME NEW t \in Thread, MapView(t) \/ \E p \in Proc, s \in Slot : DupWithHDATA(t, p, s)
      PROVE  Quiet(t)
  <2>1. /\ UNCHANGED <<life, locks, leaked>> /\ handles' = [handles EXCEPT ![phd[t]] = @ + 1]
        /\ pc[t] \in LockPcs
    BY <1>7 DEF MapView, DupWithHDATA, LockPcs
  <2>2. phd[t] \in Obj /\ locks[phd[t]] > leaked[phd[t]]
    BY <2>1, CallHolds DEF CallsOK, CallOK
  <2>3. \A o \in Obj : Counted(o)' => Counted(o)
    BY <2>1, <2>2, CountNumbers DEF Counted
  <2>4. OnlyCall(t) /\ pc[t] # "free" /\ pc'[t] # "free"
    BY <1>7 DEF MapView, DupWithHDATA, Goto, OnlyCall, TypeOK
  <2> QED
    BY <2>1, <2>3, <2>4
<1>8. ASSUME NEW t \in Thread, NEW p \in Proc, NEW s \in Slot, DupEntry(t, p, s)
      PROVE  Quiet(t)
  <2>1. /\ UNCHANGED <<life, leaked>> /\ handles' = [handles EXCEPT ![phd[t]] = @ + 1]
        /\ locks' = CountClass(locks, phd[t])
        /\ phd[t] \in Obj /\ handles[phd[t]] > 0
    BY <1>8 DEF DupEntry, Duplicable, CallsOK, CallOK, LockPcs, history
  <2>2. \A o \in Obj : Counted(o)' => Counted(o)
    <3>1. CASE Class[phd[t]] = None
      BY <2>1, <3>1, CountNumbers DEF Counted, CountClass, Bump
    <3>2. CASE Class[phd[t]] \in Obj
      BY <2>1, <3>2, ClassCounted, CountNumbers DEF Counted, CountClass, Bump
    <3> QED
      BY <2>1, <3>1, <3>2
  <2>3. OnlyCall(t) /\ pc[t] # "free" /\ pc'[t] # "free"
    BY <1>8 DEF DupEntry, Goto, OnlyCall, TypeOK
  <2> QED
    BY <2>1, <2>2, <2>3
<1>9. ASSUME NEW t \in Thread, NEW p \in Proc, NEW s \in Slot, DupRefused(t, p, s)
      PROVE  Quiet(t)
  <2>1. phd[t] \in Obj /\ UNCHANGED <<life, handles>>
    BY <1>9 DEF DupRefused, CallsOK, CallOK, LockPcs
  <2>2. \A o \in Obj : locks'[o] - leaked'[o] = locks[o] - leaked[o]
    <3>1. /\ locks' = Bump(CountClass(locks, phd[t]), phd[t])
          /\ leaked' = Bump(CountClass(leaked, phd[t]), phd[t])
      BY <1>9 DEF DupRefused
    <3>2. locks \in [Obj -> Nat] /\ leaked \in [Obj -> Nat] /\ Class[phd[t]] \in Obj \cup {None}
      BY <2>1 DEF TypeOK
    <3>3. /\ CountClass(locks, phd[t]) \in [Obj -> Nat]
          /\ CountClass(leaked, phd[t]) \in [Obj -> Nat]
          /\ \A o \in Obj : CountClass(locks, phd[t])[o] - CountClass(leaked, phd[t])[o]
                              = locks[o] - leaked[o]
      BY <3>2, BumpBoth DEF CountClass
    <3> QED
      BY <2>1, <3>1, <3>3, BumpBoth
  <2>3. \A o \in Obj : locks'[o] \in Nat /\ leaked'[o] \in Nat
    BY DEF TypeOK
  <2>4. \A o \in Obj : Counted(o)' => Counted(o)
    BY <2>1, <2>2, <2>3, CountNumbers DEF Counted
  <2>5. OnlyCall(t) /\ pc[t] # "free" /\ pc'[t] # "free"
    BY <1>9 DEF DupRefused, Goto, OnlyCall, TypeOK
  <2> QED
    BY <2>1, <2>4, <2>5
\* Steps that take a page of a table.
<1>10. ASSUME NEW t \in Thread, NEW p \in Proc, NEW n \in Nat, TakePage(t, p, n),
              UNCHANGED <<handles, leaked>>
       PROVE  \A o \in Obj : Counted(o)' => Counted(o)
  <2> SUFFICES ASSUME NEW o \in Obj, Counted(o)' PROVE Counted(o)
    OBVIOUS
  <2>1. locks'[o] = locks[o] + Cardinality(OnPage(p, n, o))
    BY <1>10 DEF TakePage, OnPage
  <2>2. CASE OnPage(p, n, o) = {}
    <3>1. Cardinality(OnPage(p, n, o)) = 0
      BY <2>2, FS_EmptySet
    <3> QED
      BY <1>10, <2>1, <3>1, CountNumbers DEF Counted
  <2>3. CASE OnPage(p, n, o) # {}
    <3>1. PICK s \in Slot : table[p][s] = o
      BY <2>3 DEF OnPage, PageSlots
    <3> QED
      BY <3>1, EntryHolds DEF Counted
  <2> QED
    BY <2>2, <2>3
<1>11. ASSUME NEW t \in Thread, NextPage(t)
      PROVE  Quiet(t)
  <2>1. /\ prc[t] \in Proc /\ page[t] + 1 \in Nat /\ TakePage(t, prc[t], page[t] + 1)
        /\ pc[t] = "batch" /\ UNCHANGED <<handles, leaked, life, pc, phd, api>>
    BY <1>11 DEF NextPage, BatchDone, CallsOK, CallOK, TypeOK, history
  <2> QED
    BY <1>10, <2>1 DEF OnlyCall
<1>12. ASSUME NEW t \in Thread, NEW p \in Proc, CloseAll(t, p)
      PROVE  Quiet(t)
  <2>1. /\ 1 \in Nat /\ TakePage(t, p, 1) /\ UNCHANGED <<handles, leaked, life>>
    BY <1>12 DEF CloseAll, history
  <2>2. OnlyCall(t) /\ pc[t] # "free" /\ pc'[t] # "free"
    BY <1>12 DEF CloseAll, Goto, OnlyCall, TypeOK
  <2> QED
    BY <1>10, <2>1, <2>2
\* Steps that drop a count.
<1>13. ASSUME NEW t \in Thread, DropHandle(t)
       PROVE  NoUseAfterFree'
  <2>1. /\ phd[t] \in Obj /\ handles[phd[t]] > 0 /\ pc[t] # "free"
        /\ handles' = [handles EXCEPT ![phd[t]] = @ - 1]
        /\ UNCHANGED <<life, locks, leaked, api>>
    BY <1>13, DropHandleEffect DEF DropHandle, history
  <2>2. OnlyCall(t)
    <3>1. phd' \in {phd, [phd EXCEPT ![t] = None]} /\ pc' = [pc EXCEPT ![t] = pc'[t]]
      BY <1>13, DropHandleEffect
    <3> QED
      BY <2>1, <3>1 DEF OnlyCall, TypeOK
  <2>3. \A o \in Obj : Counted(o)' => Counted(o)
    BY <2>1, CountNumbers DEF Counted
  <2>4. CASE pc'[t] # "free"
    BY <2>1, <2>2, <2>3, <2>4, QuietStep
  <2>5. CASE pc'[t] = "free"
    <3>1. handles[phd[t]] = 1 /\ locks[phd[t]] = 0 /\ phd'[t] = phd[t]
      BY <1>13, <2>5, DropHandleEffect
    <3>2. \A q \in Obj : q = phd[t] => Counted(q) /\ ~Counted(q)'
      BY <2>1, <3>1, CountNumbers DEF Counted, TypeOK
    <3> QED
      BY <2>1, <2>2, <2>3, <2>5, <3>1, <3>2, FreeingStep
  <2> QED
    BY <2>4, <2>5
<1>14. ASSUME NEW t \in Thread, DropLock(t)
       PROVE  NoUseAfterFree'
  <2> DEFINE o == IF pc[t] = "api" THEN api[t] ELSE phd[t]
             a == IF pc[t] = "api" THEN None ELSE api[t]
  <2>1. /\ o \in Obj /\ locks[o] > leaked[o] /\ pc[t] \in {"unlock", "api"}
        /\ locks' = [locks EXCEPT ![o] = @ - 1]
        /\ api' = [api EXCEPT ![t] = a]
        /\ \/ /\ handles[o] = 0 /\ locks[o] = 1
              /\ pc' = [pc EXCEPT ![t] = "free"] /\ phd' = [phd EXCEPT ![t] = o]
           \/ pc' = [pc EXCEPT ![t] = Continue(t, a)] /\ phd' = [phd EXCEPT ![t] = None]
    BY <1>14, DropLockEffect
  <2>2. UNCHANGED <<life, handles, leaked>>
    BY <1>14 DEF DropLock, history
  <2> HIDE DEF o, a
  <2>3. OnlyCall(t)
    BY <2>1 DEF OnlyCall, TypeOK
  <2>4. \A x \in Obj : Counted(x)' => Counted(x)
    BY <2>1, <2>2, CountNumbers DEF Counted, TypeOK
  <2>5. CASE pc' = [pc EXCEPT ![t] = Continue(t, a)]
    <3>1. Continue(t, a) \in Labels /\ Continue(t, a) # "free"
      BY ContinueType DEF Labels
    <3>2. pc'[t] # "free" /\ pc[t] # "free"
      BY <2>1, <2>5, <3>1, GotoMoves
    <3> QED
      BY <2>2, <2>3, <2>4, <3>2, QuietStep
  <2>6. CASE handles[o] = 0 /\ locks[o] = 1 /\ pc' = [pc EXCEPT ![t] = "free"]
             /\ phd' = [phd EXCEPT ![t] = o]
    <3>1. pc'[t] = "free" /\ pc[t] # "free" /\ phd'[t] = o
      BY <2>1, <2>6 DEF TypeOK
    <3>2. \A q \in Obj : q = o => Counted(q) /\ ~Counted(q)'
      BY <2>1, <2>2, <2>6, CountNumbers DEF Counted, TypeOK
    <3> QED
      BY <2>1, <2>2, <2>3, <2>4, <3>1, <3>2, FreeingStep
  <2> QED
    BY <2>1, <2>5, <2>6
\* The step that frees.
<1>15. ASSUME NEW t \in Thread, Free(t)
       PROVE  NoUseAfterFree'
  <2>1. /\ pc[t] = "free" /\ phd[t] \in Obj /\ life' = [life EXCEPT ![phd[t]] = "freed"]
        /\ UNCHANGED <<handles, locks, leaked, api>>
    BY <1>15 DEF Free, CallsOK, CallOK
  <2>2. pc' = [pc EXCEPT ![t] = Continue(t, api[t])] /\ OnlyCall(t)
    BY <1>15 DEF Free, Goto, OnlyCall, TypeOK
  <2>3. pc'[t] # "free"
    <3>1. Continue(t, api[t]) \in Labels /\ Continue(t, api[t]) # "free"
      BY ContinueType DEF Labels
    <3> QED
      BY <2>2, <3>1, GotoMoves
  <2>4. \A o \in Obj : Held(o)' => Held(o)
    BY <1>3, <2>1, HeldByCounts, HeldByCountsPrime DEF Counted
  <2>5. \A o \in Obj : InCall({"free"}, o)' = InCall({"free"}, o) \ {t}
    BY <2>2, <2>3 DEF InCall, OnlyCall
  <2>6. t \in InCall({"free"}, phd[t])
    BY <2>1 DEF InCall
  <2>7. ~Held(phd[t]) /\ InCall({"free"}, phd[t]) = {t}
    BY <2>1, <2>6 DEF NoUseAfterFree
  <2>8. \A o \in Obj : o # phd[t] => life'[o] = life[o]
    BY <2>1 DEF TypeOK
  <2> QED
    BY <2>4, <2>5, <2>7, <2>8 DEF NoUseAfterFree
\* Steps that make an object.
<1>16. ASSUME NEW t \in Thread, NEW p \in Proc, NEW s \in Slot, NEW q \in Obj, Create(t, p, s, q)
       PROVE  NoUseAfterFree'
  <2>1. /\ life[q] = "fresh" /\ life' = [life EXCEPT ![q] = "live"]
        /\ UNCHANGED <<leaked, pc, phd, api>> /\ pc[t] # "free"
        /\ handles' = [handles EXCEPT ![q] = 1] /\ locks' = CountClass(locks, q)
    BY <1>16 DEF Create, callVars, history
  <2>2. \A o \in Obj \ {q} : Counted(o)' => Counted(o)
    <3>1. CASE Class[q] = None
      BY <2>1, <3>1, CountNumbers DEF Counted, CountClass, Bump
    <3>2. CASE Class[q] \in Obj
      <4>1. pc[t] = "using" /\ phd[t] = Class[q]
        BY <1>16, <3>2 DEF Create
      <4>2. locks[Class[q]] > leaked[Class[q]]
        BY <3>2, <4>1, CallHolds DEF LockPcs
      <4> QED
        BY <2>1, <3>2, <4>2, CountNumbers DEF Counted, CountClass, Bump
    <3> QED
      BY <3>1, <3>2
  <2> QED
    BY <2>1, <2>2, MakingStep DEF OnlyCall
<1>17. ASSUME NEW t \in Thread, NEW q \in Obj, CreateNamed(t, q)
       PROVE  NoUseAfterFree'
  <2>1. /\ life[q] = "fresh" /\ life' = [life EXCEPT ![q] = "live"]
        /\ UNCHANGED <<leaked, locks>> /\ pc[t] # "free" /\ pc'[t] # "free" /\ OnlyCall(t)
        /\ handles' = [handles EXCEPT ![q] = 1]
    BY <1>17 DEF CreateNamed, Goto, OnlyCall, TypeOK, history
  <2>2. \A o \in Obj \ {q} : Counted(o)' => Counted(o)
    BY <2>1, CountNumbers DEF Counted
  <2> QED
    BY <2>1, <2>2, MakingStep
<1> HIDE DEF Quiet
<1>18. ASSUME NEW t \in Thread, Step(t)
       PROVE  NoUseAfterFree'
  <2>1. CASE \/ EndUse(t) \/ PreClose(t) \/ Undo(t) \/ DeleteTable(t)
             \/ \E p \in Proc : NamedFail(t, p) \/ DupNoEntry(t, p) \/ DupWithNoEntry(t, p)
             \/ \E p \in Proc, s \in Slot : NamedEntry(t, p, s)
             \/ \E s \in Slot : CloseNext(t, s)
    <3>1. CASE EndUse(t) \/ PreClose(t) \/ Undo(t) \/ DeleteTable(t)
      BY <1>2, <1>4, <3>1
    <3>2. CASE \E p \in Proc : NamedFail(t, p) \/ DupNoEntry(t, p) \/ DupWithNoEntry(t, p)
      BY <1>2, <1>4, <3>2
    <3>3. CASE \E p \in Proc, s \in Slot : NamedEntry(t, p, s)
      BY <1>2, <1>4, <3>3
    <3>4. CASE \E s \in Slot : CloseNext(t, s)
      <4>1. PICK s \in Slot : CloseNext(t, s)
        BY <3>4
      <4>2. Quiet(t)
        BY <1>20, <4>1
      <4> QED
        BY <1>2, <4>2
    <3> QED
      BY <2>1, <3>1, <3>2, <3>3, <3>4
  <2>2. CASE MapView(t) \/ \E p \in Proc, s \in Slot : DupWithHDATA(t, p, s)
    BY <1>2, <1>7, <2>2
  <2>3. CASE \E p \in Proc, s \in Slot : DupEntry(t, p, s) \/ DupRefused(t, p, s)
    BY <1>2, <1>8, <1>9, <2>3
  <2>4. CASE NextPage(t)
    BY <1>2, <1>11, <2>4
  <2>5. CASE DropHandle(t) \/ DropLock(t) \/ Free(t)
    BY <1>13, <1>14, <1>15, <2>5
  <2> QED
    BY <1>18, <2>1, <2>2, <2>3, <2>4, <2>5 DEF Step
<1>19. CASE Next
  <2>1. PICK t \in Thread :
           \/ Step(t) \/ CheckCount(t, "map") \/ CheckCount(t, "dupwith") \/ DupRead(t)
           \/ \E p \in Proc : CloseAll(t, p)
           \/ \E p \in Proc, s \in Slot : Lock(t, p, s) \/ Duplicate(t, p, s) \/ Zap(t, p, s)
           \/ \E p \in Proc, s \in Slot, o \in Obj : Create(t, p, s, o)
           \/ \E o \in Obj : OpenNamed(t, o) \/ CreateNamed(t, o)
    BY <1>19 DEF Next
  <2>2. CASE CheckCount(t, "map") \/ CheckCount(t, "dupwith") \/ DupRead(t)
    BY <1>2, <1>4, <2>2
  <2>3. CASE \E p \in Proc : CloseAll(t, p)
    BY <1>2, <1>12, <2>3
  <2>4. CASE \E p \in Proc, s \in Slot : Lock(t, p, s) \/ Duplicate(t, p, s) \/ Zap(t, p, s)
    BY <1>2, <1>5, <2>4
  <2>5. CASE \E p \in Proc, s \in Slot, o \in Obj : Create(t, p, s, o)
    BY <1>16, <2>5
  <2>6. CASE \E o \in Obj : OpenNamed(t, o) \/ CreateNamed(t, o)
    BY <1>2, <1>6, <1>17, <2>6
  <2> QED
    BY <1>18, <2>1, <2>2, <2>3, <2>4, <2>5, <2>6
<1> QED
  BY <1>1, <1>19

----------------------------------------------------------------------------
(* The theorems *)

\* The core invariant holds in the initial states,
LEMMA CoreInit == Init => Core
<1> SUFFICES ASSUME Init PROVE Core
  OBVIOUS
<1> USE ObjFacts
<1>1. TypeOK
  BY TypeInit
<1>2. CallsOK
  BY DEF Init, CallsOK, CallOK, HandlePcs, LockPcs
<1>3. NamedHeld
  BY DEF Init, NamedHeld
<1>4. \A o \in Obj : /\ Entries(o) = {} /\ Taken(o) = {} /\ InCall(HandlePcs, o) = {}
                     /\ InCall(LockPcs, o) = {} /\ InCall({"free"}, o) = {}
                     /\ InCall(HandlePcs \cup LockPcs, o) = {}
                     /\ ClassEntries(o) = {} /\ ClassTaken(o) = {} /\ ClassInCall(o) = {}
  BY DEF Init, Entries, Taken, InCall, ClassEntries, ClassTaken, ClassInCall, ClassOf,
     HandlePcs, LockPcs
<1>5. CountsExact
  <2>1. Cardinality({}) = 0
    BY FS_EmptySet
  <2>2. \A o \in Obj : handles[o] = 0 /\ locks[o] = 0 /\ leaked[o] = 0
    BY DEF Init
  <2> QED
    BY <1>4, <2>1, <2>2 DEF CountsExact
<1>6. NoUseAfterFree
  BY <1>4 DEF NoUseAfterFree, Held
<1> QED
  BY <1>1, <1>2, <1>3, <1>5, <1>6 DEF Core

\* every step keeps it,
LEMMA CoreStep == Core /\ [Next]_vars => Core'
<1> SUFFICES ASSUME Core, [Next]_vars PROVE Core'
  OBVIOUS
<1>1. TypeOK'
  BY TypeStep
<1>2. CountsExact'
  BY <1>1, CountsStep
<1>3. NoUseAfterFree'
  BY <1>1, <1>2, UseStep
<1> QED
  BY <1>1, <1>2, <1>3, CallsStep, NamedStep DEF Core

\* and so it always holds.
LEMMA CoreHolds == Spec => []Core
<1> QED
  BY CoreInit, CoreStep, PTL DEF Spec

\* The types are as declared (handle.c).
THEOREM TypesCorrect == Spec => []TypeOK
<1>1. Core => TypeOK
  BY DEF Core
<1> QED
  BY <1>1, CoreHolds, PTL

\* dwRefCnt counts exactly the places that hold an object: no path of the
\* code takes a count it does not give back, but for those recorded in leaked (DoLockHDATA,
\* handle.c:270, DoUnlockHDATA, handle.c:281, and their callers).
THEOREM CountsAreExact == Spec => []CountsExact
<1>1. Core => CountsExact
  BY DEF Core
<1> QED
  BY <1>1, CoreHolds, PTL

\* Nothing a table or a call holds is freed, and nothing is freed twice
\* (DoUnlockHDATA, handle.c:281).
THEOREM NothingUsedIsFreed == Spec => []NoUseAfterFree
<1>1. Core => NoUseAfterFree
  BY DEF Core
<1> QED
  BY <1>1, CoreHolds, PTL

----------------------------------------------------------------------------
(* Names, exiting processes and the pre-close method *)

\* NamesExact holds in the initial states
LEMMA NamesInit == Init => NamesExact
<1> QED
  BY ObjFacts DEF Init, NamesExact

\* and is kept by every step that starts and ends in the core invariant.
LEMMA NamesStep ==
    ASSUME Core, Core', NamesExact, [Next]_vars
    PROVE  NamesExact'
<1> USE ObjFacts
<1>1. CASE UNCHANGED vars
  BY <1>1 DEF vars, objVars, history, NamesExact
\* Whoever is in the list has a handle, and so is alive.
<1>2. \A o \in nameList' : handles'[o] > 0 /\ life'[o] = "live"
  <2> SUFFICES ASSUME NEW o \in nameList' PROVE handles'[o] > 0 /\ life'[o] = "live"
    OBVIOUS
  <2>1. o \in Obj /\ handles'[o] > 0
    BY DEF Core, TypeOK, NamedHeld
  <2>2. Held(o)'
    BY <2>1, HeldByCountsPrime DEF Core
  <2> QED
    BY <2>1, <2>2 DEF Core, NoUseAfterFree
\* What the other two parts need to know of a step.
<1> DEFINE Good == /\ \A o \in Obj : NameOf[o] # None /\ revived'[o] = 0 =>
                          (o \in nameList' <=> handles'[o] > 0)
                   /\ \A o, q \in nameList' : NameOf[o] = NameOf[q] => o = q
<1>3. ASSUME UNCHANGED <<handles, nameList, revived>>
      PROVE  Good
  BY <1>3 DEF NamesExact
<1>4. ASSUME NEW t \in Thread, \/ \E o \in Obj : OpenNamed(t, o)
                               \/ \E p \in Proc, s \in Slot : DupEntry(t, p, s)
      PROVE  Good
  <2>1. PICK o \in Obj : /\ handles[o] > 0 /\ handles' = [handles EXCEPT ![o] = @ + 1]
                         /\ UNCHANGED <<nameList, revived>>
    <3>1. ASSUME NEW o \in Obj, OpenNamed(t, o)
          PROVE  /\ handles[o] > 0 /\ handles' = [handles EXCEPT ![o] = @ + 1]
                 /\ UNCHANGED <<nameList, revived>>
      BY <3>1 DEF OpenNamed, history, Core, NamedHeld
    <3>2. ASSUME NEW p \in Proc, NEW s \in Slot, DupEntry(t, p, s)
          PROVE  /\ phd[t] \in Obj
                 /\ handles[phd[t]] > 0 /\ handles' = [handles EXCEPT ![phd[t]] = @ + 1]
                 /\ UNCHANGED <<nameList, revived>>
      BY <3>2 DEF DupEntry, Duplicable, history, Core, CallsOK, CallOK, LockPcs
    <3> QED
      BY <1>4, <3>1, <3>2
  <2> QED
    BY <2>1, CountNumbers DEF NamesExact, Core, TypeOK
<1>5. ASSUME NEW t \in Thread, MapView(t) \/ \E p \in Proc, s \in Slot : DupWithHDATA(t, p, s)
      PROVE  Good
  <2>1. /\ phd[t] \in Obj /\ handles' = [handles EXCEPT ![phd[t]] = @ + 1]
        /\ Revive(t) /\ UNCHANGED nameList
    BY <1>5 DEF MapView, DupWithHDATA, Core, CallsOK, CallOK, LockPcs
  <2>2. CASE handles[phd[t]] = 0
    <3>1. revived'[phd[t]] # 0 /\ \A o \in Obj : o # phd[t] => revived'[o] = revived[o]
                                                      /\ handles'[o] = handles[o]
      BY <2>1, <2>2 DEF Revive, Core, TypeOK
    <3> QED
      BY <2>1, <3>1 DEF NamesExact
  <2>3. CASE handles[phd[t]] > 0
    <3>1. UNCHANGED revived /\ \A o \in Obj : handles'[o] > 0 <=> handles[o] > 0
      BY <2>1, <2>3, CountNumbers DEF Revive, Core, TypeOK
    <3> QED
      BY <2>1, <3>1 DEF NamesExact
  <2> QED
    BY <2>1, <2>2, <2>3, CountNumbers DEF Core
<1>6. ASSUME NEW t \in Thread, DropHandle(t)
      PROVE  Good
  <2>1. /\ phd[t] \in Obj /\ handles' = [handles EXCEPT ![phd[t]] = @ - 1]
        /\ handles[phd[t]] > 0
    BY <1>6, DropHandleEffect
  <2>2. UNCHANGED revived
        /\ nameList' = IF handles[phd[t]] = 1 THEN nameList \ {phd[t]} ELSE nameList
    BY <1>6 DEF DropHandle, NamesWithout, history
  <2> QED
    BY <2>1, <2>2, CountNumbers DEF NamesExact, Core, TypeOK
<1>7. ASSUME NEW t \in Thread, NEW p \in Proc, NEW s \in Slot, NEW o \in Obj, Create(t, p, s, o)
      PROVE  Good
  BY <1>7 DEF Create, history, NamesExact, Core, TypeOK
<1>8. ASSUME NEW t \in Thread, NEW o \in Obj, CreateNamed(t, o)
      PROVE  Good
  <2>1. /\ handles' = [handles EXCEPT ![o] = 1] /\ UNCHANGED revived
        /\ nameList' = nameList \cup {o}
        /\ \A q \in nameList : NameOf[q] # NameOf[o]
    BY <1>8 DEF CreateNamed, history
  <2>2. \A q \in Obj : handles'[q] = IF q = o THEN 1 ELSE handles[q]
    BY <2>1 DEF Core, TypeOK
  <2> QED
    BY <2>1, <2>2 DEF NamesExact
<1>9. ASSUME NEW t \in Thread,
             \/ EndUse(t) \/ NextPage(t) \/ DeleteTable(t) \/ PreClose(t) \/ DropLock(t)
             \/ Free(t) \/ Undo(t) \/ CheckCount(t, "map") \/ CheckCount(t, "dupwith") \/ DupRead(t)
             \/ \E s \in Slot : CloseNext(t, s)
             \/ \E p \in Proc : NamedFail(t, p) \/ DupNoEntry(t, p) \/ DupWithNoEntry(t, p)
                                    \/ CloseAll(t, p)
             \/ \E p \in Proc, s \in Slot : NamedEntry(t, p, s) \/ DupRefused(t, p, s)
                    \/ Lock(t, p, s) \/ Duplicate(t, p, s) \/ Zap(t, p, s)
      PROVE  UNCHANGED <<handles, nameList, revived>>
  BY SMTT(40), <1>9 DEF EndUse, NextPage, DeleteTable, PreClose, DropLock, Free, Undo, CheckCount, DupRead, CloseNext,
     NamedFail, DupNoEntry, DupWithNoEntry, CloseAll, NamedEntry, DupRefused, Lock, Duplicate, Zap,
     objVars, history
<1> HIDE DEF Good
<1>10. Next => Good
  BY <1>3, <1>4, <1>5, <1>6, <1>7, <1>8, <1>9 DEF Next, Step
<1> QED
  BY <1>1, <1>2, <1>10 DEF Good, NamesExact

\* The name list holds exactly the objects that can be opened, one of each name
\* (HNDLCreateNamedHandle, handle.c:511, and DoUnlockHDATA,
\* handle.c:281).
THEOREM NamesAreExact == Spec => []NamesExact
<1>1. Core /\ Core' /\ NamesExact /\ [Next]_vars => NamesExact'
  BY NamesStep
<1> QED
  BY <1>1, CoreHolds, NamesInit, PTL DEF Spec

\* One thread closes the handles of a process.
OneCloser ==
    \A t \in Thread : prc[t] # None =>
        /\ tstate[prc[t]] = "closing"
        /\ \A u \in Thread : prc[u] = prc[t] => u = t
Closing == OneCloser /\ ClosedTableEmpty

\* What remains of a table once a page is taken lies behind the page.
LEMMA BehindPage ==
    ASSUME NEW n \in Nat, NEW s \in Slot, s > n * PageSize, s \notin PageSlots(n + 1)
    PROVE  s > (n + 1) * PageSize
<1>1. PageSize \in Nat /\ PageSize > 0 /\ s \in Nat /\ s > 0
  BY HandlesAssumption DEF Slot
<1>2. (s - 1) \div PageSize # n
  BY DEF PageSlots
<1> DEFINE d == (s - 1) \div PageSize
           r == (s - 1) % PageSize
<1>3. d \in Int /\ r \in 0..PageSize - 1 /\ s - 1 = PageSize * d + r
  BY <1>1
<1> HIDE DEF d, r
<1>4. n * PageSize \in Int /\ PageSize * d \in Int /\ (n + 1) * PageSize = n * PageSize + PageSize
  BY <1>1, <1>3
<1>5. d >= n
  <2> SUFFICES ASSUME d <= n - 1 PROVE FALSE
    BY <1>3
  <2>1. PageSize * d <= PageSize * (n - 1)
    BY <1>1, <1>3
  <2>2. PageSize * (n - 1) = n * PageSize - PageSize
    BY <1>1
  <2> QED
    BY <1>1, <1>3, <1>4, <2>1, <2>2
<1>6. d >= n + 1
  BY <1>2, <1>3, <1>5 DEF d
<1>7. PageSize * d >= PageSize * (n + 1)
  BY <1>1, <1>3, <1>6
<1> QED
  BY <1>1, <1>3, <1>4, <1>7

\* Closing holds in the initial states
LEMMA ClosingInit == Init => Closing
<1> QED
  BY DEF Init, Closing, OneCloser, ClosedTableEmpty

\* and is kept by every step that starts and ends in the core invariant.
LEMMA ClosingStep ==
    ASSUME Core, Core', Closing, [Next]_vars
    PROVE  Closing'
<1> USE ObjFacts, HandlesAssumption DEF Closing
<1>1. ASSUME UNCHANGED <<prc, page, tstate>>,
             \A p \in Proc, s \in Slot : tstate[p] # "open" /\ table'[p][s] # None => table[p][s] # None
      PROVE  Closing'
  BY <1>1 DEF OneCloser, ClosedTableEmpty
<1>2. CASE UNCHANGED vars
  BY <1>1, <1>2 DEF vars, callVars
\* An entry is only made in a table that is open,
<1>3. ASSUME NEW t \in Thread, NEW p \in Proc, NEW s \in Slot,
             \/ NamedEntry(t, p, s) \/ DupEntry(t, p, s) \/ DupWithHDATA(t, p, s)
             \/ \E o \in Obj : Create(t, p, s, o)
      PROVE  Closing'
  <2>1. /\ UNCHANGED <<prc, page, tstate>> /\ tstate[p] = "open"
        /\ \E x : table' = [table EXCEPT ![p][s] = x]
    BY <1>3 DEF NamedEntry, DupEntry, DupWithHDATA, Create, CanAlloc, Enter, callVars
  <2>2. \A q \in Proc, r \in Slot : q # p => table'[q][r] = table[q][r]
    BY <2>1 DEF Core, TypeOK
  <2> QED
    BY <1>1, <2>1, <2>2
\* closing one only takes it away,
<1>4. ASSUME NEW t \in Thread, NEW p \in Proc, NEW s \in Slot, Zap(t, p, s)
      PROVE  Closing'
  <2>1. UNCHANGED <<prc, page, tstate>> /\ table' = [table EXCEPT ![p][s] = None]
    BY <1>4 DEF Zap, Enter
  <2>2. \A q \in Proc, r \in Slot : table'[q][r] # None => table[q][r] # None
    BY <2>1 DEF Core, TypeOK
  <2> QED
    BY <1>1, <2>1, <2>2
\* and other calls leave the tables alone.
<1>5. ASSUME NEW t \in Thread,
             \/ EndUse(t) \/ MapView(t) \/ PreClose(t) \/ DropHandle(t) \/ DropLock(t)
             \/ Free(t) \/ Undo(t) \/ CheckCount(t, "map") \/ CheckCount(t, "dupwith") \/ DupRead(t)
             \/ \E s \in Slot : CloseNext(t, s)
             \/ \E p \in Proc : NamedFail(t, p) \/ DupNoEntry(t, p) \/ DupWithNoEntry(t, p)
             \/ \E p \in Proc, s \in Slot : DupRefused(t, p, s) \/ Lock(t, p, s) \/ Duplicate(t, p, s)
             \/ \E o \in Obj : OpenNamed(t, o) \/ CreateNamed(t, o)
      PROVE  Closing'
  <2>1. UNCHANGED <<prc, page, tstate, table>>
    BY <1>5 DEF EndUse, MapView, PreClose, DropHandle, DropLock, Free, Undo, CheckCount, DupRead, CloseNext,
       NamedFail, DupNoEntry, DupWithNoEntry, DupRefused, Lock, Duplicate, OpenNamed, CreateNamed
  <2> QED
    BY <1>1, <2>1
\* The next page is taken: what is left lies behind it.
<1>6. ASSUME NEW t \in Thread, NextPage(t)
      PROVE  Closing'
  <2>1. /\ prc[t] \in Proc /\ page[t] \in Nat /\ TakePage(t, prc[t], page[t] + 1)
        /\ UNCHANGED tstate
    BY <1>6 DEF NextPage, BatchDone, Core, CallsOK, CallOK, TypeOK
  <2>2. /\ prc' = prc /\ page'[t] = page[t] + 1 /\ \A u \in Thread : u # t => page'[u] = page[u]
        /\ \A s \in Slot : table'[prc[t]][s] =
               IF s \in PageSlots(page[t] + 1) THEN None ELSE table[prc[t]][s]
        /\ \A q \in Proc : q # prc[t] => table'[q] = table[q]
    BY <2>1 DEF TakePage, Core, TypeOK
  <2>3. OneCloser'
    BY <2>1, <2>2 DEF OneCloser
  <2>4. ASSUME NEW p \in Proc, tstate[p] # "open", NEW s \in Slot, table'[p][s] # None
        PROVE  \E u \in Thread : prc'[u] = p /\ page'[u] * PageSize < s
    <3>1. table[p][s] # None
      BY <2>2, <2>4
    <3>2. PICK u \in Thread : prc[u] = p /\ page[u] * PageSize < s
      BY <2>4, <3>1 DEF ClosedTableEmpty
    <3>3. CASE p # prc[t]
      BY <2>2, <3>2, <3>3
    <3>4. CASE p = prc[t]
      <4>1. u = t
        BY <3>2, <3>4 DEF OneCloser
      <4>2. s \notin PageSlots(page[t] + 1)
        BY <2>2, <2>4, <3>4
      <4>3. s > page[t] * PageSize
        BY <2>1, <3>2, <4>1 DEF Slot
      <4>4. s > (page[t] + 1) * PageSize
        BY <2>1, <4>2, <4>3, BehindPage
      <4>5. (page[t] + 1) * PageSize < s
        BY <2>1, <4>4 DEF Slot
      <4> QED
        BY <2>2, <3>4, <4>5
    <3> QED
      BY <3>3, <3>4
  <2> QED
    BY <2>1, <2>3, <2>4 DEF ClosedTableEmpty
\* The first page is taken, by the only one that closes the table.
<1>7. ASSUME NEW t \in Thread, NEW p \in Proc, CloseAll(t, p)
      PROVE  Closing'
  <2>1. /\ TakePage(t, p, 1) /\ tstate[p] = "open" /\ tstate' = [tstate EXCEPT ![p] = "closing"]
        /\ prc[t] = None /\ page[t] = 0
    <3>1. CallOK(t) /\ pc[t] = "idle"
      BY <1>7 DEF CloseAll, Core, CallsOK
    <3>2. page[t] = 0 /\ prc[t] = None
      BY <3>1 DEF CallOK
    <3> QED
      BY <1>7, <3>2 DEF CloseAll
  <2>2. /\ prc'[t] = p /\ page'[t] = 1
        /\ \A u \in Thread : u # t => page'[u] = page[u] /\ prc'[u] = prc[u]
        /\ \A s \in Slot : table'[p][s] = IF s \in PageSlots(1) THEN None ELSE table[p][s]
        /\ \A q \in Proc : q # p => table'[q] = table[q]
    BY <2>1 DEF TakePage, Core, TypeOK
  <2>3. \A u \in Thread : prc[u] # p
    BY <2>1 DEF OneCloser
  <2>4. \A q \in Proc : tstate'[q] = IF q = p THEN "closing" ELSE tstate[q]
    BY <2>1 DEF Core, TypeOK
  <2>5. OneCloser'
    <3>1. \A u \in Thread : prc[u] \in Proc \cup {None}
      BY DEF Core, TypeOK
    <3> QED
      BY <2>2, <2>3, <2>4, <3>1 DEF OneCloser
  <2>6. ASSUME NEW q \in Proc, tstate'[q] # "open", NEW s \in Slot, table'[q][s] # None
        PROVE  \E u \in Thread : prc'[u] = q /\ page'[u] * PageSize < s
    <3>1. CASE q = p
      <4>1. s \notin PageSlots(0 + 1)
        BY <2>2, <2>6, <3>1
      <4>2. s > 0 * PageSize /\ 0 \in Nat
        BY DEF Slot
      <4>3. s > (0 + 1) * PageSize
        BY <4>1, <4>2, BehindPage
      <4>4. 1 * PageSize < s
        BY <4>3 DEF Slot
      <4> QED
        BY <2>2, <3>1, <4>4
    <3>2. CASE q # p
      <4>1. PICK u \in Thread : prc[u] = q /\ page[u] * PageSize < s
        BY <2>2, <2>4, <2>6, <3>2 DEF ClosedTableEmpty
      <4>2. u # t
        BY <2>1, <4>1
      <4> QED
        BY <2>2, <4>1, <4>2
    <3> QED
      BY <3>1, <3>2
  <2> QED
    BY <2>5, <2>6 DEF ClosedTableEmpty
\* The last page was taken.
<1>8. ASSUME NEW t \in Thread, DeleteTable(t)
      PROVE  Closing'
  <2>1. /\ prc[t] \in Proc /\ page[t] \in Nat /\ page[t] * PageSize >= NumSlots
        /\ tstate' = [tstate EXCEPT ![prc[t]] = "deleted"]
        /\ prc' = [prc EXCEPT ![t] = None] /\ page' = [page EXCEPT ![t] = 0]
        /\ UNCHANGED table
    BY <1>8 DEF DeleteTable, BatchDone, Core, CallsOK, CallOK, TypeOK
  <2>2. /\ prc'[t] = None
        /\ \A u \in Thread : u # t => prc'[u] = prc[u] /\ page'[u] = page[u] /\ prc[u] # prc[t]
    <3>1. \A u \in Thread : prc[u] = prc[t] => u = t
      BY <2>1 DEF OneCloser
    <3> QED
      BY <2>1, <3>1 DEF Core, TypeOK
  <2>3. OneCloser'
    <3>1. \A q \in Proc : q # prc[t] => tstate'[q] = tstate[q]
      BY <2>1 DEF Core, TypeOK
    <3>2. \A u \in Thread : prc[u] \in Proc \cup {None}
      BY DEF Core, TypeOK
    <3> QED
      BY <2>2, <3>1, <3>2 DEF OneCloser
  <2>4. ASSUME NEW p \in Proc, tstate'[p] # "open", NEW s \in Slot, table'[p][s] # None
        PROVE  \E u \in Thread : prc'[u] = p /\ page'[u] * PageSize < s
    <3>1. tstate[p] # "open" /\ table[p][s] # None
      <4>1. tstate[prc[t]] = "closing"
        BY <2>1 DEF OneCloser
      <4>2. p # prc[t] => tstate'[p] = tstate[p]
        BY <2>1 DEF Core, TypeOK
      <4> QED
        BY <2>1, <2>4, <4>1, <4>2
    <3>2. PICK u \in Thread : prc[u] = p /\ page[u] * PageSize < s
      BY <3>1 DEF ClosedTableEmpty
    <3>3. u # t
      <4>1. s <= NumSlots /\ s \in Nat /\ PageSize \in Nat /\ NumSlots \in Nat
        BY DEF Slot
      <4>2. page[t] * PageSize \in Int
        BY <2>1, <4>1
      <4>3. ~(page[t] * PageSize < s)
        BY <2>1, <4>1, <4>2
      <4> QED
        BY <3>2, <4>3
    <3> QED
      BY <2>2, <3>2, <3>3
  <2> QED
    BY <2>3, <2>4 DEF ClosedTableEmpty
<1> HIDE DEF Closing
<1>9. Next => Closing'
  BY <1>3, <1>4, <1>5, <1>6, <1>7, <1>8 DEF Next, Step
<1> QED
  BY <1>2, <1>9

\* A process that has exited holds no handle (HNDLCloseAllHandles, handle.c:712,
\* and HNDLAlloc, handle.c:137).
THEOREM ExitedHoldsNothing == Spec => []ClosedTableEmpty
<1>1. Core /\ Core' /\ Closing /\ [Next]_vars => Closing'
  BY ClosingStep
<1>2. Closing => ClosedTableEmpty
  BY DEF Closing
<1> QED
  BY <1>1, <1>2, CoreHolds, ClosingInit, PTL DEF Spec

\* The calls of the pre-close method that are still to come for o, and how many o
\* can be due: one for each time it had no handle.
ClosePcs == {"preclose", "precloseU"}
Pending(o) == InCall(ClosePcs, o)
Due(o) == revived[o] + One(handles[o] = 0 /\ life[o] # "fresh")
PreCloseCounted == \A o \in Obj : preClosed[o] + Cardinality(Pending(o)) <= Due(o)

\* A step of one call changes what is pending by that call.
LEMMA PendingStep ==
    ASSUME NEW t \in Thread, NEW o, OnlyCall(t)
    PROVE  /\ Cardinality(Pending(o)) \in Nat /\ Cardinality(Pending(o))' \in Nat
           /\ Cardinality(Pending(o))' = Cardinality(Pending(o))
                  + One(pc'[t] \in ClosePcs /\ phd'[t] = o) - One(pc[t] \in ClosePcs /\ phd[t] = o)
<1>1. \A y : y # t => (y \in Pending(o) <=> y \in Pending(o)')
  BY DEF Pending, InCall, OnlyCall, ClosePcs
<1>2. /\ t \in Pending(o) <=> pc[t] \in ClosePcs /\ phd[t] = o
      /\ t \in Pending(o)' <=> pc'[t] \in ClosePcs /\ phd'[t] = o
  BY DEF Pending, InCall, ClosePcs
<1>3. IsFiniteSet(Pending(o))
  <2>1. Pending(o) \in SUBSET Thread
    BY DEF Pending, InCall
  <2> QED
    BY <2>1, FS_Subset, HandlesAssumption
<1>4. /\ Cardinality(Pending(o)) \in Nat /\ Cardinality(Pending(o)') \in Nat
      /\ Cardinality(Pending(o)') = Cardinality(Pending(o))
            + One(t \in Pending(o)') - One(t \in Pending(o))
  BY <1>1, <1>3, CardinalityStep
<1> QED
  BY <1>2, <1>4 DEF One

\* What is due is a number.
LEMMA DueType == TypeOK => \A o \in Obj : Due(o) \in Nat /\ preClosed[o] \in Nat
<1> QED
  BY DEF TypeOK, Due, One

\* A step of a call that has nothing to do with the method.
OffClose(t) ==
    /\ OnlyCall(t) /\ pc[t] \notin ClosePcs /\ pc'[t] \notin ClosePcs
    /\ UNCHANGED preClosed
LEMMA OffCloseStep ==
    ASSUME PreCloseCounted, TypeOK, TypeOK', NEW t \in Thread, OffClose(t),
           \A o \in Obj : Due(o) <= Due(o)'
    PROVE  PreCloseCounted'
<1> SUFFICES ASSUME NEW o \in Obj
             PROVE  preClosed'[o] + Cardinality(Pending(o))' <= Due(o)'
  BY DEF PreCloseCounted
<1>1. /\ Cardinality(Pending(o)) \in Nat
      /\ Cardinality(Pending(o))' = Cardinality(Pending(o))
  BY PendingStep DEF OffClose, One
<1>2. Due(o) \in Nat /\ Due(o)' \in Nat /\ preClosed[o] \in Nat
  <2>1. (Due(o) \in Nat)'
    BY DEF TypeOK, Due, One
  <2> QED
    BY <2>1, DueType
<1> QED
  BY <1>1, <1>2 DEF PreCloseCounted, OffClose

\* PreCloseCounted holds in the initial states
LEMMA PreCloseInit == Init => PreCloseCounted
<1> SUFFICES ASSUME Init, NEW o \in Obj
             PROVE  preClosed[o] + Cardinality(Pending(o)) <= Due(o)
  BY DEF PreCloseCounted
<1>1. Pending(o) = {}
  BY DEF Init, Pending, InCall, ClosePcs
<1> QED
  BY <1>1, FS_EmptySet DEF Init, Due, One

\* and is kept by every step that starts and ends in the core invariant.
LEMMA PreCloseStep ==
    ASSUME Core, Core', PreCloseCounted, [Next]_vars
    PROVE  PreCloseCounted'
<1> USE ObjFacts
<1>1. TypeOK /\ TypeOK' /\ CallsOK
  BY DEF Core
<1>2. CASE UNCHANGED vars
  BY <1>2 DEF vars, objVars, callVars, history, PreCloseCounted, Due, Pending, InCall
<1>3. ASSUME NEW t \in Thread, OffClose(t), \A o \in Obj : Due(o) <= Due(o)'
      PROVE  PreCloseCounted'
  BY <1>1, <1>3, OffCloseStep
\* Steps that change nothing that is due.
<1>4. ASSUME NEW t \in Thread, OffClose(t), UNCHANGED <<handles, life, revived>>
      PROVE  PreCloseCounted'
  <2>1. \A o \in Obj : Due(o)' = Due(o)
    BY <1>4 DEF Due
  <2> QED
    BY <1>1, <1>3, <1>4, <2>1, DueType
<1>5. ASSUME NEW t \in Thread,
             \/ EndUse(t) \/ Undo(t) \/ DeleteTable(t) \/ NextPage(t)
             \/ CheckCount(t, "map") \/ CheckCount(t, "dupwith") \/ DupRead(t)
             \/ \E s \in Slot : CloseNext(t, s)
             \/ \E p \in Proc : NamedFail(t, p) \/ DupNoEntry(t, p) \/ DupWithNoEntry(t, p)
                                    \/ CloseAll(t, p)
             \/ \E p \in Proc, s \in Slot : NamedEntry(t, p, s) \/ DupRefused(t, p, s)
                    \/ Lock(t, p, s) \/ Duplicate(t, p, s) \/ Zap(t, p, s)
      PROVE  PreCloseCounted'
  <2>1. UNCHANGED <<handles, life, revived, preClosed>>
    BY <1>5 DEF EndUse, Undo, DeleteTable, NextPage, CheckCount, DupRead, CloseNext, NamedFail, DupNoEntry,
       DupWithNoEntry, CloseAll, NamedEntry, DupRefused, Lock, Duplicate, Zap, objVars, history
  <2>2. OnlyCall(t) /\ pc[t] \notin ClosePcs /\ pc'[t] \notin ClosePcs
    BY SMTT(40), <1>1, <1>5 DEF EndUse, Undo, DeleteTable, BatchDone, NextPage, CheckCount, DupRead, CloseNext,
       NamedFail, DupNoEntry, DupWithNoEntry, CloseAll, NamedEntry, DupRefused, Lock, Duplicate,
       Zap, Goto, OnlyCall, TypeOK, ClosePcs
  <2> QED
    BY <1>4, <2>1, <2>2 DEF OffClose
<1>6. ASSUME NEW t \in Thread, DropLock(t)
      PROVE  PreCloseCounted'
  <2> DEFINE o == IF pc[t] = "api" THEN api[t] ELSE phd[t]
             a == IF pc[t] = "api" THEN None ELSE api[t]
  <2>1. /\ pc[t] \in {"unlock", "api"}
        /\ api' = [api EXCEPT ![t] = a]
        /\ \/ pc' = [pc EXCEPT ![t] = "free"] /\ phd' = [phd EXCEPT ![t] = o]
           \/ pc' = [pc EXCEPT ![t] = Continue(t, a)] /\ phd' = [phd EXCEPT ![t] = None]
    BY <1>6, DropLockEffect
  <2> HIDE DEF o, a
  <2>2. Continue(t, a) \in {"api", "batch", "undo", "idle"}
    BY ContinueType
  <2>3. OnlyCall(t) /\ pc[t] \notin ClosePcs /\ pc'[t] \notin ClosePcs
    BY <1>1, <2>1, <2>2 DEF OnlyCall, TypeOK, ClosePcs
  <2>4. UNCHANGED <<handles, life, revived, preClosed>>
    BY <1>6 DEF DropLock, history
  <2> QED
    BY <1>4, <2>3, <2>4 DEF OffClose
\* Steps after which more may be due.
<1>7. ASSUME NEW t \in Thread, \/ \E o \in Obj : OpenNamed(t, o)
                               \/ \E p \in Proc, s \in Slot : DupEntry(t, p, s)
      PROVE  PreCloseCounted'
  <2>1. PICK o \in Obj : /\ handles[o] > 0 /\ handles' = [handles EXCEPT ![o] = @ + 1]
                         /\ UNCHANGED <<life, revived, preClosed>>
    <3>1. ASSUME NEW o \in Obj, OpenNamed(t, o)
          PROVE  /\ handles[o] > 0 /\ handles' = [handles EXCEPT ![o] = @ + 1]
                 /\ UNCHANGED <<life, revived, preClosed>>
      BY <3>1 DEF OpenNamed, history, Core, NamedHeld
    <3>2. ASSUME NEW p \in Proc, NEW s \in Slot, DupEntry(t, p, s)
          PROVE  /\ phd[t] \in Obj
                 /\ handles[phd[t]] > 0 /\ handles' = [handles EXCEPT ![phd[t]] = @ + 1]
                 /\ UNCHANGED <<life, revived, preClosed>>
      BY <1>1, <3>2 DEF DupEntry, Duplicable, history, CallsOK, CallOK, LockPcs
    <3> QED
      BY <1>7, <3>1, <3>2
  <2>2. OnlyCall(t) /\ pc[t] \notin ClosePcs /\ pc'[t] \notin ClosePcs
    BY <1>1, <1>7 DEF OpenNamed, DupEntry, Goto, OnlyCall, TypeOK, ClosePcs
  <2>3. \A q \in Obj : handles'[q] = 0 <=> handles[q] = 0
    BY <1>1, <2>1 DEF TypeOK
  <2>4. \A q \in Obj : Due(q)' = Due(q)
    BY <2>1, <2>3 DEF Due, One
  <2> QED
    BY <1>1, <1>3, <2>1, <2>2, <2>4, DueType DEF OffClose
<1>8. ASSUME NEW t \in Thread, MapView(t) \/ \E p \in Proc, s \in Slot : DupWithHDATA(t, p, s)
      PROVE  PreCloseCounted'
  <2>1. /\ phd[t] \in Obj /\ handles' = [handles EXCEPT ![phd[t]] = @ + 1]
        /\ Revive(t) /\ UNCHANGED <<life, preClosed>>
    BY <1>1, <1>8 DEF MapView, DupWithHDATA, CallsOK, CallOK, LockPcs
  <2>2. OnlyCall(t) /\ pc[t] \notin ClosePcs /\ pc'[t] \notin ClosePcs
    BY <1>1, <1>8 DEF MapView, DupWithHDATA, Goto, OnlyCall, TypeOK, ClosePcs
  <2>3. ASSUME NEW q \in Obj
        PROVE  Due(q) <= Due(q)'
    <3>1. /\ handles[q] \in Nat /\ revived[q] \in Nat
          /\ handles'[q] = IF q = phd[t] THEN handles[q] + 1 ELSE handles[q]
          /\ revived'[q] = IF q = phd[t] /\ handles[q] = 0 THEN revived[q] + 1 ELSE revived[q]
      BY <1>1, <2>1 DEF TypeOK, Revive
    <3> QED
      BY <2>1, <3>1 DEF Due, One
  <2> QED
    BY <1>3, <2>1, <2>2, <2>3 DEF OffClose
<1>9. ASSUME NEW t \in Thread, NEW o \in Obj,
             CreateNamed(t, o) \/ \E p \in Proc, s \in Slot : Create(t, p, s, o)
      PROVE  PreCloseCounted'
  <2>1. /\ life[o] = "fresh" /\ life' = [life EXCEPT ![o] = "live"]
        /\ handles' = [handles EXCEPT ![o] = 1] /\ UNCHANGED <<revived, preClosed>>
    BY <1>9 DEF CreateNamed, Create, history
  <2>2. OnlyCall(t) /\ pc[t] \notin ClosePcs /\ pc'[t] \notin ClosePcs
    <3>1. CASE CreateNamed(t, o)
      BY <1>1, <3>1 DEF CreateNamed, Goto, OnlyCall, TypeOK, ClosePcs
    <3>2. ASSUME NEW p \in Proc, NEW s \in Slot, Create(t, p, s, o)
          PROVE  pc[t] \in {"idle", "using"} /\ UNCHANGED callVars
      BY <3>2 DEF Create
    <3> QED
      BY <1>9, <3>1, <3>2 DEF callVars, OnlyCall, ClosePcs
  <2>3. ASSUME NEW q \in Obj
        PROVE  Due(q) <= Due(q)'
    <3>1. /\ handles'[q] = IF q = o THEN 1 ELSE handles[q]
          /\ life'[q] = IF q = o THEN "live" ELSE life[q]
          /\ revived[q] \in Nat
      BY <1>1, <2>1 DEF TypeOK
    <3> QED
      BY <2>1, <3>1 DEF Due, One
  <2> QED
    BY <1>3, <2>1, <2>2, <2>3 DEF OffClose
<1>10. ASSUME NEW t \in Thread, Free(t)
       PROVE  PreCloseCounted'
  <2>1. /\ pc[t] = "free" /\ phd[t] \in Obj /\ life' = [life EXCEPT ![phd[t]] = "freed"]
        /\ UNCHANGED <<handles, revived, preClosed, api>>
    BY <1>1, <1>10 DEF Free, CallsOK, CallOK
  <2>2. Continue(t, api[t]) \in {"api", "batch", "undo", "idle"}
    BY ContinueType
  <2>3. OnlyCall(t) /\ pc[t] \notin ClosePcs /\ pc'[t] \notin ClosePcs
    BY <1>1, <1>10, <2>2 DEF Free, Goto, OnlyCall, TypeOK, ClosePcs
  <2>4. ASSUME NEW q \in Obj
        PROVE  Due(q) <= Due(q)'
    <3>1. /\ life'[q] = IF q = phd[t] THEN "freed" ELSE life[q]
          /\ revived[q] \in Nat
      BY <1>1, <2>1 DEF TypeOK
    <3> QED
      BY <2>1, <3>1 DEF Due, One
  <2> QED
    BY <1>3, <2>1, <2>3, <2>4 DEF OffClose
\* The last handle goes: the method is due once more, and its call may be pending.
<1>11. ASSUME NEW t \in Thread, DropHandle(t)
       PROVE  PreCloseCounted'
  <2>1. /\ phd[t] \in Obj /\ handles[phd[t]] > 0
        /\ handles' = [handles EXCEPT ![phd[t]] = @ - 1]
        /\ UNCHANGED <<life, revived, preClosed, api>> /\ pc[t] \notin ClosePcs
    BY <1>11, DropHandleEffect DEF DropHandle, history, ClosePcs
  <2>2. OnlyCall(t)
    <3>1. phd' \in {phd, [phd EXCEPT ![t] = None]} /\ pc' = [pc EXCEPT ![t] = pc'[t]]
      BY <1>11, DropHandleEffect
    <3> QED
      BY <1>1, <2>1, <3>1 DEF OnlyCall, TypeOK
  <2>3. pc'[t] \in ClosePcs => handles[phd[t]] = 1 /\ phd' = phd
    BY <1>11, DropHandleEffect DEF ClosePcs
  <2>4. life[phd[t]] = "live"
    <3>1. phd[t] \in Obj /\ Held(phd[t])
      BY <1>1, <2>1, HeldByCounts DEF Core
    <3> QED
      BY <3>1 DEF Core, NoUseAfterFree
  <2> SUFFICES ASSUME NEW o \in Obj
               PROVE  preClosed'[o] + Cardinality(Pending(o))' <= Due(o)'
    BY DEF PreCloseCounted
  <2>5. /\ handles[o] \in Nat /\ revived[o] \in Nat /\ preClosed[o] \in Nat
        /\ handles'[o] = IF o = phd[t] THEN handles[o] - 1 ELSE handles[o]
    BY <1>1, <2>1 DEF TypeOK
  <2>6. /\ Cardinality(Pending(o)) \in Nat
        /\ Cardinality(Pending(o))' = Cardinality(Pending(o))
               + One(pc'[t] \in ClosePcs /\ phd'[t] = o)
    BY <2>1, <2>2, PendingStep DEF One
  <2>7. preClosed[o] + Cardinality(Pending(o)) <= Due(o)
    BY DEF PreCloseCounted
  <2>8. CASE o = phd[t]
    <3>1. Due(o) = revived[o]
      BY <2>1, <2>5, <2>8 DEF Due, One
    <3>2. Due(o)' = revived[o] + One(handles[o] = 1)
      BY <2>1, <2>4, <2>5, <2>8 DEF Due, One
    <3> QED
      BY <2>1, <2>3, <2>5, <2>6, <2>7, <2>8, <3>1, <3>2 DEF One
  <2>9. CASE o # phd[t]
    <3>1. Due(o)' = Due(o)
      BY <2>1, <2>5, <2>9 DEF Due, One
    <3> QED
      BY <2>1, <2>3, <2>5, <2>6, <2>7, <2>9, <3>1 DEF One
  <2> QED
    BY <2>8, <2>9
\* The call that was pending is made.
<1>12. ASSUME NEW t \in Thread, PreClose(t)
       PROVE  PreCloseCounted'
  <2>1. /\ pc[t] \in ClosePcs /\ preClosed' = [preClosed EXCEPT ![phd[t]] = @ + 1]
        /\ UNCHANGED <<handles, life, revived, api>>
    BY <1>12 DEF PreClose, objVars, ClosePcs
  <2>2. OnlyCall(t) /\ pc'[t] \notin ClosePcs
    <3>1. CASE pc[t] = "preclose"
      BY <1>1, <1>12, <3>1 DEF PreClose, Go, Goto, OnlyCall, TypeOK, ClosePcs
    <3>2. CASE pc[t] = "precloseU"
      BY ZenonT(30), <1>1, <1>12, <3>2, ContinueType
         DEF PreClose, Go, Goto, OnlyCall, TypeOK, ClosePcs
    <3> QED
      BY <2>1, <3>1, <3>2 DEF ClosePcs
  <2> SUFFICES ASSUME NEW o \in Obj
               PROVE  preClosed'[o] + Cardinality(Pending(o))' <= Due(o)'
    BY DEF PreCloseCounted
  <2>3. Due(o)' = Due(o) /\ Due(o) \in Nat /\ preClosed[o] \in Nat
    BY <1>1, <2>1, DueType DEF Due
  <2>4. preClosed'[o] = preClosed[o] + One(phd[t] = o)
    BY <1>1, <2>1 DEF TypeOK, One
  <2>5. /\ Cardinality(Pending(o)) \in Nat
        /\ Cardinality(Pending(o))' = Cardinality(Pending(o)) - One(phd[t] = o)
    BY <2>1, <2>2, PendingStep DEF One
  <2> QED
    BY <2>3, <2>4, <2>5 DEF PreCloseCounted, One
<1>13. Next => PreCloseCounted'
  BY <1>5, <1>6, <1>7, <1>8, <1>9, <1>10, <1>11, <1>12 DEF Next, Step
<1> QED
  BY <1>2, <1>13

\* The pre-close method runs once for an object, and not before its last handle is
\* gone, unless a lock holder made a handle after that (DoUnlockHDATA, handle.c:281).
THEOREM PreCloseRunsOnce == Spec => []PreClosedOnce
<1>1. Core /\ Core' /\ PreCloseCounted /\ [Next]_vars => PreCloseCounted'
  BY PreCloseStep
<1>2. Core /\ PreCloseCounted => PreClosedOnce
  <2> SUFFICES ASSUME Core, PreCloseCounted, NEW o \in Obj
               PROVE  /\ preClosed[o] <= 1 + revived[o]
                      /\ handles[o] > 0 => preClosed[o] <= revived[o]
    BY DEF PreClosedOnce
  <2>1. Pending(o) \in SUBSET Thread
    BY DEF Pending, InCall
  <2>2. Cardinality(Pending(o)) \in Nat
    BY <2>1, FS_Subset, FS_CardinalityType, HandlesAssumption
  <2>3. preClosed[o] \in Nat /\ revived[o] \in Nat /\ handles[o] \in Nat
    BY DEF Core, TypeOK
  <2> QED
    BY <2>2, <2>3 DEF PreCloseCounted, Due, One
<1> QED
  BY <1>1, <1>2, CoreHolds, PreCloseInit, PTL DEF Spec

=============================================================================
