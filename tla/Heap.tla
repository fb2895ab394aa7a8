-------------------------------- MODULE Heap --------------------------------
(***************************************************************************)
(* The garbage-collected heap (ltnvm/Heap.hxx, gc.cxx) and those who use   *)
(* it: compiled code, whose references lie on the operand stack, and       *)
(* natives, C++ functions whose references lie in C++ variables that the   *)
(* collector does not see.  A native is safe because it holds a lock that  *)
(* keeps the collector from running, also in the code it calls back.       *)
(*                                                                         *)
(* Of the values on the stack only the references matter, and of an object *)
(* only what it refers to.  The functions that are members of containers   *)
(* (xs->size) are values too, but their function pointers are static: they *)
(* are not on the heap, and they belong to no plugin.                      *)
(***************************************************************************)
EXTENDS Integers, SequencesExt, FiniteSetsExt

CONSTANTS
    Ids,              \* addresses of objects
    MemberFunctions,  \* function pointers of native_function_table, static
    FirstCollection,  \* next_collection of an empty heap (128)
    MinCollection,    \* min_collection_size (129)
    Growth,           \* growth_factor (2)
    Shapes,           \* shapes of programs admitted, see HeapShapes
    MaxStack,         \* bound: the references on the stack
    MaxRefs,          \* bound: the references of an object
    MaxNatives        \* bound: natives inside each other

VARIABLES
    stack,          \* the references on the operand stack
    live,           \* the objects that have not been freed
    refs,           \* refs[o]: what object o refers to
    coroutines,     \* the objects that are coroutines
    marked,         \* the objects whose flag is set
    pending,        \* the references that mark has still to follow
    unswept,        \* the objects that sweep has not seen yet
    phase,          \* "run", "mark", "sweep", "alloc": what happens inside an
                    \* instruction; "dead": the process has ended
    size,           \* the number of objects, as the heap counts them
    collected,      \* the number of objects that sweep has freed
    nextCollection, \* the size at which the next collection is due
    natives,        \* the natives in progress, the newest last
    inNative,       \* C++ code runs
    gcLock          \* gc_lock_stack

graphVars == <<stack, live, refs, coroutines>>
gcVars == <<marked, pending, unswept, phase, size, collected, nextCollection>>
nativeVars == <<natives, inNative, gcLock>>
vars == <<graphVars, gcVars, nativeVars>>

(***************************************************************************)
(* Shapes of programs, as in Machine, without which the heap is safe:      *)
(*   coroutines        coroutine objects are made                          *)
(*   unlocked_natives  C++ code runs callbacks without the lock: build-ins *)
(*                     (sort, is_sorted, find ...) and natives whose       *)
(*                     uninitialised flags say that they use the collector *)
(***************************************************************************)
HeapShapes == {"coroutines", "unlocked_natives"}

ASSUME HeapAssumption ==
    /\ IsFiniteSet(Ids) /\ IsFiniteSet(MemberFunctions)
    /\ Ids \cap MemberFunctions = {}
    /\ Shapes \subseteq HeapShapes
    /\ {FirstCollection, MinCollection, Growth, MaxStack, MaxRefs, MaxNatives} \subseteq Nat

\* What a reference can point to.
Referents == Ids \cup MemberFunctions

Max2(a, b) == IF a >= b THEN a ELSE b
Cut(n) == SubSeq(stack, 1, Len(stack) - n)
Topmost(n) == Range(SubSeq(stack, Len(stack) - n + 1, Len(stack)))
Held == UNION {natives[i].held : i \in DOMAIN natives}
Locks(ns) == Cardinality({i \in DOMAIN ns : ns[i].locks})

\* The code runs, in no function or in one that a native calls back.
InCode == phase = "run" /\ ~inNative
InNative == phase = "run" /\ inNative
Room == Len(stack) < MaxStack

Init ==
    /\ stack = <<>> /\ live = {} /\ refs = [o \in Referents |-> {}] /\ coroutines = {}
    /\ marked = {} /\ pending = {} /\ unswept = {} /\ phase = "run"
    /\ size = 0 /\ collected = 0 /\ nextCollection = FirstCollection
    /\ natives = <<>> /\ inNative = FALSE /\ gcLock = 0

-----------------------------------------------------------------------------
(* Instructions that move references *)

Copy == \E r \in Range(stack) :
    /\ InCode /\ Room
    /\ stack' = Append(stack, r)
    /\ UNCHANGED <<live, refs, coroutines, gcVars, nativeVars>>

Drop ==
    /\ InCode /\ stack # <<>>
    /\ stack' = Cut(1)
    /\ UNCHANGED <<live, refs, coroutines, gcVars, nativeVars>>

\* The topmost value replaces that of a slot or a global.
Overwrite == \E i \in 1..(Len(stack) - 1) :
    /\ InCode
    /\ stack' = [Cut(1) EXCEPT ![i] = Last(stack)]
    /\ UNCHANGED <<live, refs, coroutines, gcVars, nativeVars>>

\* An element, a member, a captured value of the topmost object takes its place.
ReadElement ==
    /\ InCode /\ stack # <<>>
    /\ \E r \in refs[Last(stack)] : stack' = Append(Cut(1), r)
    /\ UNCHANGED <<live, refs, coroutines, gcVars, nativeVars>>

\* MEMBER_READ of a container: get_member finds the function in a table.
ReadMember == \E m \in MemberFunctions :
    /\ InCode /\ stack # <<>>
    /\ Last(stack) \in Ids
    /\ stack' = Append(Cut(1), m)
    /\ UNCHANGED <<live, refs, coroutines, gcVars, nativeVars>>

\* Slip: what a coroutine has saved can be written to.
WritableCoroutine(o) == o \in live

\* Coroutines have no operation that changes them.
Writable(o) == o \in live \ coroutines

WriteElement ==
    /\ InCode /\ Len(stack) >= 2
    /\ LET container == stack[Len(stack) - 1]
       IN  /\ Writable(container)
           /\ Cardinality(refs[container]) < MaxRefs
           /\ refs' = [refs EXCEPT ![container] = @ \cup {Last(stack)}]
    /\ stack' = Cut(1)
    /\ UNCHANGED <<live, coroutines, gcVars, nativeVars>>

EraseElement ==
    /\ InCode /\ stack # <<>> /\ Writable(Last(stack))
    /\ \E r \in refs[Last(stack)] : refs' = [refs EXCEPT ![Last(stack)] = @ \ {r}]
    /\ UNCHANGED <<stack, live, coroutines, gcVars, nativeVars>>

-----------------------------------------------------------------------------
(* Allocation *)

\* track: a new object, referring to rs, becomes part of the heap.
TrackUncounted(o, rs) ==   \* slip: the object is not counted
    /\ o \notin live
    /\ live' = live \cup {o}
    /\ refs' = [refs EXCEPT ![o] = rs]
    /\ size' = size
Track(o, rs) ==
    /\ o \notin live
    /\ live' = live \cup {o}
    /\ refs' = [refs EXCEPT ![o] = rs]
    /\ size' = size + 1

\* Slip: the lock is not looked at.
CollectsIfLocked == size >= nextCollection
Collects == size >= nextCollection /\ gcLock = 0

\* An instruction that allocates calls collect_garbage first, with all its
\* operands still on the stack, which are the roots.  So does a plugin.
BeginAllocation ==
    /\ phase = "run"
    /\ live # Ids
    /\ IF Collects THEN phase' = "mark" /\ pending' = Range(stack)
                   ELSE phase' = "alloc" /\ UNCHANGED pending
    /\ UNCHANGED <<graphVars, marked, unswept, size, collected, nextCollection, nativeVars>>

\* The object takes n operands: NEWARR, NEWTUPLE, NEWSTR, NEWFX, CO_RETURN ...
NewObject == \E o \in Ids, n \in 0..MaxRefs :
    /\ phase = "alloc" /\ ~inNative
    /\ n <= Len(stack) /\ Len(stack) - n < MaxStack
    /\ Track(o, Topmost(n))
    /\ stack' = Append(Cut(n), o)
    /\ phase' = "run"
    /\ UNCHANGED <<coroutines, marked, pending, unswept, collected, nextCollection, nativeVars>>

\* CO_DUMP and YIELD: the window of the coroutine becomes its locals.  The
\* tuple that YIELD makes as well is one of AllocateQuietly.
NewCoroutine == \E o \in Ids, n \in 0..MaxRefs :
    /\ phase = "alloc" /\ ~inNative
    /\ "coroutines" \in Shapes
    /\ n <= Len(stack) /\ Len(stack) - n < MaxStack
    /\ Track(o, Topmost(n))
    /\ coroutines' = coroutines \cup {o}
    /\ stack' = Append(Cut(n), o)
    /\ phase' = "run"
    /\ UNCHANGED <<marked, pending, unswept, collected, nextCollection, nativeVars>>

\* ITER, clones and the string of an error are allocated without a collection.
AllocateQuietly == \E o \in Ids, n \in 0..1 :
    /\ InCode
    /\ n <= Len(stack) /\ Len(stack) - n < MaxStack
    /\ Track(o, Topmost(n))
    /\ stack' = Append(Cut(n), o)
    /\ UNCHANGED <<coroutines, marked, pending, unswept, phase, collected, nextCollection, nativeVars>>

-----------------------------------------------------------------------------
(* Collection *)

\* Slip: what has been marked is followed again.
MarkAgain(o) ==
    /\ phase = "mark"
    /\ o \in pending
    /\ marked' = marked \cup {o}
    /\ pending' = (pending \ {o}) \cup refs[o]
    /\ UNCHANGED <<graphVars, unswept, phase, size, collected, nextCollection, nativeVars>>

\* Slip: what a coroutine has saved is not followed.
MarkForgettingLocals(o) ==
    /\ phase = "mark"
    /\ o \in pending
    /\ marked' = IF o \in coroutines THEN marked ELSE marked \cup {o}
    /\ pending' = (pending \ {o}) \cup (IF o \in marked \cup coroutines THEN {} ELSE refs[o])
    /\ UNCHANGED <<graphVars, unswept, phase, size, collected, nextCollection, nativeVars>>

\* mark: an object is marked and followed once, but a coroutine is followed
\* each time and never marked.
Mark(o) ==
    /\ phase = "mark"
    /\ o \in pending
    /\ marked' = IF o \in coroutines THEN marked ELSE marked \cup {o}
    /\ pending' = (pending \ {o}) \cup (IF o \in marked THEN {} ELSE refs[o])
    /\ UNCHANGED <<graphVars, unswept, phase, size, collected, nextCollection, nativeVars>>

\* mark_obj(NativeFunctionPointer) marks the plugin of the function, and reads
\* the plugin's flag, also where there is no plugin: that ends the process.
MarkMember(m) ==
    /\ phase = "mark"
    /\ m \in pending
    /\ phase' = "dead"
    /\ UNCHANGED <<graphVars, marked, pending, unswept, size, collected, nextCollection,
                   nativeVars>>

\* Slip: the count goes on from the last collection.
BeginSweepWithoutReset ==
    /\ phase = "mark" /\ pending = {}
    /\ phase' = "sweep"
    /\ unswept' = live
    /\ UNCHANGED <<graphVars, marked, pending, size, collected, nextCollection, nativeVars>>

BeginSweep ==
    /\ phase = "mark" /\ pending = {}
    /\ phase' = "sweep"
    /\ unswept' = live
    /\ collected' = 0
    /\ UNCHANGED <<graphVars, marked, pending, size, nextCollection, nativeVars>>

\* Slip: the flag stays set.
SweepKeepingFlags(o) ==
    /\ phase = "sweep"
    /\ o \in unswept
    /\ unswept' = unswept \ {o}
    /\ IF o \in marked
       THEN UNCHANGED <<marked, live, refs, coroutines, collected>>
       ELSE /\ live' = live \ {o}
            /\ refs' = [refs EXCEPT ![o] = {}]
            /\ coroutines' = coroutines \ {o}
            /\ collected' = collected + 1
            /\ UNCHANGED marked
    /\ UNCHANGED <<stack, pending, phase, size, nextCollection, nativeVars>>

\* sweep: an object that is not marked is freed, the flag of the others is
\* cleared for the next collection.
Sweep(o) ==
    /\ phase = "sweep"
    /\ o \in unswept
    /\ unswept' = unswept \ {o}
    /\ IF o \in marked
       THEN marked' = marked \ {o} /\ UNCHANGED <<live, refs, coroutines, collected>>
       ELSE /\ live' = live \ {o}
            /\ refs' = [refs EXCEPT ![o] = {}]
            /\ coroutines' = coroutines \ {o}
            /\ collected' = collected + 1
            /\ UNCHANGED marked
    /\ UNCHANGED <<stack, pending, phase, size, nextCollection, nativeVars>>

\* Slip: the threshold does not grow with what has survived.
EndSweepWithoutGrowth ==
    /\ phase = "sweep" /\ unswept = {}
    /\ size' = size - collected
    /\ nextCollection' = Max2(size', MinCollection)
    /\ phase' = "alloc"
    /\ UNCHANGED <<graphVars, marked, pending, unswept, collected, nativeVars>>

EndSweep ==
    /\ phase = "sweep" /\ unswept = {}
    /\ size' = size - collected
    /\ nextCollection' = Max2(size' * Growth, MinCollection)
    /\ phase' = "alloc"
    /\ UNCHANGED <<graphVars, marked, pending, unswept, collected, nativeVars>>

-----------------------------------------------------------------------------
(* Natives *)

\* do_invoke_native_function takes the arguments off the stack.
StartNative == \E n \in 0..1, locks \in BOOLEAN :
    /\ InCode /\ n <= Len(stack) /\ Len(natives) < MaxNatives
    /\ locks \/ "unlocked_natives" \in Shapes
    /\ stack' = Cut(n)
    /\ natives' = Append(natives, [held |-> Topmost(n), locks |-> locks])
    /\ gcLock' = gcLock + (IF locks THEN 1 ELSE 0)
    /\ inNative' = TRUE
    /\ UNCHANGED <<live, refs, coroutines, gcVars>>

\* The references of the native that runs become hs.
Hold(hs) == natives' = Front(natives) \o <<[Last(natives) EXCEPT !.held = hs]>>

NativeAllocates == \E o \in Ids :
    /\ InNative
    /\ Track(o, {})
    /\ Hold(Last(natives).held \cup {o})
    /\ UNCHANGED <<stack, coroutines, marked, pending, unswept, phase, collected, nextCollection,
                   inNative, gcLock>>

\* alloc_array, alloc_map ... of the plugin interface, after their collection.
PluginAllocates == \E o \in Ids :
    /\ phase = "alloc" /\ inNative
    /\ Track(o, {})
    /\ Hold(Last(natives).held \cup {o})
    /\ phase' = "run"
    /\ UNCHANGED <<stack, coroutines, marked, pending, unswept, collected, nextCollection,
                   inNative, gcLock>>

NativeReads ==
    /\ InNative
    /\ \E o \in Last(natives).held : \E r \in refs[o] :
           Hold(Last(natives).held \cup {r})
    /\ UNCHANGED <<graphVars, gcVars, inNative, gcLock>>

NativeWrites ==
    /\ InNative
    /\ \E o, r \in Last(natives).held :
           /\ Writable(o) /\ Cardinality(refs[o]) < MaxRefs
           /\ refs' = [refs EXCEPT ![o] = @ \cup {r}]
    /\ UNCHANGED <<stack, live, coroutines, gcVars, nativeVars>>

\* run_function: the arguments lie on the stack again, in the new frame.
CallBack ==
    /\ InNative
    /\ \/ UNCHANGED stack
       \/ \E r \in Last(natives).held : Room /\ stack' = Append(stack, r)
    /\ inNative' = FALSE
    /\ UNCHANGED <<live, refs, coroutines, gcVars, natives, gcLock>>

CallbackReturns ==
    /\ InCode /\ natives # <<>> /\ stack # <<>>
    /\ stack' = Cut(1)
    /\ Hold(Last(natives).held \cup {Last(stack)})
    /\ inNative' = TRUE
    /\ UNCHANGED <<live, refs, coroutines, gcVars, gcLock>>

\* Slip: an exception leaves the lock behind.
EndWithoutUnlock ==
    /\ natives' = Front(natives)
    /\ UNCHANGED gcLock
    /\ inNative' = FALSE

\* The destructor of GCLock runs however the native ends.
End ==
    /\ natives' = Front(natives)
    /\ gcLock' = gcLock - (IF Last(natives).locks THEN 1 ELSE 0)
    /\ inNative' = FALSE

EndNative ==
    /\ InNative
    /\ \/ UNCHANGED stack
       \/ \E r \in Last(natives).held : Room /\ stack' = Append(stack, r)
    /\ End
    /\ UNCHANGED <<live, refs, coroutines, gcVars>>

-----------------------------------------------------------------------------
(* Exceptions cut the stack; the topmost value or a new string is pushed *)

CutTo(k) == SubSeq(stack, 1, k)

Throw == \E k \in 0..Len(stack) :
    /\ InCode /\ stack # <<>>
    /\ k < Len(stack)
    /\ stack' = Append(CutTo(k), Last(stack))
    /\ UNCHANGED <<live, refs, coroutines, gcVars, nativeVars>>

\* error: in code, or in a native, which ends.
Fail == \E k \in 0..Len(stack), o \in Ids :
    /\ phase = "run"
    /\ k < MaxStack
    /\ Track(o, {})
    /\ stack' = Append(CutTo(k), o)
    /\ IF inNative THEN End ELSE UNCHANGED nativeVars
    /\ UNCHANGED <<coroutines, marked, pending, unswept, phase, collected, nextCollection>>

\* No handler: the host gets a C++ exception, which passes all natives.
Unhandled == \E k \in 0..Len(stack) :
    /\ phase = "run"
    /\ stack' = CutTo(k)
    /\ natives' = <<>>
    /\ gcLock' = gcLock - Locks(natives)
    /\ inNative' = FALSE
    /\ UNCHANGED <<live, refs, coroutines, gcVars>>

\* Heap::reset: the host sets the machine up with another program.
Reset ==
    /\ phase = "run" /\ natives = <<>>
    /\ stack' = <<>> /\ live' = {} /\ refs' = [o \in Referents |-> {}] /\ coroutines' = {}
    /\ size' = 0 /\ nextCollection' = FirstCollection
    /\ UNCHANGED <<marked, pending, unswept, phase, collected, nativeVars>>

-----------------------------------------------------------------------------
Moving == Copy \/ Drop \/ Overwrite \/ ReadElement \/ ReadMember \/ WriteElement \/ EraseElement
Allocating == BeginAllocation \/ NewObject \/ NewCoroutine \/ AllocateQuietly
Collecting ==
    \/ \E o \in Ids : Mark(o) \/ Sweep(o)
    \/ \E m \in MemberFunctions : MarkMember(m)
    \/ BeginSweep \/ EndSweep
Calling ==
    \/ StartNative \/ NativeAllocates \/ PluginAllocates \/ NativeReads \/ NativeWrites
    \/ CallBack \/ CallbackReturns \/ EndNative
Failing == Throw \/ Fail \/ Unhandled \/ Reset

Next == Moving \/ Allocating \/ Collecting \/ Calling \/ Failing

\* The steps of a collection are straight-line code.
Spec == Init /\ [][Next]_vars /\ WF_vars(Collecting)

-----------------------------------------------------------------------------
(* Properties *)

(* What can be reached from the references in rs: what every set has that  *)
(* contains rs and what its members refer to.                              *)
Closed(os) == \A o \in os : refs[o] \subseteq os
Reachable(rs) ==
    {o \in Referents : \A os \in SUBSET Referents : rs \subseteq os /\ Closed(os) => o \in os}

\* What a reference may point to: member functions are never freed.
Valid == live \cup MemberFunctions

(* Every variable has the type of the member it stands for.                *)
TypeOK ==
    /\ stack \in Seq(Referents) /\ live \subseteq Ids /\ coroutines \subseteq Ids
    /\ refs \in [Referents -> SUBSET Referents]
    /\ marked \subseteq Ids /\ pending \subseteq Referents /\ unswept \subseteq Ids
    /\ phase \in {"run", "mark", "sweep", "alloc", "dead"}
    /\ size \in Nat /\ collected \in Nat /\ nextCollection \in Nat
    /\ natives \in Seq([held : SUBSET Referents, locks : BOOLEAN])
    /\ inNative \in BOOLEAN /\ gcLock \in Nat

(* No reference dangles: whatever the code, or a native in progress, can   *)
(* still get at has not been freed (gc::sweep), and refers to objects that *)
(* have not been freed either.                                             *)
NoDangling ==
    LET roots == Range(stack) \cup Held
    IN  roots \subseteq Valid /\ \A o \in Reachable(roots) : o \in Valid /\ refs[o] \subseteq Valid

(* A collection that comes to its end frees all that cannot be reached     *)
(* from the stack, cycles included, and nothing else (gc::mark, sweep).    *)
CollectsExactly ==
    [][phase = "sweep" /\ phase' = "alloc" => live = Reachable(Range(stack))]_vars

(* The heap counts its objects correctly although tracking and sweeping    *)
(* count in different places; a wrong count would wrap round below zero.   *)
SizeCounts ==
    size = Cardinality(live) + (IF phase = "sweep" THEN collected ELSE 0)

(* The lock is held once for each native in progress that wants it,        *)
(* however natives end (GCLock in do_invoke_native_function).              *)
LockBalanced == gcLock = Locks(natives)

(* Room is made: an instruction allocates below the threshold, or while a  *)
(* native keeps the collector from running.  So what has survived does not *)
(* make the next allocation collect again (next_collection).               *)
RoomMade == phase = "alloc" => size < nextCollection \/ gcLock > 0

(* A collection of a heap from which a member function can be reached does *)
(* not come to its end (mark_obj).                                         *)
Doomed == phase = "mark" /\ Reachable(Range(stack)) \cap MemberFunctions # {}

(* A collection comes to its end, also when objects refer to each other in *)
(* cycles, unless it reaches a member function (gc::mark and gc::sweep).   *)
CollectionEnds == phase \in {"mark", "sweep"} /\ ~Doomed ~> phase = "alloc"

(* A member function can be saved and passed around to be invoked later:   *)
(* a collection that meets one goes on (mark_obj of NativeFunctionPointer).*)
CollectionSurvives == phase # "dead"

\* With coroutines the heap is as the code means it up to the first sweep.
FirstMarking == phase = "mark" /\ nextCollection = FirstCollection

(* The first collection marks exactly what can be reached and has a flag,  *)
(* also through coroutines, which have none (mark_obj(Coroutine)).  What   *)
(* sweep makes of that is the subject of NoDangling.                       *)
FirstMarkingExact ==
    [][FirstMarking /\ phase' = "sweep" => marked = Reachable(Range(stack)) \ coroutines]_vars

(* The first collection follows every coroutine as often as it meets it    *)
(* and still ends, as no cycle goes through coroutines alone: marking comes *)
(* to the sweep, or ends the process if it reaches a member function.      *)
FirstMarkingEnds ==
    /\ FirstMarking /\ ~Doomed ~> phase = "sweep"
    /\ FirstMarking /\ Doomed ~> phase = "dead"
=============================================================================
