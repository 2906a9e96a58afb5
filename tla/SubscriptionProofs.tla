------------------------- MODULE SubscriptionProofs -------------------------
(* Theorems of Subscription, for any number of samples and threads and every *)
(* configuration: the drain is scheduled exactly once, callbacks are queued  *)
(* in order, and the reader is not deleted while a loan is out.              *)
(* Theorems of SideChannel, for any readers, messages and length of the table: *)
(* its type invariant, and who misses a payload.                              *)
EXTENDS Subscription, SideChannel, FiniteSetTheorems, SequenceTheorems, TLAPS

USE SamplesAssumption, ModesAssumption, ThreadsAssumption, NoneAssumption

-----------------------------------------------------------------------------
(* Types                                                                     *)

\* Where an executor or user thread can be.
Places == {"idle", "drain", "take", "register", "activate", "offer", "finish",
           "requeue", "call", "user", "hold", "return", "native"}

\* What TypeOK says of the variables one by one.
LEMMA Types ==
    ASSUME TypeOK
    PROVE  /\ mode \in AllModes /\ {mode.callback, mode.batch, mode.loan, mode.filter} \subseteq BOOLEAN
           /\ arrived \in 0..MaxSamples /\ read \in 0..arrived /\ read \in Nat /\ arrived \in Nat
           /\ pending \in BOOLEAN /\ again \in BOOLEAN /\ closed \in BOOLEAN
           /\ destroyed \in BOOLEAN /\ deleted \in BOOLEAN /\ excused \in BOOLEAN
           /\ queue \in Seq(Items) /\ dropping \in Items \cup {None}
           /\ rpc \in [Receivers -> {"idle", "notify", "enqueue"}]
           /\ xpc \in [Threads -> Places]
           /\ hand \in [Threads -> SUBSET Samples] /\ held \in [Threads -> Samples \cup {None}]
           /\ \A t \in Threads : xpc[t] \in {"register", "activate"} => held[t] \in Samples
           /\ got \in [Threads -> Nat] /\ spent \in [Threads -> Nat]
           /\ loan \in [Samples -> {"none", "held", "returned", "leaked"}]
           /\ active \in Nat /\ objects \subseteq Samples
           /\ lock \in Threads \cup {None}
           /\ dpc \in [Destroyers -> {"idle", "close", "wait", "delete", "done"}]
BY DEF TypeOK, Places, AllModes

\* The samples are finitely many.
LEMMA FiniteSamples ==
    ASSUME NEW S \in SUBSET Samples
    PROVE  IsFiniteSet(S) /\ Cardinality(S) \in Nat
<1>1. IsFiniteSet(Samples)
    BY FS_Interval DEF Samples
<1>2. IsFiniteSet(S)
    BY <1>1, FS_Subset
<1> QED BY <1>2, FS_CardinalityType

\* A take gets samples that have arrived, and the first of them is the next.
LEMMA TakeTypes ==
    ASSUME TypeOK, NEW n \in Nat
    PROVE  /\ UpTo(n) \in read..arrived /\ UpTo(n) - read \in Nat /\ UpTo(n) \in Nat
           /\ Taken(n) \subseteq Samples /\ Valid(Taken(n)) \subseteq Samples
           /\ Taken(n) # {} => read + 1 \in Samples
           /\ Valid(Taken(n)) # {} => read + 1 \in Samples
<1>1. UpTo(n) \in read..arrived /\ UpTo(n) - read \in Nat /\ UpTo(n) \in Nat
    BY Types DEF UpTo
<1>2. Taken(n) \subseteq Samples /\ (Taken(n) # {} => read + 1 \in Samples)
    BY <1>1, Types DEF Taken, Samples
<1>3. Valid(Taken(n)) \subseteq Taken(n)
    BY DEF Valid
<1> QED BY <1>1, <1>2, <1>3

\* The items that get into the queue and out of it.
LEMMA ItemTypes ==
    /\ Drain \in Items
    /\ \A S \in SUBSET Samples, l \in Samples \cup {None} : Call(S, l) \in Items
    /\ \A i \in Items : /\ i.kind \in {"drain", "call"} /\ i.samples \in SUBSET Samples
                        /\ i.loan \in Samples \cup {None} /\ i # None
BY DEF Drain, Call, Items

LEMMA QueueTypes ==
    ASSUME TypeOK
    PROVE  /\ \A i \in Items : Append(queue, i) \in Seq(Items)
           /\ queue # <<>> => Head(queue) \in Items /\ Tail(queue) \in Seq(Items)
BY Types, HeadTailProperties, AppendProperties

LEMMA EnqueueTypes ==
    ASSUME TypeOK, EnqueueDrain
    PROVE  queue' \in Seq(Items) /\ dropping' \in Items \cup {None}
<1>1. Drain \in Items /\ Append(queue, Drain) \in Seq(Items)
    BY QueueTypes, ItemTypes
<1>2. /\ queue' = queue \/ queue' = Append(queue, Drain)
      /\ dropping' = dropping \/ dropping' = Drain
    BY DEF EnqueueDrain
<1> QED BY <1>1, <1>2, Types

\* The receivers keep the types.
LEMMA ReceiverTypes ==
    ASSUME TypeOK, NEW r \in Receivers, Arrive(r) \/ ReceiverStep(r)
    PROVE  TypeOK'
<1> USE Types DEF flags, loans, drain, entity, cache
<1>1. CASE Arrive(r)
    BY <1>1 DEF Arrive, TypeOK
<1>2. CASE OnDataAvailable(r)
    BY <1>2 DEF OnDataAvailable, TypeOK
<1>3. CASE ReceiverEnqueues(r)
    BY <1>3, EnqueueTypes DEF ReceiverEnqueues, TypeOK
<1> QED BY <1>1, <1>2, <1>3 DEF ReceiverStep

\* So do destroy() and the node's drops.
LEMMA DestroyTypes ==
    ASSUME TypeOK, NEW d \in Destroyers, Destroy(d) \/ DestroyStep(d)
    PROVE  TypeOK'
<1> USE Types DEF flags, loans, drain, entity, cache
<1>1. CASE Destroy(d)
    BY <1>1 DEF Destroy, TypeOK
<1>2. CASE Close(d)
    BY <1>2 DEF Close, TypeOK
<1>3. CASE LoansAreBack(d)
    BY <1>3 DEF LoansAreBack, TypeOK
<1>4. CASE LoanTimeout(d)
    BY <1>4 DEF LoanTimeout, TypeOK
<1>5. CASE DeleteReader(d)
    BY <1>5 DEF DeleteReader, TypeOK
<1> QED BY <1>1, <1>2, <1>3, <1>4, <1>5 DEF DestroyStep

LEMMA ReturnedTypes ==
    ASSUME TypeOK, NEW l, Returned(l)
    PROVE  /\ loan' \in [Samples -> {"none", "held", "returned", "leaked"}]
           /\ active' \in Nat /\ objects' \subseteq Samples
<1>1. active' \in Nat
    BY Types DEF Returned
<1>2. loan' \in [Samples -> {"none", "held", "returned", "leaked"}] /\ objects' \subseteq Samples
    BY Types DEF Returned
<1> QED BY <1>1, <1>2

LEMMA DropTypes ==
    ASSUME TypeOK, DropOldest \/ DropHook
    PROVE  TypeOK'
<1> USE Types, QueueTypes DEF flags, loans, drain, entity, cache
<1>1. CASE DropOldest
    BY <1>1 DEF DropOldest, TypeOK
<1>2. CASE DropHook
    BY <1>2, ReturnedTypes DEF DropHook, TypeOK
<1> QED BY <1>1, <1>2

\* The threads that use the reader.
LEMMA LoanTypes ==
    ASSUME TypeOK, NEW t \in Threads, LoanStep(t)
    PROVE  TypeOK'
<1> USE Types DEF flags, loans, drain, entity, cache, Places
<1>1. CASE Register(t)
    <2>1. CASE ~destroyed
        <3>1. /\ xpc[t] = "register" /\ xpc' = [xpc EXCEPT ![t] = "activate"] /\ active' = active + 1
              /\ UNCHANGED <<mode, cache, flags, entity, queue, dropping, rpc, got, spent, dpc,
                            excused, loan, objects, held, hand, lock>>
            BY <1>1, <2>1 DEF Register
        <3>2. xpc' \in [Threads -> Places] /\ active' \in Nat
            BY <3>1
        <3>3. \A s \in Threads : xpc'[s] \in {"register", "activate"} => held'[s] # None
            BY <3>1
        <3> QED BY <3>1, <3>2, <3>3 DEF TypeOK
    <2>2. CASE destroyed
        BY <1>1, <2>2, ReturnedTypes DEF Register, TypeOK
    <2> QED BY <2>1, <2>2
<1>2. CASE Activate(t)
    <2>1. held[t] \in Samples
        BY <1>2 DEF Activate
    <2> QED BY <1>2, <2>1 DEF Activate, TypeOK
<1>3. CASE BeginReturn(t)
    BY <1>3 DEF BeginReturn, TypeOK
<1>4. CASE EndReturn(t)
    BY <1>4, ReturnedTypes DEF EndReturn, TypeOK
<1> QED BY <1>1, <1>2, <1>3, <1>4 DEF LoanStep

LEMMA UserTypes ==
    ASSUME TypeOK, NEW u \in Users, UserStep(u)
    PROVE  TypeOK'
<1> USE Types DEF flags, loans, drain, entity, cache, Places
<1>1. u \in Threads
    BY DEF Threads
<1>2. Unread # {} => read + 1 \in Samples /\ read + 1 \in 0..arrived
    BY DEF Unread, Samples
<1>3. CASE PollCopies(u)
    BY <1>2, <1>3 DEF PollCopies, TypeOK
<1>4. CASE PollLoan(u)
    BY <1>1, <1>2, <1>4 DEF PollLoan, TypeOK
<1>5. CASE UserReturns(u)
    BY <1>1, <1>5 DEF UserReturns, TypeOK
<1> QED BY <1>3, <1>4, <1>5 DEF UserStep

LEMMA DrainTypes ==
    ASSUME TypeOK, NEW x \in Executors, DrainStep(x) \/ PopItem(x) \/ BeginCall(x) \/ EndCall(x)
    PROVE  TypeOK'
<1> USE Types DEF flags, loans, drain, entity, cache, Places
<1>0. x \in Threads /\ Turns \in Nat /\ Limit \in Nat
    BY DEF Threads, Turns
<1>1. CASE CheckClosed(x)
    BY <1>0, <1>1 DEF CheckClosed, TypeOK
<1>2. CASE TakeCopies(x)
    <2> DEFINE valid == Valid(Taken(Limit))
    <2>1. valid \in SUBSET Samples /\ Cardinality(valid) \in Nat
        BY <1>0, TakeTypes, FiniteSamples
    <2>2. read' \in 0..arrived' /\ UpTo(Limit) - read \in Nat /\ arrived' = arrived
        BY <1>0, <1>2, TakeTypes DEF TakeCopies
    <2>3. /\ hand' = [hand EXCEPT ![x] = valid] /\ got' = [got EXCEPT ![x] = Cardinality(valid)]
          /\ spent' = [spent EXCEPT ![x] = UpTo(Limit) - read]
          /\ xpc' = [xpc EXCEPT ![x] = IF valid = {} THEN "finish" ELSE "offer"]
          /\ UNCHANGED <<mode, flags, entity, queue, dropping, rpc, held, loans, lock, dpc, excused>>
        BY <1>2 DEF TakeCopies
    <2> HIDE DEF valid
    <2>4. /\ hand' \in [Threads -> SUBSET Samples] /\ got' \in [Threads -> Nat]
          /\ spent' \in [Threads -> Nat] /\ xpc' \in [Threads -> Places]
          /\ \A t \in Threads : xpc'[t] \in {"register", "activate"} => held'[t] # None
        BY <1>0, <2>1, <2>2, <2>3
    <2> QED BY <2>2, <2>3, <2>4 DEF TypeOK
<1>3. CASE TakeLoan(x)
    <2> DEFINE valid == Valid(Taken(Turns))
    <2>1. valid \in SUBSET Samples /\ (valid # {} => read + 1 \in Samples)
        BY <1>0, TakeTypes
    <2>2. read' \in 0..arrived' /\ UpTo(Turns) - read \in Nat /\ arrived' = arrived
        BY <1>0, <1>3, TakeTypes DEF TakeLoan
    <2>3. /\ spent' = [spent EXCEPT ![x] = @ + (UpTo(Turns) - read)]
          /\ UNCHANGED <<mode, flags, entity, queue, dropping, rpc, got, active, objects, dpc, excused>>
        BY <1>3 DEF TakeLoan
    <2>4. spent' \in [Threads -> Nat]
        BY <1>0, <2>2, <2>3
    <2>5. CASE valid # {}
        <3>1. /\ held' = [held EXCEPT ![x] = read + 1] /\ loan' = [loan EXCEPT ![read + 1] = "held"]
              /\ hand' = [hand EXCEPT ![x] = valid] /\ lock' = x
              /\ xpc' = [xpc EXCEPT ![x] = "register"]
            BY <1>3, <2>5 DEF TakeLoan
        <3> HIDE DEF valid
        <3>2. /\ hand' \in [Threads -> SUBSET Samples] /\ xpc' \in [Threads -> Places]
              /\ held' \in [Threads -> Samples \cup {None}] /\ lock' \in Threads \cup {None}
              /\ loan' \in [Samples -> {"none", "held", "returned", "leaked"}]
              /\ \A t \in Threads : xpc'[t] \in {"register", "activate"} => held'[t] # None
            BY <1>0, <2>1, <2>5, <3>1
        <3> QED BY <2>2, <2>3, <2>4, <3>2 DEF TypeOK
    <2>6. CASE valid = {}
        <3>1. /\ \E w \in {"finish", "take"} : xpc' = [xpc EXCEPT ![x] = w]
              /\ UNCHANGED <<held, loan, hand, lock>>
            BY <1>3, <2>6 DEF TakeLoan
        <3> HIDE DEF valid
        <3>2. /\ xpc' \in [Threads -> Places]
              /\ \A t \in Threads : xpc'[t] \in {"register", "activate"} => held'[t] # None
            BY <1>0, <3>1
        <3> QED BY <2>2, <2>3, <2>4, <3>1, <3>2 DEF TypeOK
    <2> QED BY <2>5, <2>6
<1>4. CASE TurnsUsed(x)
    BY <1>0, <1>4 DEF TurnsUsed, TypeOK
<1>5. CASE Offer(x)
    <2>1. \E w \in {"finish", "take", "offer"} : xpc' = [xpc EXCEPT ![x] = w]
        BY <1>5 DEF Offer, AfterOffer
    <2>2. xpc' \in [Threads -> Places]
        BY <1>0, <2>1
    <2>3. /\ held' = [held EXCEPT ![x] = None] /\ hand' = [hand EXCEPT ![x] = @ \ Offered(x)]
          /\ got' = [got EXCEPT ![x] = Counts(x)]
          /\ UNCHANGED <<mode, cache, flags, entity, rpc, spent, lock, dpc, excused>>
        BY <1>5 DEF Offer
    <2>4. Offered(x) \in SUBSET Samples /\ Accepted(x) \in SUBSET Samples
        BY <1>0 DEF Offered, Accepted, First
    <2>5. Counts(x) \in Nat
        <3>1. Cardinality(Offered(x)) \in Nat /\ got[x] \in Nat
            BY <1>0, <2>4, FiniteSamples
        <3> QED BY <3>1 DEF Counts
    <2>6. /\ held' \in [Threads -> Samples \cup {None}] /\ hand' \in [Threads -> SUBSET Samples]
          /\ got' \in [Threads -> Nat]
          /\ \A t \in Threads : xpc'[t] \in {"register", "activate"} => held'[t] # None
        BY <1>0, <2>1, <2>3, <2>5
    <2>7. Call(Accepted(x), held[x]) \in Items
        BY <1>0, <2>4, ItemTypes
    <2>8. queue' \in Seq(Items) /\ dropping' \in Items \cup {None}
        BY <1>5, <2>7, QueueTypes DEF Offer
    <2>9. /\ loan' \in [Samples -> {"none", "held", "returned", "leaked"}]
          /\ active' \in Nat /\ objects' \subseteq Samples
        BY <1>5, ReturnedTypes DEF Offer
    <2> QED BY <2>2, <2>3, <2>6, <2>8, <2>9 DEF TypeOK
<1>6. CASE Finish(x)
    BY <1>0, <1>6 DEF Finish, TypeOK
<1>7. CASE Requeue(x)
    BY <1>0, <1>7, EnqueueTypes DEF Requeue, TypeOK
<1>8. CASE PopItem(x)
    BY <1>0, <1>8, QueueTypes, ItemTypes DEF PopItem, TypeOK
<1>9. CASE BeginCall(x)
    BY <1>0, <1>9 DEF BeginCall, TypeOK
<1>10. CASE EndCall(x)
    BY <1>0, <1>10 DEF EndCall, TypeOK
<1> QED BY <1>1, <1>2, <1>3, <1>4, <1>5, <1>6, <1>7, <1>8, <1>9, <1>10 DEF DrainStep

\* Every variable keeps its type (code: the fields of Subscription and of its
\* _ReaderListener, and the steps of their threads).
THEOREM TypeCorrect == Spec => []TypeOK
<1>1. Init => TypeOK
    <2> SUFFICES ASSUME Init PROVE TypeOK
        OBVIOUS
    <2>1. mode \in AllModes /\ arrived \in 0..MaxSamples /\ read \in 0..arrived
        BY DEF Init
    <2>2. queue \in Seq(Items) /\ dropping \in Items \cup {None} /\ objects \subseteq Samples
        BY EmptySeq DEF Init
    <2>3. /\ rpc \in [Receivers -> {"idle", "notify", "enqueue"}] /\ xpc \in [Threads -> Places]
          /\ hand \in [Threads -> SUBSET Samples] /\ held \in [Threads -> Samples \cup {None}]
          /\ \A t \in Threads : xpc[t] \in {"register", "activate"} => held[t] # None
          /\ got \in [Threads -> Nat] /\ spent \in [Threads -> Nat]
        BY DEF Init, Places
    <2>4. /\ loan \in [Samples -> {"none", "held", "returned", "leaked"}]
          /\ active \in Nat /\ lock \in Threads \cup {None}
          /\ dpc \in [Destroyers -> {"idle", "close", "wait", "delete", "done"}]
        BY DEF Init
    <2>5. {pending, again, closed, destroyed, deleted, excused} \subseteq BOOLEAN
        BY DEF Init
    <2> QED BY <2>1, <2>2, <2>3, <2>4, <2>5 DEF TypeOK, Places
<1>2. TypeOK /\ [Next]_vars => TypeOK'
    <2> SUFFICES ASSUME TypeOK, [Next]_vars PROVE TypeOK'
        OBVIOUS
    <2>1. CASE \E r \in Receivers : Arrive(r) \/ ReceiverStep(r)
        BY <2>1, ReceiverTypes
    <2>2. ASSUME NEW x \in Executors, ExecutorStep(x) PROVE TypeOK'
        BY <2>2, DrainTypes, LoanTypes DEF ExecutorStep, Threads
    <2>3. ASSUME NEW u \in Users, UserStep(u) \/ LoanStep(u) PROVE TypeOK'
        BY <2>3, UserTypes, LoanTypes DEF Threads
    <2>4. CASE \E d \in Destroyers : Destroy(d) \/ DestroyStep(d)
        BY <2>4, DestroyTypes
    <2>5. CASE DropOldest \/ DropHook
        BY <2>5, DropTypes
    <2>6. CASE UNCHANGED vars
        BY <2>6 DEF vars, flags, loans, drain, entity, cache, TypeOK
    <2> QED BY <2>1, <2>2, <2>3, <2>4, <2>5, <2>6 DEF Next
<1> QED BY <1>1, <1>2, PTL DEF Spec

-----------------------------------------------------------------------------
(* One drain                                                                 *)

\* What an item at the end of the queue adds to its drains.
LEMMA DrainsAppend ==
    ASSUME NEW s \in Seq(Items), NEW i \in Items
    PROVE  Drains(Append(s, i)) = Drains(s) \cup (IF i.kind = "drain" THEN {Len(s) + 1} ELSE {})
<1>1. /\ Len(s) \in Nat /\ Len(Append(s, i)) = Len(s) + 1
      /\ \A n \in 1..Len(s) : Append(s, i)[n] = s[n]
      /\ Append(s, i)[Len(s) + 1] = i
    BY AppendProperties, LenProperties
<1>2. ASSUME NEW n PROVE n \in Drains(Append(s, i)) <=>
                          n \in Drains(s) \/ (i.kind = "drain" /\ n = Len(s) + 1)
    BY <1>1 DEF Drains
<1> QED BY <1>2

\* What is left of the one drain when the head of the queue is taken.
LEMMA DrainsTail ==
    ASSUME NEW s \in Seq(Items), s # <<>>, AtMostOne(Drains(s))
    PROVE  /\ AtMostOne(Drains(Tail(s)))
           /\ Head(s).kind = "drain" => Drains(s) # {} /\ Drains(Tail(s)) = {}
           /\ Head(s).kind # "drain" => (Drains(Tail(s)) = {} <=> Drains(s) = {})
<1>1. /\ Len(s) \in Nat \ {0} /\ Len(Tail(s)) = Len(s) - 1 /\ Head(s) = s[1]
      /\ \A n \in 1..Len(s) - 1 : Tail(s)[n] = s[n + 1]
    BY HeadTailProperties, LenProperties, EmptySeq
<1>2. \A n : n \in Drains(Tail(s)) => n \in Nat \ {0} /\ n + 1 \in Drains(s)
    BY <1>1 DEF Drains
<1>3. 1 \in Drains(s) <=> Head(s).kind = "drain"
    BY <1>1 DEF Drains
<1>4. \A n : n \in Drains(s) /\ n # 1 => n - 1 \in Drains(Tail(s))
    BY <1>1 DEF Drains
<1>5. AtMostOne(Drains(Tail(s)))
    <2> SUFFICES ASSUME NEW m \in Drains(Tail(s)), NEW n \in Drains(Tail(s)) PROVE m = n
        BY DEF AtMostOne
    <2>1. m \in Nat /\ n \in Nat /\ m + 1 = n + 1
        BY <1>2 DEF AtMostOne
    <2> QED BY <2>1
<1>6. ASSUME Head(s).kind = "drain" PROVE Drains(s) # {} /\ Drains(Tail(s)) = {}
    <2>1. 1 \in Drains(s)
        BY <1>3, <1>6
    <2>2. ASSUME NEW n \in Drains(Tail(s)) PROVE FALSE
        <3>1. n \in Nat \ {0} /\ n + 1 = 1
            BY <1>2, <2>1 DEF AtMostOne
        <3> QED BY <3>1
    <2> QED BY <2>1, <2>2
<1>7. ASSUME Head(s).kind # "drain" PROVE Drains(Tail(s)) = {} <=> Drains(s) = {}
    BY <1>2, <1>3, <1>4, <1>7
<1> QED BY <1>5, <1>6, <1>7

\* A step of a thread changes its own place only.
LEMMA DrainersStep ==
    ASSUME TypeOK, NEW t \in Threads, NEW w \in Places, xpc' = [xpc EXCEPT ![t] = w]
    PROVE  Drainers' = IF t \in Executors /\ w \in {"drain", "take", "register", "activate",
                                                   "offer", "finish", "requeue"}
                       THEN Drainers \cup {t} ELSE Drainers \ {t}
<1>1. ASSUME NEW x \in Executors
      PROVE  x \in Threads /\ xpc'[x] = IF x = t THEN w ELSE xpc[x]
    BY Types DEF Threads
<1>2. Drainers' = {x \in Executors : Draining(x)'}
    BY DEF Drainers
<1>3. ASSUME NEW x PROVE x \in Drainers' <=>
        x \in Executors /\ (IF x = t THEN w ELSE xpc[x]) \in
            {"drain", "take", "register", "activate", "offer", "finish", "requeue"}
    BY <1>1, <1>2 DEF Draining
<1>4. \A x : x \in Drainers <=>
        x \in Executors /\ xpc[x] \in
            {"drain", "take", "register", "activate", "offer", "finish", "requeue"}
    BY DEF Drainers, Draining
<1> QED BY <1>3, <1>4

\* A step that leaves the drain where it is keeps the invariant.
LEMMA DrainStays ==
    ASSUME OneDrain, Drainers' = Drainers, Askers' = Askers, DropsDrain' <=> DropsDrain,
           AtMostOne(Drains(queue')), Drains(queue') = {} <=> Drains(queue) = {},
           mode' = mode, closed \/ (pending' <=> pending) \/ closed',
           closed => closed', (pending' <=> pending) \/ ~pending'
    PROVE  OneDrain'
BY DEF OneDrain

\* The drain gets into the queue, or to its hook, or ends because the listener
\* is closed.
LEMMA DrainEnqueued ==
    ASSUME TypeOK, OneDrain, EnqueueDrain, UNCHANGED <<mode, closed, pending>>,
           Drains(queue) = {}, ~DropsDrain, Drainers # {} \/ Askers # {},
           Drainers' = {}, Askers' = {}
    PROVE  OneDrain'
<1>1. CASE closed /\ UNCHANGED <<queue, dropping>>
    BY <1>1 DEF OneDrain, DropsDrain, AtMostOne
<1>2. CASE ~closed /\ queue' = Append(queue, Drain) /\ UNCHANGED dropping
    <2>1. queue \in Seq(Items) /\ Drain \in Items /\ Drain.kind = "drain"
        BY Types, ItemTypes DEF Drain
    <2>2. Drains(queue') = {Len(queue) + 1}
        BY <1>2, <2>1, DrainsAppend
    <2> QED BY <1>2, <2>2 DEF OneDrain, DropsDrain, AtMostOne
<1>3. CASE ~closed /\ dropping' = Drain /\ UNCHANGED queue
    <2>1. DropsDrain'
        BY <1>3, ItemTypes DEF DropsDrain, Drain
    <2> QED BY <1>3, <2>1 DEF OneDrain, AtMostOne
<1> QED BY <1>1, <1>2, <1>3 DEF EnqueueDrain

\* The receivers.
LEMMA ReceiverKeepsDrain ==
    ASSUME TypeOK, OneDrain, NEW r \in Receivers, Arrive(r) \/ ReceiverStep(r)
    PROVE  OneDrain'
<1> USE Types
<1>1. ASSUME xpc' = xpc PROVE Drainers' = Drainers
    BY <1>1 DEF Drainers, Draining
<1>2. ASSUME dropping' = dropping PROVE DropsDrain' <=> DropsDrain
    BY <1>2 DEF DropsDrain
<1>3. CASE Arrive(r)
    <2>1. Askers' = Askers
        BY <1>3 DEF Arrive, Askers
    <2> QED BY <1>1, <1>2, <1>3, <2>1, DrainStays DEF Arrive, flags, entity, OneDrain
<1>4. CASE OnDataAvailable(r)
    <2>1. CASE rpc' = [rpc EXCEPT ![r] = "idle"]
        <3>1. Askers' = Askers
            BY <1>4, <2>1 DEF OnDataAvailable, Askers
        <3>2. UNCHANGED <<mode, closed, queue, dropping, xpc>> /\ pending' = pending
            BY <1>4, <2>1 DEF OnDataAvailable, flags, entity
        <3> QED BY <1>1, <1>2, <3>1, <3>2, DrainStays DEF OneDrain
    <2>2. CASE /\ ~closed /\ mode.callback /\ ~pending /\ pending'
               /\ rpc' = [rpc EXCEPT ![r] = "enqueue"]
        <3>1. UNCHANGED <<mode, closed, queue, dropping, xpc>>
            BY <1>4 DEF OnDataAvailable, entity
        <3>2. Drains(queue) = {} /\ Drainers = {} /\ Askers = {} /\ ~DropsDrain
            BY <2>2 DEF OneDrain
        <3>3. Askers' = {r}
            BY <2>2, <3>2 DEF Askers
        <3> QED BY <1>1, <1>2, <2>2, <3>1, <3>2, <3>3 DEF OneDrain, AtMostOne
    <2> QED BY <1>4, <2>1, <2>2 DEF OnDataAvailable
<1>5. CASE ReceiverEnqueues(r)
    <2>1. UNCHANGED <<mode, closed, pending, xpc>> /\ EnqueueDrain
        BY <1>5 DEF ReceiverEnqueues, flags, entity
    <2>2. /\ r \in Askers /\ Askers = {r} /\ Drains(queue) = {} /\ Drainers = {} /\ ~DropsDrain
        BY <1>5 DEF ReceiverEnqueues, OneDrain, AtMostOne, Askers
    <2>3. Askers' = {}
        BY <1>5, <2>2 DEF ReceiverEnqueues, Askers
    <2> QED BY <1>1, <2>1, <2>2, <2>3, DrainEnqueued
<1> QED BY <1>3, <1>4, <1>5 DEF ReceiverStep

\* destroy() and the node's drops.
LEMMA DestroyKeepsDrain ==
    ASSUME OneDrain, NEW d \in Destroyers, Destroy(d) \/ DestroyStep(d)
    PROVE  OneDrain'
<1>1. /\ UNCHANGED <<mode, queue, dropping, rpc, xpc>>
      /\ \/ closed' /\ ~pending'
         \/ UNCHANGED <<closed, pending>>
    BY DEF Destroy, DestroyStep, Close, LoansAreBack, LoanTimeout, DeleteReader, flags, entity
<1>2. Drainers' = Drainers /\ Askers' = Askers /\ (DropsDrain' <=> DropsDrain)
    BY <1>1 DEF Drainers, Draining, Askers, DropsDrain
<1> QED BY <1>1, <1>2 DEF OneDrain

LEMMA DropKeepsDrain ==
    ASSUME TypeOK, OneDrain, DropOldest \/ DropHook
    PROVE  OneDrain'
<1> USE Types
<1>1. /\ Drainers' = Drainers /\ Askers' = Askers /\ UNCHANGED <<mode, closed>>
    BY DEF DropOldest, DropHook, Drainers, Draining, Askers, entity
<1>2. CASE DropOldest
    <2>1. /\ queue # <<>> /\ dropping = None /\ dropping' = Head(queue) /\ queue' = Tail(queue)
          /\ pending' = pending /\ Head(queue) \in Items /\ Head(queue) # None
        BY <1>2, QueueTypes, ItemTypes DEF DropOldest, flags
    <2>2. ~DropsDrain /\ (DropsDrain' <=> Head(queue).kind = "drain")
        BY <2>1 DEF DropsDrain
    <2>3. /\ AtMostOne(Drains(queue'))
          /\ Head(queue).kind = "drain" => Drains(queue) # {} /\ Drains(queue') = {}
          /\ Head(queue).kind # "drain" => (Drains(queue') = {} <=> Drains(queue) = {})
        BY <2>1, DrainsTail DEF OneDrain
    <2> QED BY <1>1, <2>1, <2>2, <2>3 DEF OneDrain
<1>3. CASE DropHook
    <2>1. dropping \in Items /\ dropping # None /\ dropping' = None /\ queue' = queue
        BY <1>3 DEF DropHook
    <2>2. ~DropsDrain' /\ (DropsDrain <=> dropping.kind = "drain")
        BY <2>1 DEF DropsDrain
    <2>3. CASE dropping.kind = "drain"
        <3>1. ~pending'
            BY <1>3, <2>3 DEF DropHook
        <3> QED BY <1>1, <2>1, <2>2, <2>3, <3>1 DEF OneDrain
    <2>4. CASE dropping.kind # "drain"
        <3>1. pending' = pending
            BY <1>3, <2>4 DEF DropHook, flags
        <3> QED BY <1>1, <2>1, <2>2, <2>4, <3>1 DEF OneDrain
    <2> QED BY <2>3, <2>4
<1> QED BY <1>2, <1>3

\* A thread that takes no drain up and ends none.
LEMMA ThreadKeepsDrain ==
    ASSUME TypeOK, OneDrain, NEW t \in Threads, NEW w \in Places, xpc' = [xpc EXCEPT ![t] = w],
           t \in Drainers <=> t \in Executors /\ w \in {"drain", "take", "register", "activate",
                                                        "offer", "finish", "requeue"},
           UNCHANGED <<mode, closed, pending, queue, dropping, rpc>>
    PROVE  OneDrain'
<1> DEFINE on == t \in Executors /\ w \in {"drain", "take", "register", "activate", "offer",
                                            "finish", "requeue"}
<1>0. Drainers' = IF on THEN Drainers \cup {t} ELSE Drainers \ {t}
    BY DrainersStep
<1> HIDE DEF on
<1>1. Drainers' = Drainers
    <2>1. CASE on
        <3>1. t \in Drainers
            BY <2>1 DEF on
        <3> QED BY <1>0, <2>1, <3>1
    <2>2. CASE ~on
        <3>1. t \notin Drainers
            BY <2>2 DEF on
        <3> QED BY <1>0, <2>2, <3>1
    <2> QED BY <2>1, <2>2
<1>2. Askers' = Askers /\ (DropsDrain' <=> DropsDrain)
    BY DEF Askers, DropsDrain
<1> QED BY <1>1, <1>2, DrainStays DEF OneDrain

LEMMA LoanKeepsDrain ==
    ASSUME TypeOK, OneDrain, NEW t \in Threads, LoanStep(t)
    PROVE  OneDrain'
<1> USE Types
<1>1. UNCHANGED <<mode, closed, pending, queue, dropping, rpc>>
    BY DEF LoanStep, Register, Activate, BeginReturn, EndReturn, flags, entity
<1>2. t \in Drainers <=> t \in Executors /\ xpc[t] \in {"drain", "take", "register", "activate",
                                                        "offer", "finish", "requeue"}
    BY DEF Drainers, Draining
<1>3. CASE Register(t)
    BY <1>1, <1>2, <1>3, ThreadKeepsDrain DEF Register, Places, Threads
<1>4. CASE Activate(t)
    BY <1>1, <1>2, <1>4, ThreadKeepsDrain DEF Activate, Places, Threads
<1>5. CASE BeginReturn(t)
    BY <1>1, <1>2, <1>5, ThreadKeepsDrain DEF BeginReturn, Places
<1>6. CASE EndReturn(t)
    BY <1>1, <1>2, <1>6, ThreadKeepsDrain DEF EndReturn, Places
<1> QED BY <1>3, <1>4, <1>5, <1>6 DEF LoanStep

LEMMA UserKeepsDrain ==
    ASSUME TypeOK, OneDrain, NEW u \in Users, UserStep(u)
    PROVE  OneDrain'
<1> USE Types
<1>1. UNCHANGED <<mode, closed, pending, queue, dropping, rpc>>
    BY DEF UserStep, PollCopies, PollLoan, UserReturns, flags, entity
<1>2. u \in Threads /\ u \notin Executors /\ u \notin Drainers
    BY DEF Drainers, Threads
<1>3. xpc' = xpc \/ \E w \in Places : xpc' = [xpc EXCEPT ![u] = w]
    BY DEF UserStep, PollCopies, PollLoan, UserReturns, Places
<1>4. CASE xpc' = xpc
    <2>1. Drainers' = Drainers /\ Askers' = Askers /\ (DropsDrain' <=> DropsDrain)
        BY <1>1, <1>4 DEF Drainers, Draining, Askers, DropsDrain
    <2> QED BY <1>1, <2>1, DrainStays DEF OneDrain
<1> QED BY <1>1, <1>2, <1>3, <1>4, ThreadKeepsDrain

\* A thread that drains goes on, asks for another drain, or clears the flag.
LEMMA ExecutorKeepsDrain ==
    ASSUME TypeOK, OneDrain, NEW x \in Executors, ExecutorStep(x)
    PROVE  OneDrain'
<1> USE Types
<1>1. x \in Threads
    BY DEF Threads
<1>2. x \in Drainers <=> xpc[x] \in {"drain", "take", "register", "activate", "offer", "finish",
                                     "requeue"}
    BY DEF Drainers, Draining
<1>3. ASSUME rpc' = rpc PROVE Askers' = Askers
    BY <1>3 DEF Askers
<1>4. CASE CheckClosed(x)
    <2>1. xpc[x] = "drain" /\ UNCHANGED <<mode, closed, pending, queue, dropping, rpc>>
        BY <1>4 DEF CheckClosed, flags, entity
    <2>2. CASE ~closed
        BY <1>1, <1>2, <1>4, <2>1, <2>2, ThreadKeepsDrain DEF CheckClosed, Places
    <2>3. CASE closed
        <3>1. xpc' = [xpc EXCEPT ![x] = "idle"]
            BY <1>4, <2>3 DEF CheckClosed
        <3>2. Drainers' = Drainers \ {x}
            BY <1>1, <3>1, DrainersStep DEF Places
        <3> QED BY <1>3, <2>1, <2>3, <3>2 DEF OneDrain, AtMostOne, DropsDrain
    <2> QED BY <2>2, <2>3
<1>5. CASE TakeCopies(x) \/ TakeLoan(x) \/ TurnsUsed(x)
    <2>1. xpc[x] = "take" /\ UNCHANGED <<mode, closed, pending, queue, dropping, rpc>>
        BY <1>5 DEF TakeCopies, TakeLoan, TurnsUsed, flags, entity
    <2>2. \E w \in {"finish", "offer", "register", "take"} : xpc' = [xpc EXCEPT ![x] = w]
        BY <1>5 DEF TakeCopies, TakeLoan, TurnsUsed
    <2> QED BY <1>1, <1>2, <2>1, <2>2, ThreadKeepsDrain DEF Places
<1>6. CASE Offer(x)
    <2>1. xpc[x] = "offer" /\ UNCHANGED <<mode, closed, pending, rpc>>
        BY <1>6 DEF Offer, flags, entity
    <2>2. PICK w \in {"finish", "take", "offer"} : xpc' = [xpc EXCEPT ![x] = w]
        BY <1>6 DEF Offer, AfterOffer
    <2>3. x \in Drainers /\ Drainers' = Drainers
        <3>1. x \in Drainers
            BY <1>2, <2>1
        <3>2. Drainers' = Drainers \cup {x}
            BY <1>1, <2>2, DrainersStep DEF Places
        <3> QED BY <3>1, <3>2
    <2>4. Drains(queue) = {} /\ ~DropsDrain /\ Askers = {} /\ Askers' = {}
        BY <1>3, <2>1, <2>3 DEF OneDrain
    <2> DEFINE item == Call(Accepted(x), held[x])
    <2>5. item \in Items /\ item.kind = "call" /\ item # None
        <3>1. Accepted(x) \in SUBSET Samples /\ held[x] \in Samples \cup {None}
            BY <1>1 DEF Accepted, Offered, First
        <3> QED BY <3>1, ItemTypes DEF Call
    <2>6. \/ queue' = Append(queue, item) /\ UNCHANGED dropping
          \/ dropping' = item /\ UNCHANGED queue
          \/ UNCHANGED <<queue, dropping>>
        BY <1>6 DEF Offer
    <2> HIDE DEF item
    <2>7. Drains(queue') = {} /\ ~DropsDrain'
        <3>1. Drains(Append(queue, item)) = Drains(queue)
            BY <2>5, DrainsAppend
        <3>2. Drains(queue') = {}
            BY <2>4, <2>6, <3>1
        <3> QED BY <2>4, <2>5, <2>6, <3>2 DEF DropsDrain
    <2> QED BY <2>1, <2>3, <2>4, <2>7, DrainStays DEF OneDrain
<1>7. CASE Finish(x)
    <2>1. xpc[x] = "finish" /\ UNCHANGED <<mode, closed, queue, dropping, rpc>>
        BY <1>7 DEF Finish, entity
    <2>2. CASE xpc' = [xpc EXCEPT ![x] = "requeue"] /\ pending' = pending
        BY <1>1, <1>2, <2>1, <2>2, ThreadKeepsDrain DEF Places
    <2>3. CASE xpc' = [xpc EXCEPT ![x] = "idle"] /\ ~pending'
        <3>1. Drainers' = Drainers \ {x}
            BY <1>1, <2>3, DrainersStep DEF Places
        <3>2. /\ x \in Drainers /\ Drainers = {x}
              /\ Drains(queue) = {} /\ Askers = {} /\ ~DropsDrain
            BY <1>2, <2>1 DEF OneDrain, AtMostOne
        <3> QED BY <1>3, <2>1, <2>3, <3>1, <3>2 DEF OneDrain, AtMostOne, DropsDrain
    <2> QED BY <1>7, <2>2, <2>3 DEF Finish
<1>8. CASE Requeue(x)
    <2>1. xpc[x] = "requeue" /\ EnqueueDrain /\ UNCHANGED <<mode, closed, pending, rpc>>
        BY <1>8 DEF Requeue, flags, entity
    <2>2. Drainers' = Drainers \ {x}
        BY <1>1, <1>8, DrainersStep DEF Places, Requeue
    <2>3. /\ x \in Drainers /\ Drainers = {x} /\ Drains(queue) = {} /\ ~DropsDrain
          /\ Askers = {} /\ Askers' = {}
        BY <1>2, <1>3, <2>1 DEF OneDrain, AtMostOne
    <2> QED BY <2>1, <2>2, <2>3, DrainEnqueued
<1>9. CASE PopItem(x)
    <2>1. /\ queue # <<>> /\ queue' = Tail(queue) /\ xpc[x] = "idle"
          /\ UNCHANGED <<mode, closed, pending, dropping, rpc>>
        BY <1>9 DEF PopItem, flags, entity
    <2>2. /\ AtMostOne(Drains(queue'))
          /\ Head(queue).kind = "drain" => Drains(queue) # {} /\ Drains(queue') = {}
          /\ Head(queue).kind # "drain" => (Drains(queue') = {} <=> Drains(queue) = {})
        BY <2>1, DrainsTail DEF OneDrain
    <2>3. DropsDrain' <=> DropsDrain
        BY <2>1 DEF DropsDrain
    <2>4. CASE Head(queue).kind = "drain"
        <3>1. xpc' = [xpc EXCEPT ![x] = "drain"]
            BY <1>9, <2>4 DEF PopItem
        <3>2. Drainers' = Drainers \cup {x}
            BY <1>1, <3>1, DrainersStep DEF Places
        <3> QED BY <1>3, <2>1, <2>2, <2>3, <2>4, <3>2 DEF OneDrain, AtMostOne
    <2>5. CASE Head(queue).kind # "drain"
        <3>1. xpc' = [xpc EXCEPT ![x] = "call"]
            BY <1>9, <2>5 DEF PopItem
        <3>2. Drainers' = Drainers
            <4>1. x \notin Drainers
                BY <1>2, <2>1
            <4>2. Drainers' = Drainers \ {x}
                BY <1>1, <3>1, DrainersStep DEF Places
            <4> QED BY <4>1, <4>2
        <3> QED BY <1>3, <2>1, <2>2, <2>3, <2>5, <3>2, DrainStays
    <2> QED BY <2>4, <2>5
<1>10. CASE BeginCall(x) \/ EndCall(x)
    <2>1. /\ xpc[x] \in {"call", "user"}
          /\ UNCHANGED <<mode, closed, pending, queue, dropping, rpc>>
          /\ \E w \in {"return", "user"} : xpc' = [xpc EXCEPT ![x] = w]
        BY <1>10 DEF BeginCall, EndCall, flags, entity
    <2> QED BY <1>1, <1>2, <2>1, ThreadKeepsDrain DEF Places
<1> QED BY <1>1, <1>4, <1>5, <1>6, <1>7, <1>8, <1>9, <1>10, LoanKeepsDrain
        DEF ExecutorStep, DrainStep

\* At any time a drain is at one place at most; while the listener is open there
\* is one exactly when its pending flag is set (code: on_data_available,
\* _enqueue_drain with its drop hook, the finally block of
\* _drain_reader_callbacks, close).
THEOREM OneDrainHolds == Spec => []OneDrain
<1>1. Init => OneDrain
    <2> SUFFICES ASSUME Init PROVE OneDrain
        OBVIOUS
    <2>1. Drains(queue) = {} /\ ~DropsDrain
        BY EmptySeq DEF Init, Drains, DropsDrain
    <2>2. Drainers = {} /\ Askers = {}
        BY DEF Init, Drainers, Draining, Askers, Threads
    <2> QED BY <2>1, <2>2 DEF Init, OneDrain, AtMostOne
<1>2. TypeOK /\ OneDrain /\ [Next]_vars => OneDrain'
    <2> SUFFICES ASSUME TypeOK, OneDrain, [Next]_vars PROVE OneDrain'
        OBVIOUS
    <2>1. CASE \E r \in Receivers : Arrive(r) \/ ReceiverStep(r)
        BY <2>1, ReceiverKeepsDrain
    <2>2. CASE \E x \in Executors : ExecutorStep(x)
        BY <2>2, ExecutorKeepsDrain
    <2>3. ASSUME NEW u \in Users, UserStep(u) \/ LoanStep(u) PROVE OneDrain'
        BY <2>3, UserKeepsDrain, LoanKeepsDrain DEF Threads
    <2>4. CASE \E d \in Destroyers : Destroy(d) \/ DestroyStep(d)
        BY <2>4, DestroyKeepsDrain
    <2>5. CASE DropOldest \/ DropHook
        BY <2>5, DropKeepsDrain
    <2>6. CASE UNCHANGED vars
        <3>1. UNCHANGED <<mode, closed, pending, queue, dropping, rpc, xpc>>
            BY <2>6 DEF vars, flags, entity
        <3>2. Drainers' = Drainers /\ Askers' = Askers /\ (DropsDrain' <=> DropsDrain)
            BY <3>1 DEF Drainers, Draining, Askers, DropsDrain
        <3> QED BY <3>1, <3>2, DrainStays DEF OneDrain
    <2> QED BY <2>1, <2>2, <2>3, <2>4, <2>5, <2>6 DEF Next
<1> QED BY <1>1, <1>2, TypeCorrect, PTL DEF Spec

-----------------------------------------------------------------------------
(* The drain comes                                                           *)

\* A step that changes nothing of the prompts, and after which a drain behind
\* its last take was there before, or has used its turns, has emptied the cache
\* or has met a sample that does not count.
LEMMA DrainUndisturbed ==
    ASSUME DrainInv, UNCHANGED <<mode, flags, closed, excused, rpc>>,
           Unread = {} => Unread' = {},
           \A y \in Executors :
               LastTake(y)' => \/ Unread' = {} \/ spent'[y] >= Limit
                               \/ xpc'[y] = "finish" /\ spent'[y] > got'[y]
                               \/ /\ LastTake(y) /\ spent'[y] = spent[y]
                                  /\ xpc[y] = "finish" => xpc'[y] = "finish" /\ got'[y] = got[y]
    PROVE  DrainInv'
<1>1. Prompted' <=> Prompted
    BY DEF Prompted, flags
<1>2. ASSUME NEW y \in Executors, LastTake(y)'
      PROVE  \/ closed' \/ Unread' = {} \/ Prompted' \/ spent'[y] >= Limit
             \/ xpc'[y] = "finish" /\ spent'[y] > got'[y]
    BY <1>1, <1>2 DEF DrainInv
<1>3. ~closed' /\ Unread' # {} /\ mode'.callback /\ ~excused'
        => pending' \/ \E r \in Receivers : rpc'[r] = "notify"
    BY DEF DrainInv, flags
<1> QED BY <1>2, <1>3 DEF DrainInv

\* A step of the thread t that goes to w.
LEMMA DrainGoesOn ==
    ASSUME TypeOK, DrainInv, NEW t \in Threads, NEW w \in Places, xpc' = [xpc EXCEPT ![t] = w],
           UNCHANGED <<mode, flags, closed, excused, rpc>>,
           Unread = {} => Unread' = {},
           \A y \in Threads \ {t} : got'[y] = got[y] /\ spent'[y] = spent[y],
           t \notin Executors
             \/ (w # "finish" /\ (w \in {"register", "activate", "offer"} => mode.loan /\ ~mode.batch))
             \/ Unread' = {} \/ spent'[t] >= Limit
             \/ (w = "finish" /\ spent'[t] > got'[t])
             \/ (LastTake(t) /\ xpc[t] # "finish" /\ spent'[t] = spent[t])
    PROVE  DrainInv'
<1>1. ASSUME NEW y \in Executors, LastTake(y)'
      PROVE  \/ Unread' = {} \/ spent'[y] >= Limit
             \/ xpc'[y] = "finish" /\ spent'[y] > got'[y]
             \/ /\ LastTake(y) /\ spent'[y] = spent[y]
                /\ xpc[y] = "finish" => xpc'[y] = "finish" /\ got'[y] = got[y]
    <2>1. y \in Threads /\ xpc'[y] = IF y = t THEN w ELSE xpc[y]
        BY Types DEF Threads
    <2>2. CASE y = t
        BY <1>1, <2>1, <2>2 DEF LastTake
    <2>3. CASE y # t
        BY <1>1, <2>1, <2>3 DEF LastTake
    <2> QED BY <2>2, <2>3
<1> QED BY <1>1, DrainUndisturbed

LEMMA ReceiverPrompts ==
    ASSUME TypeOK, OneDrain, DrainInv, NEW r \in Receivers, Arrive(r) \/ ReceiverStep(r)
    PROVE  DrainInv'
<1> USE Types
<1>1. \A y \in Executors : LastTake(y) /\ ~closed => pending /\ mode.callback
    <2> SUFFICES ASSUME NEW y \in Executors, LastTake(y), ~closed PROVE pending /\ mode.callback
        OBVIOUS
    <2>1. y \in Drainers
        BY DEF Drainers, Draining, LastTake
    <2> QED BY <2>1 DEF OneDrain
<1>2. CASE Arrive(r)
    <2>1. rpc'[r] = "notify"
        BY <1>2 DEF Arrive
    <2> QED BY <2>1 DEF DrainInv, Prompted
<1>3. CASE OnDataAvailable(r)
    <2>1. /\ UNCHANGED <<mode, closed, xpc, spent, got>> /\ Unread' = Unread
          /\ \A y \in Executors : LastTake(y)' <=> LastTake(y)
        BY <1>3 DEF OnDataAvailable, entity, drain, cache, Unread, LastTake
    <2>2. CASE closed
        BY <2>1, <2>2 DEF DrainInv
    <2>3. CASE ~closed /\ ~mode.callback
        BY <1>1, <2>1, <2>3 DEF DrainInv
    <2>4. CASE ~closed /\ mode.callback /\ pending
        <3>1. again' /\ pending'
            BY <1>3, <2>4 DEF OnDataAvailable
        <3> QED BY <2>1, <3>1 DEF DrainInv, Prompted
    <2>5. CASE ~closed /\ mode.callback /\ ~pending
        <3>1. pending'
            BY <1>3, <2>5 DEF OnDataAvailable
        <3> QED BY <1>1, <2>1, <2>5, <3>1 DEF DrainInv
    <2> QED BY <2>2, <2>3, <2>4, <2>5
<1>4. CASE ReceiverEnqueues(r)
    <2>1. /\ UNCHANGED <<mode, flags, closed, excused, xpc, spent, got>> /\ Unread' = Unread
          /\ \A y \in Executors : LastTake(y)' <=> LastTake(y)
        BY <1>4 DEF ReceiverEnqueues, entity, drain, cache, Unread, LastTake
    <2>2. \A q \in Receivers : rpc[q] = "notify" => rpc'[q] = "notify"
        BY <1>4 DEF ReceiverEnqueues
    <2>3. Prompted => Prompted'
        BY <2>1, <2>2 DEF Prompted, flags
    <2> QED BY <2>1, <2>2, <2>3 DEF DrainInv, flags
<1> QED BY <1>2, <1>3, <1>4 DEF ReceiverStep

LEMMA DestroyPrompts ==
    ASSUME TypeOK, DrainInv, NEW d \in Destroyers, Destroy(d) \/ DestroyStep(d)
    PROVE  DrainInv'
<1>1. CASE Close(d)
    BY <1>1 DEF Close, DrainInv
<1>2. CASE Destroy(d) \/ LoansAreBack(d) \/ LoanTimeout(d) \/ DeleteReader(d)
    <2>1. UNCHANGED <<mode, flags, closed, excused, rpc, xpc, spent, got>>
        BY <1>2 DEF Destroy, LoansAreBack, LoanTimeout, DeleteReader, drain, entity, flags
    <2>2. Unread' = Unread \/ Unread' = {}
        BY <1>2, Types DEF Destroy, LoansAreBack, LoanTimeout, DeleteReader, cache, Unread
    <2>3. \A y \in Executors : LastTake(y)' <=> LastTake(y)
        BY <2>1 DEF LastTake
    <2> QED BY <2>1, <2>2, <2>3, DrainUndisturbed
<1> QED BY <1>1, <1>2 DEF DestroyStep

LEMMA DropPrompts ==
    ASSUME TypeOK, OneDrain, DrainInv, DropOldest \/ DropHook
    PROVE  DrainInv'
<1>1. /\ UNCHANGED <<mode, closed, rpc, xpc, spent, got>> /\ Unread' = Unread
      /\ \A y \in Executors : LastTake(y)' <=> LastTake(y)
    BY DEF DropOldest, DropHook, drain, entity, cache, Unread, LastTake
<1>2. CASE UNCHANGED <<flags, excused>>
    BY <1>1, <1>2, DrainUndisturbed
<1>3. CASE DropHook /\ dropping.kind = "drain"
    <2>1. DropsDrain /\ Drainers = {} /\ excused'
        BY <1>3 DEF DropHook, DropsDrain, OneDrain
    <2>2. \A y \in Executors : ~LastTake(y)
        BY <2>1 DEF Drainers, Draining, LastTake
    <2> QED BY <1>1, <2>1, <2>2 DEF DrainInv
<1> QED BY <1>2, <1>3 DEF DropOldest, DropHook

LEMMA LoanPrompts ==
    ASSUME TypeOK, CountInv, DrainInv, NEW t \in Threads, LoanStep(t)
    PROVE  DrainInv'
<1> USE Types
<1>1. UNCHANGED <<mode, flags, closed, excused, rpc, spent, got>> /\ Unread' = Unread
    BY DEF LoanStep, Register, Activate, BeginReturn, EndReturn, drain, entity, cache, Unread
<1>2. CASE Register(t)
    <2>1. xpc[t] = "register" /\ t \in Executors => mode.loan /\ got[t] < spent[t]
        BY DEF CountInv
    <2>2. PICK w \in {"activate", "finish", "idle"} : xpc' = [xpc EXCEPT ![t] = w]
        BY <1>2 DEF Register
    <2>3. xpc[t] = "register"
        BY <1>2 DEF Register
    <2> QED BY <1>1, <2>1, <2>2, <2>3, DrainGoesOn DEF Places, LastTake
<1>3. CASE Activate(t)
    <2>1. xpc[t] = "activate" /\ xpc' = [xpc EXCEPT ![t] = IF t \in Executors THEN "offer" ELSE "hold"]
        BY <1>3 DEF Activate
    <2> QED BY <1>1, <2>1, DrainGoesOn DEF Places, LastTake
<1>4. CASE BeginReturn(t) \/ EndReturn(t)
    <2>1. PICK w \in {"native", "idle"} : xpc' = [xpc EXCEPT ![t] = w]
        BY <1>4 DEF BeginReturn, EndReturn
    <2> QED BY <1>1, <2>1, DrainGoesOn DEF Places
<1> QED BY <1>2, <1>3, <1>4 DEF LoanStep

\* What a step of the thread t does to LastTake.
LEMMA LastTakeStep ==
    ASSUME TypeOK, NEW t \in Threads, NEW w \in Places, xpc' = [xpc EXCEPT ![t] = w],
           mode' = mode, NEW y \in Executors
    PROVE  LastTake(y)' <=>
             IF y = t THEN w = "finish" \/ (/\ w \in {"register", "activate", "offer"}
                                            /\ mode.batch \/ ~mode.loan)
             ELSE LastTake(y)
<1>1. xpc'[y] = IF y = t THEN w ELSE xpc[y]
    BY Types DEF Threads
<1> QED BY <1>1 DEF LastTake

\* A take leaves nothing behind, or gets all it asked for.
LEMMA TakeEmpties ==
    ASSUME TypeOK, NEW n \in Nat, read' = UpTo(n), arrived' = arrived
    PROVE  /\ Unread = {} => Unread' = {}
           /\ Unread' = {} \/ UpTo(n) - read = n
<1>1. UpTo(n) \in read..arrived /\ (UpTo(n) = arrived \/ UpTo(n) - read = n)
    BY Types DEF UpTo
<1>2. Unread = read + 1..arrived /\ Unread' = UpTo(n) + 1..arrived
    BY DEF Unread
<1> QED BY <1>1, <1>2, Types

\* At most one sample comes first.
LEMMA OneFirst ==
    ASSUME NEW S \in SUBSET Samples
    PROVE  First(S) \subseteq S /\ Cardinality(First(S)) <= 1
<1>1. First(S) \subseteq S /\ \A r, s \in First(S) : r = s
    BY DEF First, Samples
<1>2. CASE First(S) = {}
    BY <1>1, <1>2, FS_EmptySet
<1>3. ASSUME NEW s \in First(S) PROVE Cardinality(First(S)) <= 1
    <2>1. First(S) = {s}
        BY <1>1
    <2> QED BY <2>1, FS_Singleton
<1> QED BY <1>1, <1>2, <1>3

LEMMA ExecutorPrompts ==
    ASSUME TypeOK, OneDrain, CountInv, DrainInv, NEW x \in Executors, ExecutorStep(x)
    PROVE  DrainInv'
<1> USE Types
<1>1. x \in Threads /\ Limit \in Nat /\ Turns \in Nat
    BY DEF Threads, Turns
<1>2. CASE CheckClosed(x) \/ TurnsUsed(x) \/ BeginCall(x) \/ EndCall(x) \/ PopItem(x)
    <2>1. /\ UNCHANGED <<mode, flags, closed, excused, rpc>> /\ Unread' = Unread
          /\ \A y \in Threads \ {x} : got'[y] = got[y] /\ spent'[y] = spent[y]
        BY <1>2 DEF CheckClosed, TurnsUsed, BeginCall, EndCall, PopItem, entity, drain, cache, Unread
    <2>2. \E w \in {"idle", "take", "finish", "return", "user", "drain", "call"} :
            /\ xpc' = [xpc EXCEPT ![x] = w]
            /\ w = "finish" => spent[x] >= Limit /\ spent' = spent
        BY <1>2 DEF CheckClosed, TurnsUsed, BeginCall, EndCall, PopItem, drain
    <2> QED BY <1>1, <2>1, <2>2, DrainGoesOn DEF Places
<1>3. CASE TakeCopies(x)
    <2>1. /\ UNCHANGED <<mode, flags, closed, excused, rpc>> /\ ~mode.loan
          /\ \A y \in Threads \ {x} : got'[y] = got[y] /\ spent'[y] = spent[y]
          /\ spent'[x] = UpTo(Limit) - read
          /\ read' = UpTo(Limit) /\ arrived' = arrived
        BY <1>1, <1>3 DEF TakeCopies, entity
    <2>2. PICK w \in {"finish", "offer"} : xpc' = [xpc EXCEPT ![x] = w]
        BY <1>3 DEF TakeCopies
    <2>3. (Unread = {} => Unread' = {}) /\ (Unread' = {} \/ spent'[x] >= Limit)
        <3>1. (Unread = {} => Unread' = {}) /\ (Unread' = {} \/ UpTo(Limit) - read = Limit)
            BY <1>1, <2>1, TakeEmpties
        <3> QED BY <1>1, <2>1, <3>1
    <2> QED BY <1>1, <2>1, <2>2, <2>3, DrainGoesOn DEF Places
<1>4. CASE TakeLoan(x)
    <2>1. /\ UNCHANGED <<mode, flags, closed, excused, rpc, got>>
          /\ \A y \in Threads \ {x} : got'[y] = got[y] /\ spent'[y] = spent[y]
          /\ spent'[x] = spent[x] + (UpTo(Turns) - read)
          /\ read' = UpTo(Turns) /\ arrived' = arrived
        BY <1>1, <1>4 DEF TakeLoan, entity
    <2>2. (Unread = {} => Unread' = {}) /\ (Unread' = {} \/ UpTo(Turns) - read = Turns)
        BY <1>1, <2>1, TakeEmpties
    <2>3. mode.batch => Unread' = {} \/ spent'[x] >= Limit
        <3>1. mode.batch => Turns = Limit
            BY DEF Turns
        <3> QED BY <1>1, <2>1, <2>2, <3>1
    <2>4. PICK w \in {"register", "finish", "take"} :
            /\ xpc' = [xpc EXCEPT ![x] = w]
            /\ w = "finish" => Unread = {} \/ mode.batch
            /\ mode.loan
        BY <1>4 DEF TakeLoan
    <2> QED BY <1>1, <2>1, <2>2, <2>3, <2>4, DrainGoesOn DEF Places
<1>5. CASE Offer(x)
    <2>1. /\ UNCHANGED <<mode, flags, closed, excused, rpc, spent>> /\ Unread' = Unread
          /\ \A y \in Threads \ {x} : got'[y] = got[y]
          /\ xpc[x] = "offer"
        BY <1>5 DEF Offer, entity, cache, Unread
    <2>2. PICK w \in {"finish", "take", "offer"} :
            /\ xpc' = [xpc EXCEPT ![x] = w]
            /\ w # "take" => mode.batch \/ ~mode.loan
        BY <1>5 DEF Offer, AfterOffer
    <2> QED BY <1>1, <2>1, <2>2, DrainGoesOn DEF Places, LastTake
<1>6. CASE Finish(x)
    <2>1. /\ UNCHANGED <<mode, closed, rpc, spent, got>> /\ Unread' = Unread
          /\ xpc[x] = "finish" /\ LastTake(x)
        BY <1>6 DEF Finish, drain, entity, cache, Unread, LastTake
    <2>2. \A y \in Executors : ~LastTake(y)'
        <3>1. PICK w \in {"idle", "requeue"} : xpc' = [xpc EXCEPT ![x] = w]
            BY <1>6 DEF Finish
        <3>2. Drainers' = Drainers \ {x} \/ w = "requeue"
            BY <1>1, <3>1, DrainersStep DEF Places
        <3>3. ASSUME NEW y \in Executors, LastTake(y), y # x PROVE FALSE
            <4>1. x \in Drainers /\ y \in Drainers
                BY <2>1, <3>3 DEF Drainers, Draining, LastTake
            <4> QED BY <3>3, <4>1 DEF OneDrain, AtMostOne
        <3>4. ASSUME NEW y \in Executors PROVE LastTake(y)' => y # x /\ LastTake(y)
            BY <1>1, <2>1, <3>1, LastTakeStep DEF Places
        <3> QED BY <3>3, <3>4
    <2>3. ~closed' /\ Unread' # {} /\ mode'.callback /\ ~excused'
            => pending' \/ \E r \in Receivers : rpc'[r] = "notify"
        <3>1. CASE closed
            BY <2>1, <3>1
        <3>2. CASE ~closed /\ (HitLimit(x) \/ again)
            <4>1. x \in Drainers
                BY <2>1 DEF Drainers, Draining
            <4>2. pending' = pending /\ pending
                BY <1>6, <3>2, <4>1 DEF Finish, OneDrain
            <4> QED BY <4>2
        <3>3. CASE ~closed /\ ~HitLimit(x) /\ ~again
            <4>1. got[x] < Limit /\ got[x] \in Nat /\ spent[x] \in Nat
                BY <1>1, <3>3 DEF HitLimit
            <4>2. ~excused' => ~(spent[x] > got[x])
                BY <1>6, <3>3 DEF Finish
            <4>3. \/ Unread = {} \/ (\E r \in Receivers : rpc[r] = "notify")
                  \/ spent[x] >= Limit \/ spent[x] > got[x]
                BY <2>1, <3>3 DEF DrainInv, Prompted
            <4>4. ~excused' => ~(spent[x] >= Limit) /\ ~(spent[x] > got[x])
                BY <1>1, <4>1, <4>2
            <4>5. ~excused' => Unread = {} \/ \E r \in Receivers : rpc[r] = "notify"
                BY <4>3, <4>4
            <4> QED BY <2>1, <4>5
        <3> QED BY <3>1, <3>2, <3>3
    <2> QED BY <2>2, <2>3 DEF DrainInv
<1>7. CASE Requeue(x)
    <2>1. UNCHANGED <<mode, flags, closed, excused, rpc, spent, got>> /\ Unread' = Unread
        BY <1>7 DEF Requeue, drain, entity, cache, Unread
    <2>2. xpc' = [xpc EXCEPT ![x] = "idle"]
        BY <1>7 DEF Requeue
    <2> QED BY <1>1, <2>1, <2>2, DrainGoesOn DEF Places
<1> QED BY <1>1, <1>2, <1>3, <1>4, <1>5, <1>6, <1>7, LoanPrompts DEF ExecutorStep, DrainStep

LEMMA UserPrompts ==
    ASSUME TypeOK, DrainInv, NEW u \in Users, UserStep(u)
    PROVE  DrainInv'
<1> USE Types
<1>1. u \in Threads /\ u \notin Executors
    BY DEF Threads
<1>2. UNCHANGED <<mode, flags, closed, excused, rpc, spent, got>>
    BY DEF UserStep, PollCopies, PollLoan, UserReturns, drain, entity
<1>3. Unread = {} => Unread' = {}
    BY DEF UserStep, PollCopies, PollLoan, UserReturns, cache, Unread
<1>4. xpc' = xpc \/ \E w \in {"register", "return"} : xpc' = [xpc EXCEPT ![u] = w]
    BY DEF UserStep, PollCopies, PollLoan, UserReturns
<1>5. CASE xpc' = xpc
    <2>1. \A y \in Executors : LastTake(y)' <=> LastTake(y)
        BY <1>2, <1>5 DEF LastTake
    <2> QED BY <1>2, <1>3, <1>5, <2>1, DrainUndisturbed
<1> QED BY <1>1, <1>2, <1>3, <1>4, <1>5, DrainGoesOn DEF Places

\* Only a thread that drains changes its counts.
LEMMA CountStep ==
    ASSUME TypeOK, CountInv, NEW t \in Threads, NEW w \in Places, xpc' = [xpc EXCEPT ![t] = w],
           mode' = mode, \A y \in Threads \ {t} : got'[y] = got[y] /\ spent'[y] = spent[y],
           w \in {"register", "activate"} => mode.loan \/ t \notin Executors,
           t \in Executors /\ mode.loan /\ w \in {"drain", "take"} => got'[t] <= spent'[t],
           t \in Executors /\ mode.loan /\ w \in {"register", "activate", "offer"}
             => got'[t] < spent'[t]
    PROVE  CountInv'
<1> SUFFICES ASSUME NEW x \in Executors
             PROVE  /\ xpc'[x] \in {"register", "activate"} => mode'.loan
                    /\ mode'.loan /\ xpc'[x] \in {"drain", "take"} => got'[x] <= spent'[x]
                    /\ mode'.loan /\ xpc'[x] \in {"register", "activate", "offer"}
                         => got'[x] < spent'[x]
    BY DEF CountInv
<1>1. x \in Threads /\ xpc'[x] = IF x = t THEN w ELSE xpc[x]
    BY Types DEF Threads
<1>2. CASE x = t
    BY <1>1, <1>2
<1>3. CASE x # t
    BY <1>1, <1>3 DEF CountInv
<1> QED BY <1>2, <1>3

LEMMA LoanKeepsCounts ==
    ASSUME TypeOK, CountInv, NEW t \in Threads, LoanStep(t)
    PROVE  CountInv'
<1>1. UNCHANGED <<mode, got, spent>>
    BY DEF LoanStep, Register, Activate, BeginReturn, EndReturn, drain
<1>2. t \in Executors =>
        /\ xpc[t] \in {"register", "activate"} => mode.loan
        /\ mode.loan /\ xpc[t] \in {"register", "activate", "offer"} => got[t] < spent[t]
    BY DEF CountInv
<1>3. CASE Register(t)
    <2>1. xpc[t] = "register" /\ \E w \in {"activate", "finish", "idle"} : xpc' = [xpc EXCEPT ![t] = w]
        BY <1>3 DEF Register
    <2> QED BY <1>1, <1>2, <2>1, CountStep DEF Places
<1>4. CASE Activate(t)
    <2>1. xpc[t] = "activate" /\ \E w \in {"offer", "hold"} : xpc' = [xpc EXCEPT ![t] = w]
        BY <1>4 DEF Activate
    <2> QED BY <1>1, <1>2, <2>1, CountStep DEF Places
<1>5. CASE BeginReturn(t) \/ EndReturn(t)
    <2>1. \E w \in {"native", "idle"} : xpc' = [xpc EXCEPT ![t] = w]
        BY <1>5 DEF BeginReturn, EndReturn
    <2> QED BY <1>1, <2>1, CountStep DEF Places
<1> QED BY <1>3, <1>4, <1>5 DEF LoanStep

LEMMA ExecutorKeepsCounts ==
    ASSUME TypeOK, CountInv, NEW x \in Executors, ExecutorStep(x)
    PROVE  CountInv'
<1> USE Types
<1>1. x \in Threads /\ Turns \in Nat
    BY DEF Threads, Turns
<1>2. CASE CheckClosed(x)
    <2>1. UNCHANGED <<mode, got, spent>> /\ xpc[x] = "drain"
        BY <1>2 DEF CheckClosed, drain
    <2>2. \E w \in {"idle", "take"} : xpc' = [xpc EXCEPT ![x] = w]
        BY <1>2 DEF CheckClosed
    <2>3. mode.loan => got[x] <= spent[x]
        BY <2>1 DEF CountInv
    <2> QED BY <1>1, <2>1, <2>2, <2>3, CountStep DEF Places
<1>3. CASE TakeCopies(x)
    <2>1. /\ mode' = mode /\ ~mode.loan
          /\ \A y \in Threads \ {x} : got'[y] = got[y] /\ spent'[y] = spent[y]
        BY <1>1, <1>3 DEF TakeCopies
    <2>2. \E w \in {"finish", "offer"} : xpc' = [xpc EXCEPT ![x] = w]
        BY <1>3 DEF TakeCopies
    <2> QED BY <1>1, <2>1, <2>2, CountStep DEF Places
<1>4. CASE TakeLoan(x)
    <2>1. /\ UNCHANGED <<mode, got>> /\ mode.loan /\ xpc[x] = "take"
          /\ \A y \in Threads \ {x} : spent'[y] = spent[y]
          /\ spent'[x] = spent[x] + (UpTo(Turns) - read)
        BY <1>1, <1>4 DEF TakeLoan
    <2>2. got[x] <= spent[x] /\ got[x] \in Nat /\ spent[x] \in Nat
        BY <1>1, <2>1 DEF CountInv
    <2>3. UpTo(Turns) - read \in Nat
        BY <1>1, TakeTypes
    <2>4. PICK w \in {"register", "finish", "take"} :
            /\ xpc' = [xpc EXCEPT ![x] = w]
            /\ w = "register" => Taken(Turns) # {}
        BY <1>4 DEF TakeLoan, Valid
    <2>5. w = "register" => UpTo(Turns) - read > 0
        <3>1. UpTo(Turns) \in read..arrived /\ Taken(Turns) = read + 1..UpTo(Turns)
            BY <1>1, TakeTypes DEF Taken
        <3>2. Taken(Turns) # {} => read + 1 <= UpTo(Turns)
            BY <3>1
        <3> QED BY <2>4, <3>1, <3>2
    <2>6. got'[x] <= spent'[x] /\ (w = "register" => got'[x] < spent'[x])
        BY <2>1, <2>2, <2>3, <2>5
    <2> QED BY <1>1, <2>1, <2>4, <2>6, CountStep DEF Places
<1>5. CASE Offer(x)
    <2>1. /\ UNCHANGED <<mode, spent>> /\ xpc[x] = "offer"
          /\ \A y \in Threads \ {x} : got'[y] = got[y]
          /\ got'[x] = Counts(x)
        BY <1>1, <1>5 DEF Offer
    <2>2. PICK w \in {"finish", "take", "offer"} :
            /\ xpc' = [xpc EXCEPT ![x] = w]
            /\ w = "take" => mode.loan /\ ~mode.batch
            /\ w = "offer" => ~mode.loan
        BY <1>5 DEF Offer, AfterOffer
    <2>3. ASSUME w = "take" PROVE got'[x] <= spent'[x]
        <3>1. got[x] < spent[x] /\ got[x] \in Nat /\ spent[x] \in Nat
            BY <1>1, <2>1, <2>2, <2>3 DEF CountInv
        <3>2. Offered(x) = First(hand[x]) /\ hand[x] \in SUBSET Samples
            BY <1>1, <2>2, <2>3 DEF Offered
        <3>3. Cardinality(Offered(x)) \in Nat /\ Cardinality(Offered(x)) <= 1
            BY <3>2, OneFirst, FiniteSamples
        <3>4. got'[x] = got[x] + Cardinality(Offered(x))
            BY <2>1, <2>2, <2>3 DEF Counts
        <3> QED BY <2>1, <3>1, <3>3, <3>4
    <2> QED BY <1>1, <2>1, <2>2, <2>3, CountStep DEF Places
<1>6. CASE PopItem(x)
    <2>1. /\ mode' = mode
          /\ \A y \in Threads \ {x} : got'[y] = got[y] /\ spent'[y] = spent[y]
          /\ got'[x] = 0 /\ spent'[x] = 0
        BY <1>1, <1>6 DEF PopItem
    <2>2. PICK w \in {"drain", "call"} : xpc' = [xpc EXCEPT ![x] = w]
        BY <1>6 DEF PopItem
    <2>3. got'[x] <= spent'[x]
        BY <2>1
    <2> QED BY <1>1, <2>1, <2>2, <2>3, CountStep DEF Places
<1>7. CASE TurnsUsed(x) \/ Finish(x) \/ Requeue(x) \/ BeginCall(x) \/ EndCall(x)
    <2>1. UNCHANGED <<mode, got, spent>>
        BY <1>7 DEF TurnsUsed, Finish, Requeue, BeginCall, EndCall, drain
    <2>2. \E w \in {"finish", "idle", "requeue", "return", "user"} : xpc' = [xpc EXCEPT ![x] = w]
        BY <1>7 DEF TurnsUsed, Finish, Requeue, BeginCall, EndCall
    <2> QED BY <1>1, <2>1, <2>2, CountStep DEF Places
<1> QED BY <1>1, <1>2, <1>3, <1>4, <1>5, <1>6, <1>7, LoanKeepsCounts DEF ExecutorStep, DrainStep

LEMMA CountsHold == Spec => []CountInv
<1>1. Init => CountInv
    BY DEF Init, CountInv, Threads
<1>2. TypeOK /\ CountInv /\ [Next]_vars => CountInv'
    <2> SUFFICES ASSUME TypeOK, CountInv, [Next]_vars PROVE CountInv'
        OBVIOUS
    <2>1. ASSUME NEW x \in Executors, ExecutorStep(x) PROVE CountInv'
        BY <2>1, ExecutorKeepsCounts
    <2>2. ASSUME NEW u \in Users, UserStep(u) PROVE CountInv'
        <3>1. UNCHANGED <<mode, got, spent>> /\ u \notin Executors /\ u \in Threads
            BY <2>2 DEF UserStep, PollCopies, PollLoan, UserReturns, drain, Threads
        <3>2. xpc' = xpc \/ \E w \in {"register", "return"} : xpc' = [xpc EXCEPT ![u] = w]
            BY <2>2 DEF UserStep, PollCopies, PollLoan, UserReturns
        <3>3. CASE xpc' = xpc
            BY <3>1, <3>3 DEF CountInv
        <3> QED BY <3>1, <3>2, <3>3, CountStep DEF Places
    <2>3. CASE UNCHANGED <<mode, xpc, got, spent>>
        BY <2>3 DEF CountInv
    <2>4. \/ \E r \in Receivers : Arrive(r) \/ ReceiverStep(r)
          \/ \E d \in Destroyers : Destroy(d) \/ DestroyStep(d)
          \/ DropOldest \/ DropHook \/ UNCHANGED vars
          => UNCHANGED <<mode, xpc, got, spent>>
        BY DEF Arrive, ReceiverStep, OnDataAvailable, ReceiverEnqueues, Destroy, DestroyStep, Close,
               LoansAreBack, LoanTimeout, DeleteReader, DropOldest, DropHook, vars, drain
    <2> QED BY <2>1, <2>2, <2>3, <2>4, LoanKeepsCounts DEF Next, Threads
<1> QED BY <1>1, <1>2, TypeCorrect, PTL DEF Spec

\* Nothing is left behind that no drain comes for (code: the finally block of
\* _drain_reader_callbacks, which goes on when it was asked to or has used its
\* turns).
LEMMA DrainComes == Spec => []DrainInv
<1>1. Init => DrainInv
    <2> SUFFICES ASSUME Init PROVE DrainInv
        OBVIOUS
    <2>1. Unread = {}
        BY DEF Init, Unread
    <2> QED BY <2>1 DEF DrainInv
<1>2. TypeOK /\ OneDrain /\ CountInv /\ DrainInv /\ [Next]_vars => DrainInv'
    <2> SUFFICES ASSUME TypeOK, OneDrain, CountInv, DrainInv, [Next]_vars PROVE DrainInv'
        OBVIOUS
    <2>1. CASE \E r \in Receivers : Arrive(r) \/ ReceiverStep(r)
        BY <2>1, ReceiverPrompts
    <2>2. CASE \E x \in Executors : ExecutorStep(x)
        BY <2>2, ExecutorPrompts
    <2>3. ASSUME NEW u \in Users, UserStep(u) \/ LoanStep(u) PROVE DrainInv'
        BY <2>3, UserPrompts, LoanPrompts DEF Threads
    <2>4. CASE \E d \in Destroyers : Destroy(d) \/ DestroyStep(d)
        BY <2>4, DestroyPrompts
    <2>5. CASE DropOldest \/ DropHook
        BY <2>5, DropPrompts
    <2>6. CASE UNCHANGED vars
        <3>1. UNCHANGED <<mode, flags, closed, excused, rpc, xpc, spent, got>> /\ Unread' = Unread
            BY <2>6 DEF vars, drain, entity, cache, Unread
        <3>2. \A y \in Executors : LastTake(y)' <=> LastTake(y)
            BY <3>1 DEF LastTake
        <3> QED BY <3>1, <3>2, DrainUndisturbed
    <2> QED BY <2>1, <2>2, <2>3, <2>4, <2>5, <2>6 DEF Next
<1> QED BY <1>1, <1>2, TypeCorrect, OneDrainHolds, CountsHold, PTL DEF Spec

\* The places of the one drain, counted.
LEMMA OnePlace ==
    ASSUME OneDrain, ~closed, pending \in BOOLEAN
    PROVE  Cardinality(DrainsUnderway) = (IF pending THEN 1 ELSE 0)
<1>1. CASE ~pending
    <2>1. Drains(queue) = {} /\ Drainers = {} /\ Askers = {} /\ ~DropsDrain
        BY <1>1 DEF OneDrain
    <2>2. DrainsUnderway = {}
        BY <2>1 DEF DrainsUnderway
    <2> QED BY <1>1, <2>2, FS_EmptySet
<1>2. CASE pending
    <2>1. \E p : DrainsUnderway = {p}
        <3>1. ASSUME NEW i \in Drains(queue) PROVE \E p : DrainsUnderway = {p}
            <4>1. Drains(queue) = {i} /\ Drainers = {} /\ Askers = {} /\ ~DropsDrain
                BY <3>1 DEF OneDrain, AtMostOne
            <4>2. DrainsUnderway = {<<"queue", i>>}
                BY <4>1 DEF DrainsUnderway
            <4> QED BY <4>2
        <3>2. ASSUME NEW x \in Drainers PROVE \E p : DrainsUnderway = {p}
            <4>1. Drains(queue) = {} /\ Drainers = {x} /\ Askers = {} /\ ~DropsDrain
                BY <3>2 DEF OneDrain, AtMostOne
            <4>2. DrainsUnderway = {<<"thread", x>>}
                BY <4>1 DEF DrainsUnderway
            <4> QED BY <4>2
        <3>3. ASSUME NEW r \in Askers PROVE \E p : DrainsUnderway = {p}
            <4>1. Drains(queue) = {} /\ Drainers = {} /\ Askers = {r} /\ ~DropsDrain
                BY <3>3 DEF OneDrain, AtMostOne
            <4>2. DrainsUnderway = {<<"receiver", r>>}
                BY <4>1 DEF DrainsUnderway
            <4> QED BY <4>2
        <3>4. ASSUME DropsDrain PROVE \E p : DrainsUnderway = {p}
            <4>1. Drains(queue) = {} /\ Drainers = {} /\ Askers = {}
                BY <3>4 DEF OneDrain
            <4>2. DrainsUnderway = {<<"hook", 0>>}
                BY <3>4, <4>1 DEF DrainsUnderway
            <4> QED BY <4>2
        <3> QED BY <1>2, <3>1, <3>2, <3>3, <3>4 DEF OneDrain
    <2> QED BY <1>2, <2>1, FS_Singleton
<1> QED BY <1>1, <1>2

\* While the listener is open one drain is on its way exactly when the flag says
\* so, and no sample is left in the cache that none comes for (code:
\* on_data_available, _enqueue_drain, _drain_reader_callbacks, close).
THEOREM DrainScheduledHolds == Spec => []DrainScheduled
<1>1. TypeOK /\ OneDrain /\ DrainInv => DrainScheduled
    BY OnePlace, Types DEF DrainScheduled, DrainInv
<1> QED BY <1>1, TypeCorrect, OneDrainHolds, DrainComes, PTL

-----------------------------------------------------------------------------
(* Order                                                                     *)

\* The samples of an item of the queue wait in it.
LEMMA WaitingItems ==
    ASSUME NEW s \in Seq(Items), NEW n
    PROVE  n \in Waiting(s) <=> \E i \in 1..Len(s) : s[i].kind = "call" /\ n \in s[i].samples
<1>1. ASSUME NEW i \in 1..Len(s) PROVE s[i].samples \subseteq Samples
    BY ElementOfSeq, ItemTypes
<1> QED BY <1>1 DEF Waiting

\* An item whose samples are later than those that wait keeps the order.
LEMMA OrderAppend ==
    ASSUME TypeOK, InOrder, NEW i \in Items, queue' = Append(queue, i),
           i.kind = "call" => \A n \in Waiting(queue), m \in i.samples : n < m
    PROVE  /\ InOrder'
           /\ Waiting(queue') = Waiting(queue) \cup (IF i.kind = "call" THEN i.samples ELSE {})
<1> USE Types
<1>1. /\ Len(queue) \in Nat /\ Len(queue') = Len(queue) + 1 /\ queue' \in Seq(Items)
      /\ \A n \in 1..Len(queue) : queue'[n] = queue[n]
      /\ queue'[Len(queue) + 1] = i
      /\ DOMAIN queue = 1..Len(queue) /\ DOMAIN queue' = 1..Len(queue) + 1
    <2>1. queue' \in Seq(Items)
        BY QueueTypes
    <2> QED BY <2>1, AppendProperties, LenProperties
<1>2. ASSUME NEW n
      PROVE  n \in Waiting(queue') <=> n \in Waiting(queue) \/ (i.kind = "call" /\ n \in i.samples)
    <2>1. n \in Waiting(queue') <=>
            \E j \in 1..Len(queue) + 1 : queue'[j].kind = "call" /\ n \in queue'[j].samples
        BY <1>1, WaitingItems
    <2>2. n \in Waiting(queue) <=>
            \E j \in 1..Len(queue) : queue[j].kind = "call" /\ n \in queue[j].samples
        BY WaitingItems
    <2> QED BY <1>1, <2>1, <2>2
<1>3. InOrder'
    <2> SUFFICES ASSUME NEW j \in DOMAIN queue', NEW k \in DOMAIN queue', j < k,
                        queue'[j].kind = "call", queue'[k].kind = "call",
                        NEW s \in queue'[j].samples, NEW r \in queue'[k].samples
                 PROVE  s < r
        BY DEF InOrder
    <2>1. j \in 1..Len(queue) /\ queue'[j] = queue[j]
        BY <1>1
    <2>2. CASE k \in 1..Len(queue)
        BY <1>1, <2>1, <2>2 DEF InOrder
    <2>3. CASE k = Len(queue) + 1
        <3>1. s \in Waiting(queue)
            BY <2>1, WaitingItems
        <3> QED BY <1>1, <2>3, <3>1
    <2> QED BY <1>1, <2>2, <2>3
<1> QED BY <1>2, <1>3

\* Nor does taking the head disturb it.
LEMMA OrderTail ==
    ASSUME TypeOK, InOrder, queue # <<>>, queue' = Tail(queue)
    PROVE  InOrder' /\ Waiting(queue') \subseteq Waiting(queue)
<1> USE Types
<1>1. /\ Len(queue) \in Nat \ {0} /\ queue' \in Seq(Items) /\ Len(queue') = Len(queue) - 1
      /\ \A n \in 1..Len(queue) - 1 : queue'[n] = queue[n + 1]
      /\ DOMAIN queue = 1..Len(queue) /\ DOMAIN queue' = 1..Len(queue) - 1
    BY HeadTailProperties, LenProperties, EmptySeq
<1>2. ASSUME NEW n \in Waiting(queue') PROVE n \in Waiting(queue)
    <2>1. PICK j \in 1..Len(queue) - 1 : queue'[j].kind = "call" /\ n \in queue'[j].samples
        BY <1>1, <1>2, WaitingItems
    <2>2. j + 1 \in 1..Len(queue) /\ queue[j + 1].kind = "call" /\ n \in queue[j + 1].samples
        BY <1>1, <2>1
    <2> QED BY <2>2, WaitingItems
<1>3. InOrder'
    <2> SUFFICES ASSUME NEW j \in DOMAIN queue', NEW k \in DOMAIN queue', j < k,
                        queue'[j].kind = "call", queue'[k].kind = "call",
                        NEW s \in queue'[j].samples, NEW r \in queue'[k].samples
                 PROVE  s < r
        BY DEF InOrder
    <2>1. /\ j + 1 \in 1..Len(queue) /\ k + 1 \in 1..Len(queue) /\ j + 1 < k + 1
          /\ queue'[j] = queue[j + 1] /\ queue'[k] = queue[k + 1]
        BY <1>1
    <2> QED BY <1>1, <2>1 DEF InOrder
<1> QED BY <1>2, <1>3

\* A step that adds nothing to the queue and gives no thread samples to offer.
LEMMA OrderUndisturbed ==
    ASSUME TypeOK, OrderInv, InOrder', Waiting(queue') \subseteq Waiting(queue),
           read' \in Nat, read <= read',
           \A x \in Executors : xpc'[x] \in {"register", "activate", "offer"} =>
               xpc[x] \in {"register", "activate", "offer"} /\ hand'[x] = hand[x]
    PROVE  OrderInv'
<1>1. ASSUME NEW n \in Waiting(queue') PROVE n \in Samples /\ n <= read'
    <2>1. n \in Waiting(queue) /\ n <= read
        BY DEF OrderInv
    <2>2. n \in Samples /\ n \in Nat /\ read \in Nat
        BY <2>1, Types DEF Waiting, Samples
    <2> QED BY <2>1, <2>2
<1>2. ASSUME NEW x \in Executors, xpc'[x] \in {"register", "activate", "offer"}, NEW s \in hand'[x]
      PROVE  s <= read' /\ \A n \in Waiting(queue') : n < s
    <2>1. s \in Samples /\ s <= read /\ \A n \in Waiting(queue) : n < s
        BY <1>2, Types DEF OrderInv, Threads
    <2> QED BY <2>1, Types DEF Samples
<1> QED BY <1>1, <1>2 DEF OrderInv

\* The same with the queue as it was.
LEMMA OrderKept ==
    ASSUME TypeOK, OrderInv, queue' = queue, read' \in Nat, read <= read',
           \A x \in Executors : xpc'[x] \in {"register", "activate", "offer"} =>
               xpc[x] \in {"register", "activate", "offer"} /\ hand'[x] = hand[x]
    PROVE  OrderInv'
<1>1. InOrder' /\ Waiting(queue') \subseteq Waiting(queue)
    BY DEF OrderInv, InOrder
<1> QED BY <1>1, OrderUndisturbed

\* A drain is no callback.
LEMMA OrderEnqueued ==
    ASSUME TypeOK, OrderInv, EnqueueDrain
    PROVE  InOrder' /\ Waiting(queue') \subseteq Waiting(queue)
<1>1. CASE queue' = queue
    BY <1>1 DEF OrderInv, InOrder
<1>2. CASE queue' = Append(queue, Drain)
    <2>1. Drain \in Items /\ Drain.kind = "drain"
        BY ItemTypes DEF Drain
    <2> QED BY <1>2, <2>1, OrderAppend DEF OrderInv
<1> QED BY <1>1, <1>2 DEF EnqueueDrain

\* A drain takes samples that are later than those that wait.
LEMMA OrderTaken ==
    ASSUME TypeOK, OrderInv, NEW n \in Nat, NEW x \in Executors, read' = UpTo(n), queue' = queue,
           \A y \in Executors \ {x} : xpc'[y] = xpc[y] /\ hand'[y] = hand[y],
           xpc'[x] \in {"register", "activate", "offer"} => hand'[x] = Valid(Taken(n))
    PROVE  OrderInv'
<1>1. UpTo(n) \in read..arrived /\ UpTo(n) \in Nat /\ read \in Nat
    BY Types, TakeTypes
<1>2. InOrder' /\ Waiting(queue') = Waiting(queue)
    BY DEF OrderInv, InOrder
<1>3. ASSUME NEW m \in Waiting(queue) PROVE m \in Nat /\ m <= read /\ m <= read'
    BY <1>1 DEF OrderInv, Waiting, Samples
<1>4. ASSUME NEW y \in Executors, xpc'[y] \in {"register", "activate", "offer"}, NEW s \in hand'[y]
      PROVE  s <= read' /\ \A m \in Waiting(queue') : m < s
    <2>1. CASE y = x
        <3>1. s \in Taken(n)
            BY <1>4, <2>1 DEF Valid
        <3>2. s \in Nat /\ read < s /\ s <= read'
            BY <1>1, <3>1 DEF Taken
        <3> QED BY <1>1, <1>2, <1>3, <3>2
    <2>2. CASE y # x
        <3>1. s \in Samples /\ s <= read /\ \A m \in Waiting(queue) : m < s
            BY <1>4, <2>2, Types DEF OrderInv, Threads
        <3> QED BY <1>1, <1>2, <3>1 DEF Samples
    <2> QED BY <2>1, <2>2
<1> QED BY <1>2, <1>3, <1>4 DEF OrderInv

\* It offers the first of them, or all.
LEMMA OrderOffered ==
    ASSUME TypeOK, OneDrain, OrderInv, NEW x \in Executors, Offer(x)
    PROVE  OrderInv'
<1> USE Types
<1>1. x \in Threads /\ xpc[x] = "offer" /\ hand[x] \in SUBSET Samples /\ read' = read
    BY DEF Offer, Threads, cache
<1>2. ASSUME NEW y \in Executors, y # x PROVE xpc[y] \notin {"register", "activate", "offer"}
    <2>1. x \in Drainers
        BY <1>1 DEF Drainers, Draining
    <2>2. y \in Drainers => y = x
        BY <2>1 DEF OneDrain, AtMostOne
    <2> QED BY <1>2, <2>2 DEF Drainers, Draining
<1>3. \A y \in Executors \ {x} : xpc'[y] = xpc[y]
    BY <1>1 DEF Offer, Threads
<1>4. \A s \in hand[x] : s \in Samples /\ s <= read /\ \A n \in Waiting(queue) : n < s
    BY <1>1 DEF OrderInv
<1>5. hand'[x] = hand[x] \ Offered(x)
    BY <1>1 DEF Offer
<1>6. /\ Offered(x) \subseteq hand[x] /\ Accepted(x) \subseteq Offered(x)
      /\ \A s \in Offered(x), r \in hand[x] \ Offered(x) : s < r
    <2>1. Offered(x) \subseteq hand[x] /\ Accepted(x) \subseteq Offered(x)
        BY DEF Offered, Accepted, First
    <2>2. CASE Offered(x) = hand[x]
        BY <2>1, <2>2
    <2>3. CASE Offered(x) = First(hand[x])
        <3>1. ASSUME NEW s \in First(hand[x]), NEW r \in hand[x] \ First(hand[x]) PROVE s < r
            <4>1. s <= r /\ s # r /\ s \in Nat /\ r \in Nat
                BY <1>1 DEF First, Samples
            <4> QED BY <4>1
        <3> QED BY <2>1, <2>3, <3>1
    <2> QED BY <2>1, <2>2, <2>3 DEF Offered
<1> DEFINE item == Call(Accepted(x), held[x])
<1>7. item \in Items /\ item.kind = "call" /\ item.samples = Accepted(x)
    BY <1>1, <1>6, ItemTypes DEF Call
<1>8. CASE queue' = queue
    <2>1. InOrder' /\ Waiting(queue') = Waiting(queue)
        BY <1>8 DEF OrderInv, InOrder
    <2>2. \A n \in Waiting(queue') : n <= read'
        BY <1>1, <2>1 DEF OrderInv
    <2>3. \A s \in hand'[x] : s <= read' /\ \A n \in Waiting(queue') : n < s
        BY <1>1, <1>4, <1>5, <2>1
    <2> QED BY <1>2, <1>3, <2>1, <2>2, <2>3 DEF OrderInv
<1>9. CASE queue' = Append(queue, item)
    <2>1. \A n \in Waiting(queue), m \in item.samples : n < m
        BY <1>4, <1>6, <1>7
    <2> HIDE DEF item
    <2>2. InOrder' /\ Waiting(queue') = Waiting(queue) \cup Accepted(x)
        BY <1>7, <1>9, <2>1, OrderAppend DEF OrderInv
    <2>3. \A n \in Waiting(queue') : n <= read'
        BY <1>1, <1>4, <1>6, <2>2 DEF OrderInv
    <2>4. \A s \in hand'[x] : s <= read' /\ \A n \in Waiting(queue') : n < s
        BY <1>1, <1>4, <1>5, <1>6, <2>2
    <2> QED BY <1>2, <1>3, <2>2, <2>3, <2>4 DEF OrderInv
<1> QED BY <1>8, <1>9 DEF Offer

LEMMA LoanKeepsOrder ==
    ASSUME TypeOK, OrderInv, NEW t \in Threads, LoanStep(t)
    PROVE  OrderInv'
<1> USE Types
<1>1. queue' = queue /\ read' = read
    BY DEF LoanStep, Register, Activate, BeginReturn, EndReturn, cache
<1>2. \A x \in Executors : xpc'[x] \in {"register", "activate", "offer"} =>
          xpc[x] \in {"register", "activate", "offer"} /\ hand'[x] = hand[x]
    <2> SUFFICES ASSUME NEW x \in Executors, xpc'[x] \in {"register", "activate", "offer"}
                 PROVE  xpc[x] \in {"register", "activate", "offer"} /\ hand'[x] = hand[x]
        OBVIOUS
    <2>1. x \in Threads
        BY DEF Threads
    <2>2. CASE Register(t)
        BY <2>1, <2>2 DEF Register
    <2>3. CASE Activate(t)
        BY <2>1, <2>3 DEF Activate, drain
    <2>4. CASE BeginReturn(t) \/ EndReturn(t)
        BY <2>1, <2>4 DEF BeginReturn, EndReturn, drain
    <2> QED BY <2>2, <2>3, <2>4 DEF LoanStep
<1> QED BY <1>1, <1>2, OrderKept

LEMMA ExecutorKeepsOrder ==
    ASSUME TypeOK, OneDrain, OrderInv, NEW x \in Executors, ExecutorStep(x)
    PROVE  OrderInv'
<1> USE Types
<1>1. x \in Threads /\ Limit \in Nat /\ Turns \in Nat
    BY DEF Threads, Turns
<1>2. CASE PopItem(x)
    <2>1. queue # <<>> /\ queue' = Tail(queue) /\ read' = read
        BY <1>2 DEF PopItem, cache
    <2>2. \A y \in Executors : xpc'[y] \in {"register", "activate", "offer"} =>
            xpc[y] \in {"register", "activate", "offer"} /\ hand'[y] = hand[y]
        BY <1>1, <1>2 DEF PopItem, Threads
    <2> QED BY <2>1, <2>2, OrderTail, OrderUndisturbed DEF OrderInv
<1>3. CASE TakeCopies(x)
    <2>1. /\ read' = UpTo(Limit) /\ queue' = queue /\ hand' = [hand EXCEPT ![x] = Valid(Taken(Limit))]
          /\ \E w \in Places : xpc' = [xpc EXCEPT ![x] = w]
        BY <1>3 DEF TakeCopies, Places
    <2>2. /\ \A y \in Executors \ {x} : xpc'[y] = xpc[y] /\ hand'[y] = hand[y]
          /\ hand'[x] = Valid(Taken(Limit))
        BY <1>1, <2>1 DEF Threads
    <2> QED BY <1>1, <2>1, <2>2, OrderTaken
<1>4. CASE TakeLoan(x)
    <2>1. /\ read' = UpTo(Turns) /\ queue' = queue
          /\ \E w \in Places : xpc' = [xpc EXCEPT ![x] = w]
          /\ \/ hand' = [hand EXCEPT ![x] = Valid(Taken(Turns))]
             \/ hand' = hand /\ xpc'[x] \in {"finish", "take"}
        BY <1>1, <1>4 DEF TakeLoan, Places
    <2>2. /\ \A y \in Executors \ {x} : xpc'[y] = xpc[y] /\ hand'[y] = hand[y]
          /\ xpc'[x] \in {"register", "activate", "offer"} => hand'[x] = Valid(Taken(Turns))
        BY <1>1, <2>1 DEF Threads
    <2> QED BY <1>1, <2>1, <2>2, OrderTaken
<1>5. CASE Requeue(x)
    <2>1. EnqueueDrain /\ read' = read /\ hand' = hand /\ xpc' = [xpc EXCEPT ![x] = "idle"]
        BY <1>5 DEF Requeue, cache, drain
    <2>2. \A y \in Executors : xpc'[y] \in {"register", "activate", "offer"} =>
            xpc[y] \in {"register", "activate", "offer"} /\ hand'[y] = hand[y]
        BY <1>1, <2>1 DEF Threads
    <2> QED BY <2>1, <2>2, OrderEnqueued, OrderUndisturbed
<1>6. CASE CheckClosed(x) \/ TurnsUsed(x) \/ Finish(x) \/ BeginCall(x) \/ EndCall(x)
    <2>1. queue' = queue /\ read' = read /\ hand' = hand
        BY <1>6 DEF CheckClosed, TurnsUsed, Finish, BeginCall, EndCall, cache, drain
    <2>2. \E w \in {"idle", "take", "finish", "requeue", "return", "user"} :
              xpc' = [xpc EXCEPT ![x] = w]
        BY <1>6 DEF CheckClosed, TurnsUsed, Finish, BeginCall, EndCall
    <2>3. \A y \in Executors : xpc'[y] \in {"register", "activate", "offer"} =>
            xpc[y] \in {"register", "activate", "offer"} /\ hand'[y] = hand[y]
        BY <1>1, <2>1, <2>2 DEF Threads
    <2> QED BY <2>1, <2>3, OrderKept
<1> QED BY <1>1, <1>2, <1>3, <1>4, <1>5, <1>6, OrderOffered, LoanKeepsOrder DEF ExecutorStep, DrainStep

\* Callbacks are queued in the order of their samples, for any number of samples
\* and threads: one thread drains at a time, and it takes only what is later than
\* everything that waits (code: _drain_reader_callbacks and the offers of
\* _enqueue_user_callback, by way of OneDrain).
THEOREM InOrderHolds == Spec => []InOrder
<1>1. Init => OrderInv
    <2> SUFFICES ASSUME Init PROVE OrderInv
        OBVIOUS
    <2>1. InOrder /\ Waiting(queue) = {}
        BY EmptySeq DEF Init, InOrder, Waiting
    <2>2. \A x \in Executors : xpc[x] = "idle"
        BY DEF Init, Threads
    <2> QED BY <2>1, <2>2 DEF OrderInv
<1>2. TypeOK /\ OneDrain /\ OrderInv /\ [Next]_vars => OrderInv'
    <2> SUFFICES ASSUME TypeOK, OneDrain, OrderInv, [Next]_vars PROVE OrderInv'
        OBVIOUS
    <2> USE Types
    <2>1. ASSUME NEW r \in Receivers, Arrive(r) \/ ReceiverStep(r) PROVE OrderInv'
        <3>1. UNCHANGED <<xpc, hand, read>> /\ (queue' = queue \/ EnqueueDrain)
            BY <2>1 DEF Arrive, ReceiverStep, OnDataAvailable, ReceiverEnqueues, cache, drain
        <3> QED BY <3>1, OrderKept, OrderEnqueued, OrderUndisturbed
    <2>2. CASE \E x \in Executors : ExecutorStep(x)
        BY <2>2, ExecutorKeepsOrder
    <2>3. ASSUME NEW u \in Users, UserStep(u) PROVE OrderInv'
        <3>1. u \notin Executors /\ u \in Threads /\ UNCHANGED <<queue, hand>>
            BY <2>3 DEF UserStep, PollCopies, PollLoan, UserReturns, drain, Threads
        <3>2. read' = read \/ read' = read + 1
            BY <2>3 DEF UserStep, PollCopies, PollLoan, UserReturns, cache
        <3>3. \A x \in Executors : xpc'[x] = xpc[x]
            BY <2>3, <3>1 DEF UserStep, PollCopies, PollLoan, UserReturns, Threads
        <3> QED BY <3>1, <3>2, <3>3, OrderKept
    <2>4. ASSUME NEW d \in Destroyers, Destroy(d) \/ DestroyStep(d) PROVE OrderInv'
        <3>1. UNCHANGED <<queue, hand, xpc>> /\ (read' = read \/ read' = arrived)
            BY <2>4 DEF Destroy, DestroyStep, Close, LoansAreBack, LoanTimeout, DeleteReader, cache, drain
        <3> QED BY <3>1, OrderKept
    <2>5. CASE DropOldest
        <3>1. UNCHANGED <<hand, xpc, read>> /\ queue # <<>> /\ queue' = Tail(queue)
            BY <2>5 DEF DropOldest, cache, drain
        <3> QED BY <3>1, OrderTail, OrderUndisturbed DEF OrderInv
    <2>6. CASE DropHook \/ UNCHANGED vars
        <3>1. UNCHANGED <<queue, hand, xpc, read>>
            BY <2>6 DEF DropHook, vars, cache, drain
        <3> QED BY <3>1, OrderKept
    <2>7. ASSUME NEW t \in Threads, LoanStep(t) PROVE OrderInv'
        BY <2>7, LoanKeepsOrder
    <2> QED BY <2>1, <2>2, <2>3, <2>4, <2>5, <2>6, <2>7 DEF Next, Threads
<1>3. OrderInv => InOrder
    BY DEF OrderInv
<1> QED BY <1>1, <1>2, <1>3, TypeCorrect, OneDrainHolds, PTL DEF Spec

-----------------------------------------------------------------------------
(* Loans                                                                     *)

\* A step of the thread t that goes to w.
LEMMA RegisteringStep ==
    ASSUME TypeOK, NEW t \in Threads, NEW w \in Places, xpc' = [xpc EXCEPT ![t] = w]
    PROVE  /\ Registering' = IF w \in {"register", "activate"}
                             THEN Registering \cup {t} ELSE Registering \ {t}
           /\ Activating' = IF w = "activate" THEN Activating \cup {t} ELSE Activating \ {t}
<1>1. \A s \in Threads : xpc'[s] = IF s = t THEN w ELSE xpc[s]
    BY Types
<1>2. \A s : s \in Registering' <=> s \in Threads /\ xpc'[s] \in {"register", "activate"}
    BY DEF Registering
<1>3. \A s : s \in Activating' <=> s \in Threads /\ xpc'[s] = "activate"
    BY DEF Activating
<1> QED BY <1>1, <1>2, <1>3 DEF Registering, Activating

\* One thread registers at a time: it has the reader's lock.
LEMMA OneRegisters ==
    ASSUME TypeOK, LoanInv
    PROVE  /\ \A s, t \in Registering : s = t
           /\ Registering # {} => lock # None
           /\ Activating \subseteq Registering
BY Types DEF LoanInv, Registering, Activating, Threads

\* The set and the count go down together.
LEMMA LoanCounts ==
    ASSUME TypeOK, LoanInv, UNCHANGED loans \/ \E l : Returned(l)
    PROVE  /\ active' \in Nat /\ active' <= active /\ objects' \in SUBSET Samples
           /\ active' >= Cardinality(objects') + (IF Activating = {} THEN 0 ELSE 1)
           /\ \A l \in Samples : loan'[l] = "held" => loan[l] = "held" /\ (l \in objects => l \in objects')
<1> USE Types
<1>1. IsFiniteSet(objects) /\ Cardinality(objects) \in Nat
    BY FiniteSamples
<1>2. CASE UNCHANGED loans
    BY <1>1, <1>2 DEF LoanInv, loans
<1>3. ASSUME NEW l, Returned(l)
      PROVE  /\ active' \in Nat /\ active' <= active /\ objects' \in SUBSET Samples
             /\ active' >= Cardinality(objects') + (IF Activating = {} THEN 0 ELSE 1)
             /\ \A m \in Samples :
                  loan'[m] = "held" => loan[m] = "held" /\ (m \in objects => m \in objects')
    <2>1. objects' = objects \ {l} /\ objects' \in SUBSET Samples
        BY <1>3 DEF Returned
    <2>2. Cardinality(objects') = IF l \in objects THEN Cardinality(objects) - 1 ELSE Cardinality(objects)
        BY <1>1, <2>1, FS_RemoveElement
    <2>3. Cardinality(objects') \in Nat
        BY <2>1, FiniteSamples
    <2>4. active >= Cardinality(objects) + (IF Activating = {} THEN 0 ELSE 1)
        BY DEF LoanInv
    <2>5. active' = IF l \in objects /\ active > 0 THEN active - 1 ELSE active
        BY <1>3 DEF Returned
    <2>6. \A m \in Samples :
            loan'[m] = "held" => loan[m] = "held" /\ (m \in objects => m \in objects')
        <3> SUFFICES ASSUME NEW m \in Samples, loan'[m] = "held"
                     PROVE  loan[m] = "held" /\ m # l
            BY <2>1
        <3>1. loan'[m] = IF m = l THEN (IF loan[m] = "leaked" THEN loan[m] ELSE "returned") ELSE loan[m]
            BY <1>3 DEF Returned
        <3> QED BY <3>1
    <2>7. active' \in Nat /\ active' <= active
        BY <2>5
    <2>8. active' >= Cardinality(objects') + (IF Activating = {} THEN 0 ELSE 1)
        BY <1>1, <2>2, <2>3, <2>4, <2>5
    <2> QED BY <2>1, <2>6, <2>7, <2>8
<1> QED BY <1>2, <1>3

\* A step that gives no loan: at most it returns one.
LEMMA LoansQuiet ==
    ASSUME TypeOK, LoanInv, UNCHANGED loans \/ \E l : Returned(l),
           Registering' \subseteq Registering, Activating' \subseteq Activating,
           \A t \in Registering' : held'[t] = held[t] /\ lock' = lock,
           \A t \in Registering \ Registering' : loan'[held[t]] # "held",
           destroyed => destroyed', deleted' = deleted, Unread = {} => Unread' = {} \/ ~deleted,
           \A d \in Destroyers : /\ dpc'[d] # "idle" => dpc[d] # "idle" \/ destroyed'
                                 /\ dpc'[d] = "delete" => dpc[d] = "delete" \/ active = 0
    PROVE  LoanInv'
<1>1. /\ active' \in Nat /\ active' <= active /\ objects' \in SUBSET Samples
      /\ active' >= Cardinality(objects') + (IF Activating = {} THEN 0 ELSE 1)
      /\ \A l \in Samples : loan'[l] = "held" => loan[l] = "held" /\ (l \in objects => l \in objects')
    BY LoanCounts
<1>2. \A t \in Registering' : lock' = t
    BY DEF LoanInv
<1>3. active' >= Cardinality(objects') + (IF Activating' = {} THEN 0 ELSE 1)
    <2>1. Cardinality(objects') \in Nat
        BY <1>1, FiniteSamples
    <2>2. CASE Activating = {}
        <3>1. Activating' = {}
            BY <2>2
        <3> QED BY <1>1, <2>2, <3>1
    <2>3. CASE Activating # {}
        BY <1>1, <2>1, <2>3
    <2> QED BY <2>2, <2>3
<1>4. ASSUME NEW l \in Samples, loan'[l] = "held"
      PROVE  l \in objects' \/ \E t \in Registering' : held'[t] = l
    BY <1>1, <1>4 DEF LoanInv
<1>5. deleted' \/ (\E d \in Destroyers : dpc'[d] # "idle") => destroyed'
    BY DEF LoanInv
<1>6. (\E d \in Destroyers : dpc'[d] = "delete") => active' = 0
    BY <1>1, Types DEF LoanInv
<1>7. deleted' => active' = 0 /\ Registering' = {} /\ Unread' = {}
    BY <1>1, Types DEF LoanInv
<1> QED BY <1>2, <1>3, <1>4, <1>5, <1>6, <1>7 DEF LoanInv

\* A take of a loan: the thread has the lock, and the reader is there.
LEMMA LoanTaken ==
    ASSUME TypeOK, LoanInv, NEW t \in Threads, NEW l \in Samples, lock = None, ~deleted,
           lock' = t, held' = [held EXCEPT ![t] = l], loan' = [loan EXCEPT ![l] = "held"],
           xpc' = [xpc EXCEPT ![t] = "register"],
           UNCHANGED <<active, objects, destroyed, deleted, dpc>>
    PROVE  LoanInv'
<1> USE Types
<1>1. Registering = {} /\ Activating = {}
    BY OneRegisters
<1>2. Registering' = {t} /\ Activating' = {}
    BY <1>1, RegisteringStep DEF Places
<1>3. \A s \in Registering' : lock' = s
    BY <1>2
<1>4. \A m \in Samples : loan'[m] = "held" => m \in objects' \/ \E s \in Registering' : held'[s] = m
    BY <1>1, <1>2 DEF LoanInv
<1>5. active' >= Cardinality(objects') + (IF Activating' = {} THEN 0 ELSE 1)
    BY <1>1, <1>2 DEF LoanInv
<1> QED BY <1>3, <1>4, <1>5 DEF LoanInv

LEMMA LoanKeepsLoans ==
    ASSUME TypeOK, LoanInv, NEW t \in Threads, LoanStep(t)
    PROVE  LoanInv'
<1> USE Types
<1>1. UNCHANGED <<destroyed, deleted, dpc>> /\ Unread' = Unread
    BY DEF LoanStep, Register, Activate, BeginReturn, EndReturn, entity, cache, Unread
<1>2. CASE Register(t)
    <2>1. xpc[t] = "register" /\ t \in Registering /\ held[t] \in Samples
        BY <1>2 DEF Register, Registering
    <2>2. Registering = {t} /\ Activating = {}
        BY <2>1, OneRegisters DEF Activating
    <2>3. CASE ~destroyed
        <3>1. /\ active' = active + 1 /\ xpc' = [xpc EXCEPT ![t] = "activate"]
              /\ UNCHANGED <<loan, objects, held, lock>>
            BY <1>2, <2>3 DEF Register
        <3>2. Registering' = {t} /\ Activating' = {t}
            BY <2>2, <3>1, RegisteringStep DEF Places
        <3>3. active' >= Cardinality(objects') + (IF Activating' = {} THEN 0 ELSE 1)
            <4>1. active >= Cardinality(objects) /\ Cardinality(objects) \in Nat
                BY <2>2, FiniteSamples DEF LoanInv
            <4> QED BY <3>1, <3>2, <4>1
        <3>4. ~deleted /\ \A d \in Destroyers : dpc[d] = "idle"
            BY <2>3 DEF LoanInv
        <3>5. \A l \in Samples : loan'[l] = "held" => l \in objects' \/ \E s \in Registering' : held'[s] = l
            BY <2>2, <3>1, <3>2 DEF LoanInv
        <3>6. \A s \in Registering' : lock' = s
            BY <2>2, <3>1, <3>2 DEF LoanInv
        <3> QED BY <1>1, <3>3, <3>4, <3>5, <3>6 DEF LoanInv
    <2>4. CASE destroyed
        <3>1. Returned(held[t]) /\ \E w \in {"finish", "idle"} : xpc' = [xpc EXCEPT ![t] = w]
            BY <1>2, <2>4 DEF Register
        <3>2. Registering' = {} /\ Activating' = {}
            BY <2>2, <3>1, RegisteringStep DEF Places
        <3>3. loan'[held[t]] # "held"
            BY <2>1, <3>1 DEF Returned
        <3> QED BY <1>1, <2>2, <3>1, <3>2, <3>3, LoansQuiet
    <2> QED BY <2>3, <2>4
<1>3. CASE Activate(t)
    <2>1. /\ xpc[t] = "activate" /\ t \in Registering /\ t \in Activating /\ held[t] \in Samples
          /\ objects' = objects \cup {held[t]} /\ UNCHANGED <<loan, active>>
          /\ \E w \in {"offer", "hold"} : xpc' = [xpc EXCEPT ![t] = w]
        BY <1>3 DEF Activate, Registering, Activating
    <2>2. Registering = {t} /\ Activating = {t}
        BY <2>1, OneRegisters
    <2>3. Registering' = {} /\ Activating' = {}
        <3>1. Registering' = Registering \ {t} /\ Activating' = Activating \ {t}
            BY <2>1, RegisteringStep DEF Places
        <3> QED BY <3>1, <2>2
    <2>4. active' >= Cardinality(objects') + (IF Activating' = {} THEN 0 ELSE 1)
        <3>1. IsFiniteSet(objects) /\ Cardinality(objects) \in Nat
            BY FiniteSamples
        <3>2. active >= Cardinality(objects) + 1
            BY <2>2 DEF LoanInv
        <3>3. Cardinality(objects') <= Cardinality(objects) + 1 /\ Cardinality(objects') \in Nat
            <4>1. Cardinality(objects') = IF held[t] \in objects THEN Cardinality(objects)
                                          ELSE Cardinality(objects) + 1
                BY <2>1, <3>1, FS_AddElement
            <4> QED BY <3>1, <4>1
        <3> QED BY <2>1, <2>3, <3>1, <3>2, <3>3
    <2>5. \A l \in Samples : loan'[l] = "held" => l \in objects'
        BY <2>1, <2>2 DEF LoanInv
    <2> QED BY <1>1, <2>1, <2>3, <2>4, <2>5 DEF LoanInv
<1>4. CASE BeginReturn(t) \/ EndReturn(t)
    <2>1. /\ xpc[t] \in {"return", "native"} /\ lock' = lock
          /\ UNCHANGED loans \/ \E l : Returned(l)
          /\ \E w \in {"native", "idle"} : xpc' = [xpc EXCEPT ![t] = w]
          /\ \A s \in Threads \ {t} : held'[s] = held[s]
        BY <1>4 DEF BeginReturn, EndReturn
    <2>2. t \notin Registering /\ t \notin Activating
        BY <2>1 DEF Registering, Activating
    <2>3. Registering' = Registering /\ Activating' = Activating
        <3>1. Registering' = Registering \ {t} /\ Activating' = Activating \ {t}
            BY <2>1, RegisteringStep DEF Places
        <3> QED BY <3>1, <2>2
    <2>4. \A s \in Registering : s \in Threads /\ s # t
        BY <2>2 DEF Registering
    <2> QED BY <1>1, <2>1, <2>3, <2>4, LoansQuiet
<1> QED BY <1>2, <1>3, <1>4 DEF LoanStep

LEMMA ExecutorKeepsLoans ==
    ASSUME TypeOK, LoanInv, NEW x \in Executors, ExecutorStep(x)
    PROVE  LoanInv'
<1> USE Types
<1>1. x \in Threads /\ Turns \in Nat
    BY DEF Threads, Turns
<1>2. CASE TakeLoan(x) /\ Valid(Taken(Turns)) # {}
    <2>1. /\ read + 1 \in Samples /\ lock = None /\ lock' = x
          /\ held' = [held EXCEPT ![x] = read + 1] /\ loan' = [loan EXCEPT ![read + 1] = "held"]
          /\ xpc' = [xpc EXCEPT ![x] = "register"]
          /\ UNCHANGED <<active, objects, destroyed, deleted, dpc>>
        BY <1>1, <1>2, TakeTypes DEF TakeLoan, entity
    <2>2. ~deleted
        <3>1. Unread # {}
            <4>1. Taken(Turns) \subseteq Unread
                <5>1. UpTo(Turns) \in Nat /\ UpTo(Turns) <= arrived
                    <6>1. UpTo(Turns) \in read..arrived
                        BY <1>1, TakeTypes
                    <6> QED BY <6>1
                <5> QED BY <5>1 DEF Taken, Unread
            <4> QED BY <1>2, <4>1 DEF Valid
        <3> QED BY <3>1 DEF LoanInv
    <2> QED BY <1>1, <2>1, <2>2, LoanTaken
<1>3. CASE \/ TakeLoan(x) /\ Valid(Taken(Turns)) = {}
           \/ TakeCopies(x) \/ CheckClosed(x) \/ TurnsUsed(x) \/ Offer(x) \/ Finish(x) \/ Requeue(x)
           \/ PopItem(x) \/ BeginCall(x) \/ EndCall(x)
    <2>1. UNCHANGED <<destroyed, deleted, dpc, lock>>
        BY <1>3 DEF TakeLoan, TakeCopies, CheckClosed, TurnsUsed, Offer, Finish, Requeue, PopItem,
               BeginCall, EndCall, entity
    <2>2. xpc[x] \in {"take", "drain", "offer", "finish", "requeue", "idle", "call", "user"}
        BY <1>3 DEF TakeLoan, TakeCopies, CheckClosed, TurnsUsed, Offer, Finish, Requeue, PopItem,
               BeginCall, EndCall
    <2>3. \E w \in {"finish", "take", "offer", "idle", "requeue", "drain", "call", "return", "user"} :
              xpc' = [xpc EXCEPT ![x] = w]
        BY <1>3 DEF TakeLoan, TakeCopies, CheckClosed, TurnsUsed, Offer, Finish, Requeue, PopItem,
               BeginCall, EndCall, AfterOffer
    <2>4. \A s \in Threads \ {x} : held'[s] = held[s]
        BY <1>3 DEF TakeLoan, TakeCopies, CheckClosed, TurnsUsed, Offer, Finish, Requeue, PopItem,
               BeginCall, EndCall, drain
    <2>5. UNCHANGED loans \/ \E l : Returned(l)
        BY <1>3 DEF TakeLoan, TakeCopies, CheckClosed, TurnsUsed, Offer, Finish, Requeue, PopItem,
               BeginCall, EndCall, loans
    <2>6. Unread = {} => Unread' = {}
        <3>1. CASE TakeLoan(x)
            BY <1>1, <3>1, TakeEmpties DEF TakeLoan
        <3>2. CASE TakeCopies(x)
            BY <3>2, TakeEmpties DEF TakeCopies
        <3>3. CASE cache' = cache
            BY <3>3 DEF cache, Unread
        <3> QED BY <1>3, <3>1, <3>2, <3>3 DEF CheckClosed, TurnsUsed, Offer, Finish, Requeue, PopItem,
               BeginCall, EndCall
    <2>7. x \notin Registering /\ x \notin Activating
        BY <2>2 DEF Registering, Activating
    <2>8. Registering' = Registering /\ Activating' = Activating
        <3>1. Registering' = Registering \ {x} /\ Activating' = Activating \ {x}
            BY <1>1, <2>3, RegisteringStep DEF Places
        <3> QED BY <3>1, <2>7
    <2>9. \A s \in Registering : s \in Threads /\ s # x
        BY <2>7 DEF Registering
    <2> QED BY <2>1, <2>4, <2>5, <2>6, <2>8, <2>9, LoansQuiet
<1> QED BY <1>1, <1>2, <1>3, LoanKeepsLoans DEF ExecutorStep, DrainStep

LEMMA UserKeepsLoans ==
    ASSUME TypeOK, LoanInv, NEW u \in Users, UserStep(u)
    PROVE  LoanInv'
<1> USE Types
<1>1. u \in Threads
    BY DEF Threads
<1>2. CASE PollLoan(u)
    <2>1. ~destroyed /\ ~deleted
        BY <1>2 DEF PollLoan, LoanInv
    <2>2. read + 1 \in Samples
        BY <1>2 DEF PollLoan, Unread, Samples
    <2> QED BY <1>1, <1>2, <2>1, <2>2, LoanTaken DEF PollLoan, entity
<1>3. CASE PollCopies(u)
    <2>1. UNCHANGED <<loans, held, lock, xpc, destroyed, deleted, dpc>> /\ ~deleted
        BY <1>3 DEF PollCopies, entity, drain, LoanInv
    <2>2. Registering' = Registering /\ Activating' = Activating
        BY <2>1 DEF Registering, Activating
    <2> QED BY <2>1, <2>2, LoansQuiet
<1>4. CASE UserReturns(u)
    <2>1. /\ UNCHANGED <<loans, held, lock, destroyed, deleted, dpc>> /\ Unread' = Unread
          /\ xpc[u] = "hold" /\ xpc' = [xpc EXCEPT ![u] = "return"]
        BY <1>4 DEF UserReturns, entity, drain, cache, Unread
    <2>2. u \notin Registering /\ u \notin Activating
        BY <2>1 DEF Registering, Activating
    <2>3. Registering' = Registering /\ Activating' = Activating
        <3>1. Registering' = Registering \ {u} /\ Activating' = Activating \ {u}
            BY <1>1, <2>1, RegisteringStep DEF Places
        <3> QED BY <3>1, <2>2
    <2> QED BY <2>1, <2>3, LoansQuiet
<1> QED BY <1>2, <1>3, <1>4 DEF UserStep

LEMMA DestroyKeepsLoans ==
    ASSUME Prompt, TypeOK, LoanInv, NEW d \in Destroyers, Destroy(d) \/ DestroyStep(d)
    PROVE  LoanInv'
<1> USE Types
<1>1. UNCHANGED <<xpc, held, lock>> /\ Registering' = Registering /\ Activating' = Activating
    BY DEF Destroy, DestroyStep, Close, LoansAreBack, LoanTimeout, DeleteReader, drain,
           Registering, Activating
<1>2. CASE Destroy(d)
    <2>1. /\ UNCHANGED <<loans, deleted>> /\ Unread' = Unread /\ destroyed'
          /\ \E w \in {"done", "close"} : dpc' = [dpc EXCEPT ![d] = w]
        BY <1>2 DEF Destroy, cache, Unread
    <2> QED BY <1>1, <2>1, LoansQuiet
<1>3. CASE Close(d) \/ LoansAreBack(d)
    <2>1. /\ UNCHANGED <<loans, deleted, destroyed>> /\ Unread' = Unread
          /\ dpc[d] # "idle"
          /\ \/ dpc' = [dpc EXCEPT ![d] = "wait"]
             \/ active = 0 /\ dpc' = [dpc EXCEPT ![d] = "delete"]
        BY <1>3 DEF Close, LoansAreBack, cache, entity, Unread
    <2>2. destroyed
        BY <2>1 DEF LoanInv
    <2> QED BY <1>1, <2>1, <2>2, LoansQuiet
<1>4. CASE LoanTimeout(d)
    <2>1. /\ active' = 0 /\ objects' = {} /\ Activating = {} /\ UNCHANGED <<destroyed, deleted>>
          /\ dpc[d] = "wait" /\ Unread' = Unread
        BY <1>4 DEF LoanTimeout, Activating, entity, cache, Unread
    <2>2. \A l \in Samples : loan'[l] = "held" => loan[l] = "held" /\ l \notin objects
        BY <1>4 DEF LoanTimeout
    <2>3. destroyed
        BY <2>1 DEF LoanInv
    <2>4. \A l \in Samples : loan'[l] = "held" => \E t \in Registering' : held'[t] = l
        BY <1>1, <2>2 DEF LoanInv
    <2>5. active' >= Cardinality(objects') + (IF Activating' = {} THEN 0 ELSE 1)
        BY <1>1, <2>1, FS_EmptySet
    <2> QED BY <1>1, <2>1, <2>3, <2>4, <2>5 DEF LoanInv
<1>5. CASE DeleteReader(d)
    <2>1. /\ dpc[d] = "delete" /\ lock = None /\ deleted' /\ read' = arrived /\ arrived' = arrived
          /\ UNCHANGED <<destroyed, loan, active, objects>> /\ dpc' = [dpc EXCEPT ![d] = "done"]
        BY <1>5 DEF DeleteReader, loans
    <2>2. active = 0 /\ destroyed /\ Registering = {}
        BY <2>1, OneRegisters DEF LoanInv
    <2>3. Unread' = {}
        BY <2>1 DEF Unread
    <2> QED BY <1>1, <2>1, <2>2, <2>3 DEF LoanInv
<1> QED BY <1>2, <1>3, <1>4, <1>5 DEF DestroyStep

\* If destroy's time limit does not end in the middle of a thread's registration,
\* no loan is out when the reader is deleted, for any threads, loans and drops
\* (code: _register_loan's refusal, the wait for _active_loans in destroy, and
\* the returns that take a loan out of the set and count it down).
THEOREM NoLoanHolds ==
    ASSUME Prompt
    PROVE  Spec => []NoLoanAtDeletion
<1>1. Init => LoanInv
    <2> SUFFICES ASSUME Init PROVE LoanInv
        OBVIOUS
    <2>1. Registering = {} /\ Activating = {} /\ Cardinality(objects) = 0
        BY FS_EmptySet DEF Init, Registering, Activating
    <2> QED BY <2>1 DEF Init, LoanInv
<1>2. TypeOK /\ LoanInv /\ [Next]_vars => LoanInv'
    <2> SUFFICES ASSUME TypeOK, LoanInv, [Next]_vars PROVE LoanInv'
        OBVIOUS
    <2>1. ASSUME NEW r \in Receivers, Arrive(r) \/ ReceiverStep(r) PROVE LoanInv'
        <3>1. /\ UNCHANGED <<loans, held, lock, xpc, destroyed, deleted, dpc>>
              /\ Unread' = Unread \/ ~deleted
            BY <2>1 DEF Arrive, ReceiverStep, OnDataAvailable, ReceiverEnqueues, entity, drain, cache, Unread
        <3>2. Registering' = Registering /\ Activating' = Activating
            BY <3>1 DEF Registering, Activating
        <3> QED BY <3>1, <3>2, LoansQuiet
    <2>2. CASE \E x \in Executors : ExecutorStep(x)
        BY <2>2, ExecutorKeepsLoans
    <2>3. CASE \E u \in Users : UserStep(u)
        BY <2>3, UserKeepsLoans
    <2>4. CASE \E d \in Destroyers : Destroy(d) \/ DestroyStep(d)
        BY <2>4, DestroyKeepsLoans
    <2>5. CASE DropOldest \/ DropHook \/ UNCHANGED vars
        <3>1. /\ UNCHANGED <<held, lock, xpc, destroyed, deleted, dpc>> /\ Unread' = Unread
              /\ UNCHANGED loans \/ \E l : Returned(l)
            BY <2>5 DEF DropOldest, DropHook, vars, entity, drain, cache, Unread
        <3>2. Registering' = Registering /\ Activating' = Activating
            BY <3>1 DEF Registering, Activating
        <3> QED BY <3>1, <3>2, LoansQuiet
    <2>6. ASSUME NEW t \in Threads, LoanStep(t) PROVE LoanInv'
        BY <2>6, LoanKeepsLoans
    <2> QED BY <2>1, <2>2, <2>3, <2>4, <2>5, <2>6 DEF Next, Threads
<1>3. TypeOK /\ LoanInv => NoLoanAtDeletion
    <2> SUFFICES ASSUME TypeOK, LoanInv, deleted, NEW l \in Samples, loan[l] = "held" PROVE FALSE
        BY DEF NoLoanAtDeletion
    <2>1. active = 0 /\ Registering = {} /\ l \in objects
        BY DEF LoanInv
    <2>2. Cardinality(objects) = 0
        <3>1. active >= Cardinality(objects) + (IF Activating = {} THEN 0 ELSE 1)
            BY DEF LoanInv
        <3>2. Cardinality(objects) \in Nat
            BY Types, FiniteSamples
        <3> QED BY <2>1, <3>1, <3>2
    <2>3. objects = {}
        BY <2>2, Types, FiniteSamples, FS_EmptySet
    <2> QED BY <2>1, <2>3
<1> QED BY <1>1, <1>2, <1>3, TypeCorrect, PTL DEF Spec
-----------------------------------------------------------------------------
(* The side channel.                                                         *)

Sent == [id : Ids, payload : BOOLEAN]

\* The head of a topic is a message, and what is behind it is a topic.
LEMMA TakenFirst ==
    ASSUME NEW S, NEW s \in Seq(S), s # <<>>
    PROVE  Head(s) \in S /\ Tail(s) \in Seq(S)
    OBVIOUS

\* Where a message goes without its payload, a count that is right is of readers
\* that are not all matched, or no plain subscriber is there.
LEMMA SignalTells ==
    ASSUME ChannelTypeOK, SignalOnly, plain, registered \subseteq joined
    PROVE  Locals # count
<1>1. registered \in SUBSET Readers /\ joined \in SUBSET Readers /\ IsFiniteSet(Readers)
    BY SideChannelAssumption DEF ChannelTypeOK
<1>2. IsFiniteSet(joined) /\ IsFiniteSet(registered)
    BY <1>1, FS_Subset
<1>3. Cardinality(registered) <= Cardinality(joined)
    BY <1>1, <1>2, FS_Subset
<1>4. Cardinality(registered) \in Nat /\ Cardinality(joined) \in Nat
    BY <1>2, FS_CardinalityType
<1>5. Matched = Cardinality(joined) + 1
    BY DEF Matched
<1>6. ~(Matched > count)
    BY DEF SignalOnly
<1>7. count \in Nat
    BY DEF ChannelTypeOK
<1> QED BY <1>3, <1>4, <1>5, <1>6, <1>7 DEF Locals

\* The publisher is at a message from the first on, and has one while it exports it.
ChannelInv ==
    ChannelTypeOK /\ next \in Nat \ {0} /\ (ppc \in {"announce", "send"} => next \in Ids)

LEMMA ChannelStart == ChannelInit => ChannelInv
<1> SUFFICES ASSUME ChannelInit PROVE ChannelInv
    OBVIOUS
<1>1. Messages \in Nat /\ 0 \notin Ids
    BY SideChannelAssumption DEF Ids
<1>2. AsSent \in [Ids -> Ids \cup {Empty}]
    BY DEF AsSent
<1>3. /\ found \in [Readers -> [Ids -> Ids \cup {Empty}]] /\ gotPlain \in [Ids -> Ids \cup {Empty}]
    BY <1>2 DEF ChannelInit
<1>4. <<>> \in Seq(Ids) /\ <<>> \in Seq(Sent)
    BY EmptySeq
<1>5. /\ keep \in Seq(Ids) /\ metadata \in [Readers -> Seq(Ids)]
      /\ topic \in [Readers -> Seq([id : Ids, payload : BOOLEAN])]
    BY <1>4 DEF ChannelInit, Sent
<1>6. /\ {live, registered, joined} \subseteq SUBSET Readers /\ plain \in BOOLEAN
      /\ open \subseteq Ids /\ file \in Ids \cup {NoMetadata}
      /\ latest \in [Readers -> Ids \cup {NoMetadata}]
    BY DEF ChannelInit
<1>7. count \in Nat /\ next \in Nat \ {0} /\ ppc = "idle"
    BY DEF ChannelInit
<1> QED BY <1>3, <1>5, <1>6, <1>7 DEF ChannelInv, ChannelTypeOK

\* Announce adds the message to what some readers have yet to read of the metadata,
\* and to the kept blocks, of which the oldest may go.
LEMMA Announcing ==
    ASSUME ChannelInv, Announce
    PROVE  /\ next \in Ids /\ ppc = "announce" /\ ppc' = "send"
           /\ UNCHANGED <<listeners, count, next, file, topic, latest, found, gotPlain>>
           /\ \A r \in Readers : metadata'[r] \in {metadata[r], Append(metadata[r], next)}
           /\ metadata' \in [Readers -> Seq(Ids)]
           /\ \/ Len(keep) + 1 <= Keepalive /\ keep' = Append(keep, next) /\ open' = open
              \/ /\ Len(keep) + 1 > Keepalive /\ keep' = Tail(Append(keep, next))
                 /\ open' = open \ {Head(Append(keep, next))}
<1>1. next \in Ids /\ ppc = "announce" /\ ppc' = "send"
    BY DEF Announce, ChannelInv
<1>2. PICK told \in SUBSET live :
        metadata' = [r \in Readers |-> IF r \in told THEN Append(metadata[r], next) ELSE metadata[r]]
    BY DEF Announce
<1>3. metadata \in [Readers -> Seq(Ids)] /\ keep \in Seq(Ids)
    BY DEF ChannelInv, ChannelTypeOK
<1>4. ASSUME NEW r \in Readers
      PROVE  metadata'[r] \in {metadata[r], Append(metadata[r], next)} /\ metadata'[r] \in Seq(Ids)
    <2>1. metadata[r] \in Seq(Ids)
        BY <1>3
    <2>2. Append(metadata[r], next) \in Seq(Ids)
        BY <1>1, <2>1, AppendProperties
    <2> QED BY <1>2, <2>1, <2>2
<1>5. metadata' \in [Readers -> Seq(Ids)]
    BY <1>2, <1>4
<1>6. Len(Append(keep, next)) = Len(keep) + 1 /\ Len(keep) \in Nat
    BY <1>1, <1>3, AppendProperties, LenProperties
<1> DEFINE kept == Append(keep, next)
<1>7. IF Len(kept) > Keepalive THEN keep' = Tail(kept) /\ open' = open \ {Head(kept)}
      ELSE keep' = kept /\ UNCHANGED open
    BY DEF Announce
<1> HIDE DEF kept
<1>8. Keepalive \in Nat
    BY SideChannelAssumption
<1>9. Len(kept) = Len(keep) + 1
    BY <1>6 DEF kept
<1>10. \/ Len(keep) + 1 <= Keepalive /\ keep' = kept /\ open' = open
       \/ Len(keep) + 1 > Keepalive /\ keep' = Tail(kept) /\ open' = open \ {Head(kept)}
    BY <1>6, <1>7, <1>8, <1>9
<1>11. UNCHANGED <<listeners, count, next, file, topic, latest, found, gotPlain>>
    BY DEF Announce
<1> QED BY <1>1, <1>4, <1>5, <1>10, <1>11 DEF kept

\* Send adds the message to what the matched readers have yet to read, without its
\* payload only if its block is open and the comparison says so.
LEMMA Sending ==
    ASSUME ChannelInv, Send
    PROVE  /\ next \in Ids /\ next' = next + 1 /\ ppc' = "idle"
           /\ UNCHANGED <<listeners, count, blocks, metadata, latest, found>>
           /\ \E sample \in Sent :
                /\ sample.payload \/ (next \in open /\ SignalOnly)
                /\ topic' \in [Readers -> Seq(Sent)]
                /\ \A r \in Readers : topic'[r] \in {topic[r], Append(topic[r], sample)}
           /\ gotPlain' \in [Ids -> Ids \cup {Empty}]
           /\ \A m \in Ids : gotPlain'[m] = Empty /\ gotPlain[m] = m => SignalOnly /\ plain
<1> DEFINE signal == next \in open /\ SignalOnly
           sample == [id |-> next, payload |-> ~signal]
<1>1. next \in Ids /\ next' = next + 1 /\ ppc' = "idle"
    BY DEF Send, ChannelInv
<1>2. sample \in Sent /\ sample.payload = ~signal
    BY <1>1 DEF Sent
<1>3. topic' = [r \in Readers |-> IF r \in live \cap joined THEN Append(topic[r], sample) ELSE topic[r]]
    BY DEF Send
<1>4. gotPlain' = IF plain THEN [gotPlain EXCEPT ![next] = IF signal THEN Empty ELSE next] ELSE gotPlain
    BY DEF Send
<1>e. Empty \notin Ids
    BY DEF Empty, Ids
<1>5. topic \in [Readers -> Seq(Sent)] /\ gotPlain \in [Ids -> Ids \cup {Empty}] /\ Empty \notin Ids
    BY <1>e DEF ChannelInv, ChannelTypeOK, Sent
<1>6. sample.payload \/ (next \in open /\ SignalOnly)
    BY <1>2
<1>7. ASSUME NEW m \in Ids, gotPlain'[m] = Empty, gotPlain[m] = m PROVE SignalOnly /\ plain
    <2>1. gotPlain'[m] # gotPlain[m]
        BY <1>5, <1>7
    <2>2. plain
        BY <1>4, <2>1
    <2>3. ~signal => gotPlain'[m] \in {gotPlain[m], next} /\ next \in Ids
        BY <1>1, <1>4, <1>5
    <2>4. signal
        BY <1>5, <1>7, <2>1, <2>3
    <2> QED BY <2>2, <2>4
<1>8. gotPlain' \in [Ids -> Ids \cup {Empty}]
    <2> HIDE DEF signal
    <2> QED BY <1>1, <1>4, <1>5
<1> HIDE DEF sample, signal
<1>9. ASSUME NEW r \in Readers
      PROVE  topic'[r] \in {topic[r], Append(topic[r], sample)} /\ topic'[r] \in Seq(Sent)
    <2>1. topic[r] \in Seq(Sent)
        BY <1>5
    <2>2. Append(topic[r], sample) \in Seq(Sent)
        BY <1>2, <2>1, AppendProperties
    <2> QED BY <1>3, <2>1, <2>2
<1>10. topic' \in [Readers -> Seq(Sent)]
    BY <1>3, <1>9
<1>11. UNCHANGED <<listeners, count, blocks, metadata, latest, found>>
    BY DEF Send, blocks
<1> QED BY <1>1, <1>2, <1>6, <1>7, <1>8, <1>9, <1>10, <1>11

\* Receive takes the first message, and finds a payload that is known and open, or
\* the message's own, or none.
LEMMA Receiving ==
    ASSUME ChannelInv, NEW r \in Readers, Receive(r)
    PROVE  /\ topic[r] \in Seq(Sent) /\ topic[r] # <<>> /\ Head(topic[r]) \in Sent
           /\ topic' = [topic EXCEPT ![r] = Tail(topic[r])] /\ Tail(topic[r]) \in Seq(Sent)
           /\ Known(r) \in Ids \cup {NoMetadata} /\ latest' = [latest EXCEPT ![r] = Known(r)]
           /\ found' \in [Readers -> [Ids -> Ids \cup {Empty}]]
           /\ \A x \in Readers : \A m \in Ids : found[x][m] = m /\ found'[x][m] = Empty =>
                x = r /\ ~Head(topic[r]).payload /\ (Known(r) = NoMetadata \/ Known(r) \notin open)
<1>1. topic \in [Readers -> Seq(Sent)] /\ found \in [Readers -> [Ids -> Ids \cup {Empty}]]
    BY DEF ChannelInv, ChannelTypeOK, Sent
<1>2. topic[r] \in Seq(Sent) /\ topic[r] # <<>>
    BY <1>1 DEF Receive
<1>3. Head(topic[r]) \in Sent /\ Tail(topic[r]) \in Seq(Sent)
    BY <1>2, TakenFirst
<1>4. topic' = [topic EXCEPT ![r] = Tail(topic[r])] /\ latest' = [latest EXCEPT ![r] = Known(r)]
    BY DEF Receive
<1>5. Known(r) \in Ids \cup {NoMetadata}
    BY DEF ChannelInv, ChannelTypeOK, Known
<1> DEFINE sample == Head(topic[r])
           x == IF Matches(r, sample) /\ Known(r) \in open THEN Known(r)
                ELSE IF sample.payload THEN sample.id ELSE Empty
<1>6. found' = [found EXCEPT ![r][sample.id] = x]
    BY DEF Receive
<1>7. sample.id \in Ids /\ sample.payload \in BOOLEAN /\ x \in Ids \cup {Empty} /\ Empty \notin Ids
    BY <1>3, <1>5, SideChannelAssumption DEF Sent, Matches, Ids, Empty
<1>8. x = Empty => ~sample.payload /\ (Known(r) = NoMetadata \/ Known(r) \notin open)
    BY <1>5, <1>7 DEF Matches
<1> HIDE DEF sample, x
<1>9. found' \in [Readers -> [Ids -> Ids \cup {Empty}]]
    BY <1>1, <1>6, <1>7
<1>10. ASSUME NEW y \in Readers, NEW m \in Ids, found[y][m] = m, found'[y][m] = Empty
       PROVE  y = r /\ x = Empty
    BY <1>1, <1>6, <1>7, <1>10
<1> QED BY <1>2, <1>3, <1>4, <1>5, <1>8, <1>9, <1>10 DEF sample

LEMMA ChannelKeepsTypes == ChannelInv /\ [ChannelNext]_channelVars => ChannelInv'
<1> SUFFICES ASSUME ChannelInv, [ChannelNext]_channelVars PROVE ChannelInv'
    OBVIOUS
<1> USE SideChannelAssumption DEF blocks, reader, listeners
<1>1. /\ Messages \in Nat /\ 0 \notin Ids /\ \A n \in Nat \ {0} : n <= Messages => n \in Ids
    BY DEF Ids
<1>2. \A r \in Readers : topic[r] \in Seq(Sent) /\ metadata[r] \in Seq(Ids)
    BY DEF ChannelInv, ChannelTypeOK, Sent
<1>a. live \in SUBSET Readers /\ registered \in SUBSET Readers /\ joined \in SUBSET Readers
    BY DEF ChannelInv, ChannelTypeOK
<1>3. CASE \E r \in Readers : OpenReader(r) \/ RegisterReader(r)
    <2>1. live' \in SUBSET Readers /\ registered' \in SUBSET Readers /\ joined' = joined
        BY <1>a, <1>3 DEF OpenReader, RegisterReader
    <2>2. UNCHANGED <<plain, count, next, ppc, open, keep, file, metadata, topic, latest, found, gotPlain>>
        BY <1>3 DEF OpenReader, RegisterReader
    <2> QED BY <2>1, <2>2 DEF ChannelInv, ChannelTypeOK
<1>4. ASSUME NEW r \in Readers, CloseReader(r) PROVE ChannelInv'
    <2>1. <<>> \in Seq(Ids) /\ <<>> \in Seq([id : Ids, payload : BOOLEAN])
        BY EmptySeq
    <2>2. AsSent \in [Ids -> Ids \cup {Empty}]
        BY DEF AsSent
    <2>3. /\ topic' \in [Readers -> Seq([id : Ids, payload : BOOLEAN])]
          /\ metadata' \in [Readers -> Seq(Ids)] /\ latest' \in [Readers -> Ids \cup {NoMetadata}]
          /\ found' \in [Readers -> [Ids -> Ids \cup {Empty}]]
        BY <1>4, <2>1, <2>2 DEF CloseReader, ChannelInv, ChannelTypeOK
    <2>4. live' \in SUBSET Readers /\ registered' \in SUBSET Readers /\ joined' = joined
        BY <1>a, <1>4 DEF CloseReader
    <2>5. UNCHANGED <<plain, count, next, ppc, open, keep, file, gotPlain>>
        BY <1>4 DEF CloseReader
    <2> QED BY <2>3, <2>4, <2>5 DEF ChannelInv, ChannelTypeOK
<1>5. CASE Match
    <2>1. joined' \in SUBSET Readers /\ plain' \in BOOLEAN
        BY <1>5 DEF Match, ChannelInv, ChannelTypeOK
    <2> QED BY <1>5, <2>1 DEF Match, ChannelInv, ChannelTypeOK
<1>6. CASE Recount
    <2>1. Locals \in Nat
        BY FS_Subset, FS_CardinalityType DEF Locals, ChannelInv, ChannelTypeOK
    <2> QED BY <1>6, <2>1 DEF Recount, ChannelInv, ChannelTypeOK
<1>7. CASE SkipExport
    BY <1>1, <1>7 DEF SkipExport, ChannelInv, ChannelTypeOK
<1>8. CASE Export
    <2>1. next \in Ids
        BY <1>1, <1>8 DEF Export, ChannelInv
    <2> QED BY <1>8, <2>1 DEF Export, ChannelInv, ChannelTypeOK
<1>9. CASE Announce
    <2>1. keep \in Seq(Ids) /\ open \subseteq Ids /\ next \in Ids
        BY <1>9, Announcing DEF ChannelInv, ChannelTypeOK
    <2>2. Append(keep, next) \in Seq(Ids) /\ Append(keep, next) # <<>>
        BY <2>1, AppendProperties
    <2>3. Tail(Append(keep, next)) \in Seq(Ids)
        BY <2>2, TakenFirst
    <2>4. keep' \in Seq(Ids) /\ open' \subseteq Ids
        BY <1>9, <2>1, <2>2, <2>3, Announcing
    <2>5. /\ UNCHANGED <<live, registered, joined, plain, count, next, file, topic, latest, found, gotPlain>>
          /\ metadata' \in [Readers -> Seq(Ids)] /\ ppc' = "send" /\ next \in Ids
        BY <1>9, Announcing
    <2> QED BY <2>4, <2>5 DEF ChannelInv, ChannelTypeOK
<1>10. CASE Send
    <2>1. /\ next \in Ids /\ next' = next + 1 /\ ppc' = "idle"
          /\ UNCHANGED <<live, registered, joined, plain, count, open, keep, file, metadata, latest, found>>
          /\ topic' \in [Readers -> Seq([id : Ids, payload : BOOLEAN])]
          /\ gotPlain' \in [Ids -> Ids \cup {Empty}]
        BY <1>10, Sending DEF Sent
    <2>2. next' \in Nat \ {0}
        BY <2>1 DEF ChannelInv
    <2> QED BY <2>1, <2>2 DEF ChannelInv, ChannelTypeOK
<1>11. CASE Crash
    <2>1. <<>> \in Seq(Ids)
        BY EmptySeq
    <2> QED BY <1>11, <2>1 DEF Crash, ChannelInv, ChannelTypeOK
<1>12. ASSUME NEW r \in Readers, Update(r) PROVE ChannelInv'
    <2>1. Head(metadata[r]) \in Ids /\ Tail(metadata[r]) \in Seq(Ids)
        BY <1>2, <1>12, TakenFirst DEF Update
    <2>2. metadata' \in [Readers -> Seq(Ids)] /\ latest' \in [Readers -> Ids \cup {NoMetadata}]
        BY <1>12, <2>1 DEF Update, ChannelInv, ChannelTypeOK
    <2> QED BY <1>12, <2>2 DEF Update, ChannelInv, ChannelTypeOK
<1>13. ASSUME NEW r \in Readers, Receive(r) PROVE ChannelInv'
    <2>1. /\ topic' = [topic EXCEPT ![r] = Tail(topic[r])] /\ Tail(topic[r]) \in Seq(Sent)
          /\ Known(r) \in Ids \cup {NoMetadata} /\ latest' = [latest EXCEPT ![r] = Known(r)]
          /\ found' \in [Readers -> [Ids -> Ids \cup {Empty}]]
        BY <1>13, Receiving
    <2>2. /\ topic' \in [Readers -> Seq([id : Ids, payload : BOOLEAN])]
          /\ latest' \in [Readers -> Ids \cup {NoMetadata}]
        BY <2>1 DEF ChannelInv, ChannelTypeOK, Sent
    <2>3. UNCHANGED <<live, registered, joined, plain, count, next, ppc, open, keep, file, metadata, gotPlain>>
        BY <1>13 DEF Receive
    <2> QED BY <2>1, <2>2, <2>3 DEF ChannelInv, ChannelTypeOK
<1>14. CASE UNCHANGED channelVars
    BY <1>14 DEF channelVars, ChannelInv, ChannelTypeOK
<1> QED BY <1>3, <1>4, <1>5, <1>6, <1>7, <1>8, <1>9, <1>10, <1>11, <1>12, <1>13, <1>14 DEF ChannelNext

\* ChannelTypeOK: the types of the side channel, for any readers and messages.
THEOREM ChannelTypeCorrect == ChannelSpec => []ChannelTypeOK
<1>1. ChannelInv => ChannelTypeOK
    BY DEF ChannelInv
<1> QED BY <1>1, ChannelStart, ChannelKeepsTypes, PTL DEF ChannelSpec

\* A block that somebody may know of is open, or Keepalive were kept since.
Held(k) == k \in open \/ (keep # <<>> /\ k + Keepalive <= Last(keep))
HeldNext(k) == k \in open' \/ (keep' # <<>> /\ k + Keepalive <= Last(keep'))

\* As long as the publisher lives: its kept blocks are open, of growing messages
\* and no more than it may keep; whatever is known of a block is of one that is
\* held; and before the first there is no message without its payload.
KeptInv ==
    ppc # "dead" =>
      /\ Len(keep) <= Keepalive
      /\ \A i, j \in 1..Len(keep) : i <= j => keep[i] + (j - i) <= keep[j]
      /\ \A i \in 1..Len(keep) : keep[i] \in open /\ keep[i] <= next
      /\ ppc \in {"idle", "announce"} => \A i \in 1..Len(keep) : keep[i] < next
      /\ ppc = "announce" => next \in open /\ file = next
      /\ file # NoMetadata => Held(file)
      /\ \A r \in Readers : latest[r] # NoMetadata => Held(latest[r])
      /\ \A r \in Readers : \A i \in 1..Len(metadata[r]) : Held(metadata[r][i])
      /\ file = NoMetadata =>
           open = {} /\ \A r \in Readers : \A i \in 1..Len(topic[r]) : topic[r][i].payload

\* What is behind the first, and what comes behind the last.
LEMMA Behind ==
    ASSUME NEW S, NEW s \in Seq(S), s # <<>>
    PROVE  /\ Head(s) = s[1] /\ 1 \in 1..Len(s) /\ Len(Tail(s)) = Len(s) - 1 /\ Len(s) \in Nat
           /\ \A i \in 1..Len(Tail(s)) : Tail(s)[i] = s[i + 1] /\ i + 1 \in 1..Len(s)
    OBVIOUS

LEMMA Appended ==
    ASSUME NEW S, NEW s \in Seq(S), NEW x \in S
    PROVE  /\ Append(s, x) \in Seq(S) /\ Append(s, x) # <<>> /\ Len(s) \in Nat
           /\ Len(Append(s, x)) = Len(s) + 1 /\ Append(s, x)[Len(s) + 1] = x
           /\ \A i \in 1..Len(s) : Append(s, x)[i] = s[i]
    BY AppendProperties, LenProperties

\* One more block that is kept.
LEMMA KeptMore ==
    ASSUME ChannelInv, KeptInv, Announce
    PROVE  /\ keep' # <<>> /\ Last(keep') = next /\ Len(keep') <= Keepalive
           /\ \A i, j \in 1..Len(keep') : i <= j => keep'[i] + (j - i) <= keep'[j]
           /\ \A i \in 1..Len(keep') : keep'[i] \in open' /\ keep'[i] <= next
           /\ \A k \in Ids : Held(k) => HeldNext(k)
           /\ next \in Ids
<1> DEFINE kept == Append(keep, next)
           n == Len(keep)
<1>n. Ids \subseteq Nat \ {0}
    BY SideChannelAssumption DEF Ids
<1>1. /\ next \in Ids /\ ppc = "announce" /\ keep \in Seq(Ids) /\ Ids \subseteq Nat \ {0}
      /\ Keepalive \in Nat \ {0}
    BY <1>n, Announcing, SideChannelAssumption DEF ChannelInv, ChannelTypeOK
<1>2. /\ n \in Nat /\ n <= Keepalive /\ next \in open
      /\ \A i, j \in 1..n : i <= j => keep[i] + (j - i) <= keep[j]
      /\ \A i \in 1..n : keep[i] \in open /\ keep[i] < next /\ keep[i] \in Ids
    BY <1>1, LenProperties, ElementOfSeq DEF KeptInv
<1>3. /\ kept \in Seq(Ids) /\ kept # <<>> /\ Len(kept) = n + 1 /\ kept[n + 1] = next
      /\ \A i \in 1..n : kept[i] = keep[i]
    BY <1>1, Appended
<1>g. \A k \in Ids : keep # <<>> /\ k + Keepalive <= Last(keep) => k + Keepalive <= next
    <2> SUFFICES ASSUME NEW k \in Ids, keep # <<>>, k + Keepalive <= Last(keep)
                 PROVE  k + Keepalive <= next
        OBVIOUS
    <2>1. n \in 1..n
        BY <1>1, <1>2, EmptySeq
    <2>2. Last(keep) = keep[n]
        BY DEF Last
    <2>3. keep[n] < next /\ keep[n] \in Nat
        BY <1>1, <1>2, <2>1
    <2> QED BY <1>1, <2>2, <2>3
<1>4. \A i, j \in 1..(n + 1) : i <= j => kept[i] + (j - i) <= kept[j]
    <2> SUFFICES ASSUME NEW i \in 1..(n + 1), NEW j \in 1..(n + 1), i <= j
                 PROVE  kept[i] + (j - i) <= kept[j]
        OBVIOUS
    <2> HIDE DEF kept, n
    <2>1. CASE j \in 1..n
        BY <1>2, <1>3, <2>1
    <2>2. CASE j = n + 1 /\ i = n + 1
        BY <1>1, <1>3, <2>2
    <2>3. CASE j = n + 1 /\ i \in 1..n
        <3>1. keep[i] + (n - i) <= keep[n] /\ keep[n] < next /\ n \in 1..n
            BY <1>2, <2>3
        <3>2. keep[i] \in Nat /\ keep[n] \in Nat /\ next \in Nat /\ kept[i] = keep[i] /\ kept[j] = next
            BY <1>1, <1>2, <1>3, <2>3, <3>1
        <3> QED BY <1>2, <2>3, <3>1, <3>2
    <2> QED BY <1>2, <2>1, <2>2, <2>3
<1>5. \A i \in 1..(n + 1) : kept[i] \in open /\ kept[i] <= next /\ kept[i] \in Ids
    <2> SUFFICES ASSUME NEW i \in 1..(n + 1)
                 PROVE  kept[i] \in open /\ kept[i] <= next /\ kept[i] \in Ids
        OBVIOUS
    <2> HIDE DEF kept, n
    <2>1. CASE i \in 1..n
        <3>1. kept[i] = keep[i] /\ keep[i] \in open /\ keep[i] < next /\ keep[i] \in Ids
            BY <1>2, <1>3, <2>1
        <3>2. keep[i] \in Nat /\ next \in Nat
            BY <1>1, <3>1
        <3> QED BY <3>1, <3>2
    <2>2. CASE i = n + 1
        BY <1>1, <1>2, <1>3, <2>2
    <2> QED BY <1>2, <2>1, <2>2
<1>6. CASE n + 1 <= Keepalive /\ keep' = kept /\ open' = open
    <2>1. Last(kept) = next
        BY <1>3 DEF Last
    <2> HIDE DEF kept, n
    <2> QED BY <1>1, <1>3, <1>4, <1>5, <1>6, <1>g, <2>1 DEF Held, HeldNext
<1>7. CASE n + 1 > Keepalive /\ keep' = Tail(kept) /\ open' = open \ {Head(kept)}
    <2> HIDE DEF kept, n
    <2>1. /\ n = Keepalive /\ Head(kept) = kept[1] /\ 1 \in 1..(n + 1) /\ Len(keep') = n
          /\ \A i \in 1..n : keep'[i] = kept[i + 1] /\ i + 1 \in 1..(n + 1)
        BY <1>1, <1>2, <1>3, <1>7, Behind
    <2>2. keep' # <<>> /\ Last(keep') = next
        BY <1>1, <1>3, <2>1 DEF Last
    <2>3. ASSUME NEW i \in 1..n PROVE keep'[i] \in open' /\ keep'[i] <= next
        <3>0. 1 <= i + 1 /\ (i + 1) - 1 = i /\ i \in Nat \ {0} /\ i + 1 \in 1..(n + 1)
            BY <1>2, <2>1
        <3>1. kept[1] + i <= kept[i + 1] /\ kept[1] \in Nat
            <4>1. kept[1] + ((i + 1) - 1) <= kept[i + 1]
                BY <1>4, <2>1, <3>0
            <4>2. kept[1] \in Ids
                BY <1>5, <2>1
            <4> QED BY <1>1, <3>0, <4>1, <4>2
        <3>2. kept[i + 1] # kept[1]
            BY <1>1, <3>0, <3>1
        <3> QED BY <1>5, <1>7, <2>1, <3>0, <3>2
    <2>4. ASSUME NEW i \in 1..n, NEW j \in 1..n, i <= j PROVE keep'[i] + (j - i) <= keep'[j]
        <3>1. kept[i + 1] + ((j + 1) - (i + 1)) <= kept[j + 1]
            BY <1>2, <1>4, <2>1, <2>4
        <3>2. (j + 1) - (i + 1) = j - i
            BY <1>2
        <3> QED BY <2>1, <3>1, <3>2
    <2>5. kept[1] + Keepalive <= next
        <3>1. kept[1] + ((n + 1) - 1) <= kept[n + 1]
            BY <1>2, <1>4, <2>1
        <3>2. (n + 1) - 1 = n
            BY <1>2
        <3> QED BY <1>3, <2>1, <3>1, <3>2
    <2>6. ASSUME NEW k \in Ids, Held(k) PROVE HeldNext(k)
        <3>1. CASE k \in open
            BY <1>7, <2>1, <2>2, <2>5, <3>1 DEF Held, HeldNext
        <3>2. CASE k \notin open
            BY <1>g, <2>2, <2>6, <3>2 DEF Held, HeldNext
        <3> QED BY <3>1, <3>2
    <2> QED BY <1>1, <2>1, <2>2, <2>3, <2>4, <2>6
<1> QED BY <1>6, <1>7, Announcing

LEMMA KeptStep == ChannelInv /\ KeptInv /\ [ChannelNext]_channelVars => KeptInv'
<1> SUFFICES ASSUME ChannelInv, KeptInv, [ChannelNext]_channelVars, ppc' # "dead" PROVE KeptInv'
    BY DEF KeptInv
<1> USE DEF blocks, reader, listeners
<1>0. ppc # "dead"
    BY DEF ChannelNext, Match, Recount, SkipExport, Export, Announce, Send, Crash, OpenReader,
           RegisterReader, CloseReader, Update, Receive, channelVars
<1>t. /\ \A r \in Readers : topic[r] \in Seq(Sent) /\ metadata[r] \in Seq(Ids)
      /\ Ids \subseteq Nat \ {0} /\ NoMetadata \notin Ids
      /\ keep \in Seq(Ids) /\ file \in Ids \cup {NoMetadata} /\ latest \in [Readers -> Ids \cup {NoMetadata}]
      /\ metadata \in [Readers -> Seq(Ids)] /\ topic \in [Readers -> Seq(Sent)]
    <2>1. Ids \subseteq Nat \ {0} /\ NoMetadata \notin Ids
        BY SideChannelAssumption DEF Ids
    <2> QED BY <2>1 DEF ChannelInv, ChannelTypeOK, Sent
<1>i. /\ Len(keep) <= Keepalive
      /\ \A i, j \in 1..Len(keep) : i <= j => keep[i] + (j - i) <= keep[j]
      /\ \A i \in 1..Len(keep) : keep[i] \in open /\ keep[i] <= next
      /\ ppc \in {"idle", "announce"} => \A i \in 1..Len(keep) : keep[i] < next
      /\ ppc = "announce" => next \in open /\ file = next
      /\ file # NoMetadata => Held(file)
      /\ \A r \in Readers : latest[r] # NoMetadata => Held(latest[r])
      /\ \A r \in Readers : \A i \in 1..Len(metadata[r]) : Held(metadata[r][i])
      /\ file = NoMetadata =>
           open = {} /\ \A r \in Readers : \A i \in 1..Len(topic[r]) : topic[r][i].payload
    BY <1>0 DEF KeptInv
\* What is the same for a step of the readers.
<1>r. ASSUME UNCHANGED <<next, ppc, open, keep, file>>,
             \A r \in Readers : latest'[r] # NoMetadata => Held(latest'[r]),
             \A r \in Readers : \A i \in 1..Len(metadata'[r]) : Held(metadata'[r][i]),
             file = NoMetadata => \A r \in Readers : \A i \in 1..Len(topic'[r]) : topic'[r][i].payload
      PROVE  KeptInv'
    BY <1>i, <1>r DEF KeptInv, Held
<1>u. ASSUME UNCHANGED <<next, ppc, open, keep, file, latest, metadata, topic>> PROVE KeptInv'
    BY <1>i, <1>r, <1>u
<1>1. CASE Match \/ Recount \/ \E r \in Readers : OpenReader(r) \/ RegisterReader(r)
    BY <1>1, <1>u DEF Match, Recount, OpenReader, RegisterReader
<1>2. ASSUME NEW r \in Readers, CloseReader(r) PROVE KeptInv'
    <2>1. \A x \in Readers : /\ topic'[x] = topic[x] \/ topic'[x] = <<>>
                             /\ metadata'[x] = metadata[x] \/ metadata'[x] = <<>>
                             /\ latest'[x] = latest[x] \/ latest'[x] = NoMetadata
        BY <1>2, <1>t DEF CloseReader
    <2>2. \A i \in 1..Len(<<>>) : FALSE
        OBVIOUS
    <2>3. UNCHANGED <<next, ppc, open, keep, file>>
        BY <1>2 DEF CloseReader
    <2>4. \A x \in Readers : \A i \in 1..Len(metadata'[x]) : Held(metadata'[x][i])
        BY <1>i, <2>1, <2>2
    <2>5. file = NoMetadata => \A x \in Readers : \A i \in 1..Len(topic'[x]) : topic'[x][i].payload
        BY <1>i, <2>1, <2>2
    <2> QED BY <1>i, <1>r, <2>1, <2>3, <2>4, <2>5
<1>3. CASE SkipExport
    BY <1>3, <1>i DEF SkipExport, KeptInv, Held
<1>4. CASE Export
    <2>1. /\ ppc = "idle" /\ ppc' = "announce" /\ open' = open \cup {next} /\ file' = next
          /\ UNCHANGED <<next, keep, latest, metadata, topic>>
        BY <1>4 DEF Export
    <2>2. next \in Ids /\ next # NoMetadata
        BY <1>4, <1>t, ChannelKeepsTypes, <2>1 DEF ChannelInv
    <2>3. \A k : Held(k) => HeldNext(k)
        BY <2>1 DEF Held, HeldNext
    <2>4. HeldNext(next)
        BY <2>1 DEF HeldNext
    <2> QED BY <1>i, <2>1, <2>2, <2>3, <2>4 DEF KeptInv, Held, HeldNext
<1>5. CASE Announce
    <2>1. /\ keep' # <<>> /\ Last(keep') = next /\ Len(keep') <= Keepalive
          /\ \A i, j \in 1..Len(keep') : i <= j => keep'[i] + (j - i) <= keep'[j]
          /\ \A i \in 1..Len(keep') : keep'[i] \in open' /\ keep'[i] <= next
          /\ \A k \in Ids : Held(k) => HeldNext(k)
          /\ next \in Ids
        BY <1>5, KeptMore
    <2>2. /\ ppc = "announce" /\ ppc' = "send" /\ UNCHANGED <<next, file, topic, latest>>
          /\ \A r \in Readers : metadata'[r] \in {metadata[r], Append(metadata[r], next)}
        BY <1>5, Announcing
    <2>3. file = next /\ Held(next) /\ file # NoMetadata
        BY <1>i, <1>t, <2>1, <2>2 DEF Held
    <2>4. ASSUME NEW r \in Readers, NEW i \in 1..Len(metadata'[r]) PROVE HeldNext(metadata'[r][i])
        <3>1. CASE metadata'[r] = metadata[r]
            <4>1. metadata[r][i] \in Ids
                BY <1>t, <3>1, ElementOfSeq
            <4> QED BY <1>i, <2>1, <3>1, <4>1
        <3>2. CASE metadata'[r] = Append(metadata[r], next)
            <4>1. /\ Len(metadata'[r]) = Len(metadata[r]) + 1 /\ Len(metadata[r]) \in Nat
                  /\ metadata'[r][Len(metadata[r]) + 1] = next
                  /\ \A j \in 1..Len(metadata[r]) : metadata'[r][j] = metadata[r][j]
                BY <1>t, <2>1, <3>2, Appended
            <4>2. CASE i = Len(metadata[r]) + 1
                BY <2>1, <2>3, <4>1, <4>2
            <4>3. CASE i \in 1..Len(metadata[r])
                <5>1. metadata[r][i] \in Ids
                    BY <1>t, <4>3, ElementOfSeq
                <5> QED BY <1>i, <2>1, <4>1, <4>3, <5>1
            <4> QED BY <4>1, <4>2, <4>3
        <3> QED BY <2>2, <3>1, <3>2
    <2>5. \A r \in Readers : latest'[r] # NoMetadata => HeldNext(latest'[r])
        BY <1>i, <1>t, <2>1, <2>2
    <2>6. file' # NoMetadata /\ HeldNext(file')
        BY <2>1, <2>2, <2>3
    <2> QED BY <2>1, <2>2, <2>4, <2>5, <2>6 DEF KeptInv, Held, HeldNext
<1>6. CASE Send
    <2>1. /\ next \in Ids /\ next' = next + 1 /\ ppc' = "idle"
          /\ UNCHANGED <<open, keep, file, metadata, latest>>
        BY <1>6, Sending
    <2>2. PICK sample \in Sent :
            /\ sample.payload \/ (next \in open /\ SignalOnly)
            /\ \A r \in Readers : topic'[r] \in {topic[r], Append(topic[r], sample)}
        BY <1>6, Sending
    <2>3. \A i \in 1..Len(keep) : keep[i] < next' /\ keep[i] <= next'
        <3>1. \A i \in 1..Len(keep) : keep[i] \in Nat
            BY <1>t, ElementOfSeq
        <3> QED BY <1>i, <1>t, <2>1, <3>1
    <2>4. ASSUME file = NoMetadata, NEW r \in Readers, NEW i \in 1..Len(topic'[r])
          PROVE  topic'[r][i].payload
        <3>1. sample.payload
            BY <1>i, <2>2, <2>4
        <3>2. CASE topic'[r] = topic[r]
            BY <1>i, <2>4, <3>2
        <3>3. CASE topic'[r] = Append(topic[r], sample)
            <4>1. /\ Len(topic'[r]) = Len(topic[r]) + 1 /\ Len(topic[r]) \in Nat
                  /\ topic'[r][Len(topic[r]) + 1] = sample
                  /\ \A j \in 1..Len(topic[r]) : topic'[r][j] = topic[r][j]
                BY <1>t, <3>3, Appended
            <4>2. CASE i = Len(topic[r]) + 1
                BY <3>1, <4>1, <4>2
            <4>3. CASE i \in 1..Len(topic[r])
                BY <1>i, <2>4, <4>1, <4>3
            <4> QED BY <4>1, <4>2, <4>3
        <3> QED BY <2>2, <3>2, <3>3
    <2>5. \A k : HeldNext(k) <=> Held(k)
        BY <2>1 DEF Held, HeldNext
    <2> QED BY <1>i, <2>1, <2>3, <2>4, <2>5 DEF KeptInv, Held, HeldNext
<1>7. ASSUME NEW r \in Readers, Update(r) PROVE KeptInv'
    <2>1. /\ metadata[r] # <<>> /\ latest' = [latest EXCEPT ![r] = Head(metadata[r])]
          /\ metadata' = [metadata EXCEPT ![r] = Tail(metadata[r])]
          /\ UNCHANGED <<next, ppc, open, keep, file, topic>>
        BY <1>7 DEF Update
    <2>2. /\ Head(metadata[r]) = metadata[r][1] /\ 1 \in 1..Len(metadata[r])
          /\ \A i \in 1..Len(Tail(metadata[r])) :
               Tail(metadata[r])[i] = metadata[r][i + 1] /\ i + 1 \in 1..Len(metadata[r])
        BY <1>t, <2>1, Behind
    <2>3. \A x \in Readers : \A i \in 1..Len(metadata'[x]) : Held(metadata'[x][i])
        BY <1>i, <1>t, <2>1, <2>2
    <2>4. \A x \in Readers : latest'[x] # NoMetadata => Held(latest'[x])
        BY <1>i, <1>t, <2>1, <2>2
    <2> QED BY <1>i, <1>r, <2>1, <2>3, <2>4
<1>8. ASSUME NEW r \in Readers, Receive(r) PROVE KeptInv'
    <2>1. /\ topic[r] # <<>> /\ topic' = [topic EXCEPT ![r] = Tail(topic[r])]
          /\ latest' = [latest EXCEPT ![r] = Known(r)]
          /\ UNCHANGED <<next, ppc, open, keep, file, metadata>>
        BY <1>8 DEF Receive
    <2>2. \A i \in 1..Len(Tail(topic[r])) :
            Tail(topic[r])[i] = topic[r][i + 1] /\ i + 1 \in 1..Len(topic[r])
        BY <1>t, <2>1, Behind
    <2>3. file = NoMetadata => \A x \in Readers : \A i \in 1..Len(topic'[x]) : topic'[x][i].payload
        BY <1>i, <1>t, <2>1, <2>2
    <2>4. Known(r) # NoMetadata => Held(Known(r))
        BY <1>i DEF Known
    <2>5. \A x \in Readers : latest'[x] # NoMetadata => Held(latest'[x])
        BY <1>i, <1>t, <2>1, <2>4
    <2> QED BY <1>i, <1>r, <2>1, <2>3, <2>5
<1>9. CASE Crash
    BY <1>9 DEF Crash
<1>10. CASE UNCHANGED channelVars
    BY <1>10, <1>u DEF channelVars
<1> QED BY <1>1, <1>2, <1>3, <1>4, <1>5, <1>6, <1>7, <1>8, <1>9, <1>10 DEF ChannelNext

\* PayloadsReach (property of the run pubsub): for any readers, messages, lengths
\* and Keepalive, a plain subscriber misses a payload only while the count is out of
\* date or somebody counted is not matched, and a local reader only when the
\* publisher died or Keepalive blocks have been kept since the one it knows of.
THEOREM PayloadsReachHolds == ChannelSpec => PayloadsReach
<1>1. ChannelInit => KeptInv
    <2> SUFFICES ASSUME ChannelInit PROVE KeptInv
        OBVIOUS
    <2>1. /\ keep = <<>> /\ open = {} /\ file = NoMetadata /\ ppc = "idle"
          /\ \A r \in Readers : latest[r] = NoMetadata /\ metadata[r] = <<>> /\ topic[r] = <<>>
        BY DEF ChannelInit
    <2>2. Len(<<>>) = 0 /\ 1..0 = {} /\ Keepalive \in Nat
        BY SideChannelAssumption
    <2>3. /\ Len(keep) <= Keepalive /\ 1..Len(keep) = {}
          /\ \A r \in Readers : 1..Len(metadata[r]) = {} /\ 1..Len(topic[r]) = {}
        BY <2>1, <2>2
    <2> QED BY <2>1, <2>3 DEF KeptInv
<1> DEFINE Late(r) == Known(r) # NoMetadata /\ keep # <<>> /\ Known(r) + Keepalive <= Last(keep)
           Reach == /\ (\E m \in Ids : gotPlain[m] = m /\ gotPlain'[m] = Empty) =>
                         count # Locals \/ ~(registered \subseteq joined)
                    /\ \A r \in Readers :
                         (\E m \in Ids : found[r][m] = m /\ found'[r][m] = Empty) =>
                           \/ ppc = "dead"
                           \/ Known(r) # NoMetadata /\ keep # <<>> /\ Known(r) + Keepalive <= Last(keep)
<1>2. ChannelInv /\ KeptInv /\ [ChannelNext]_channelVars => [Reach]_channelVars
    <2> SUFFICES ASSUME ChannelInv, KeptInv, ChannelNext PROVE Reach
        OBVIOUS
    <2>1. ASSUME NEW m \in Ids, gotPlain[m] = m, gotPlain'[m] = Empty
          PROVE  count # Locals \/ ~(registered \subseteq joined)
        <3>2. gotPlain' # gotPlain
            BY <2>1 DEF Ids, Empty
        <3>3. Send
            BY <3>2 DEF ChannelNext, Match, Recount, SkipExport, Export, Announce, Crash, OpenReader,
                        RegisterReader, CloseReader, Update, Receive, reader, blocks
        <3>4. SignalOnly /\ plain
            BY <2>1, <3>3, Sending
        <3> QED BY <3>4, SignalTells DEF ChannelInv
    <2>2. ASSUME NEW r \in Readers, NEW m \in Ids, found[r][m] = m, found'[r][m] = Empty
          PROVE  ppc = "dead" \/ Late(r)
        <3>2. m # Empty /\ found' # found
            BY <2>2 DEF Ids, Empty
        <3>3. PICK x \in Readers : CloseReader(x) \/ Receive(x)
            BY <3>2 DEF ChannelNext, Match, Recount, SkipExport, Export, Announce, Send, Crash,
                        OpenReader, RegisterReader, Update, reader, blocks
        <3>4. CASE CloseReader(x)
            <4>1. found' = [found EXCEPT ![x] = AsSent] /\ found \in [Readers -> [Ids -> Ids \cup {Empty}]]
                BY <3>4 DEF CloseReader, ChannelInv, ChannelTypeOK
            <4>2. AsSent[m] = m
                BY DEF AsSent
            <4>3. found'[r] = AsSent \/ found'[r] = found[r]
                BY <4>1
            <4> QED BY <2>2, <3>2, <4>2, <4>3
        <3>5. CASE Receive(x)
            <4>1. /\ x = r /\ ~Head(topic[r]).payload /\ topic[r] \in Seq(Sent) /\ topic[r] # <<>>
                  /\ Known(r) = NoMetadata \/ Known(r) \notin open
                BY <2>2, <3>5, Receiving
            <4> SUFFICES ASSUME ppc # "dead" PROVE Late(r)
                OBVIOUS
            <4>2. ~topic[r][1].payload /\ 1 \in 1..Len(topic[r])
                BY <4>1, Behind
            <4>3. file # NoMetadata
                BY <4>2 DEF KeptInv
            <4>4. Known(r) # NoMetadata
                BY <4>3 DEF Known
            <4>5. Held(Known(r))
                BY <4>3, <4>4 DEF KeptInv, Known
            <4> QED BY <4>1, <4>4, <4>5 DEF Held
        <3> QED BY <3>3, <3>4, <3>5
    <2> QED BY <2>1, <2>2
<1>3. PayloadsReach <=> [][Reach]_channelVars
    BY PTL DEF PayloadsReach
<1> HIDE DEF Reach
<1> QED BY <1>1, <1>2, <1>3, ChannelStart, ChannelKeepsTypes, KeptStep, PTL DEF ChannelSpec

=============================================================================
