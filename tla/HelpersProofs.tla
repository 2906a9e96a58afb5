---------------------------- MODULE HelpersProofs ----------------------------
(* Theorems of the parts beside a node, for any values of their constants.    *)
(*                                                                            *)
(* Publisher (any threads and destroy() calls, either way of publishing): the *)
(* writer is not used once it has been taken.                                 *)
(* Launch (any processes, timers and descriptions): run() leaves no process   *)
(* behind that it knew of.                                                    *)
(* Blocks (any publishing threads, readers and blocks, any length of the      *)
(* table): a block that the publisher keeps can be opened, and none is left   *)
(* when publisher or processes have gone.                                     *)
(* LaunchEnvironment (any variables, values and files): a process finds what  *)
(* the launch file has asked for.                                             *)
(* LaunchScopes (any names, values and descriptions): what is configured in a *)
(* scope ends with it.                                                        *)
(* TransformBuffer (any frames and transforms between them, any threads): a   *)
(* lookup finds the right transform, and a late listener misses none.         *)
EXTENDS
  Publisher, TransformBuffer, Launch, LaunchScopes, LaunchEnvironment, Blocks,
  FiniteSetTheorems, SequenceTheorems, WellFoundedInduction, TLAPS


-----------------------------------------------------------------------------
(* Publisher                                                                 *)

\* The type invariant of the publisher but for its counts and its buffers.
FlagsTypeOK ==
  /\ {destroyed, attached, deleted} \subseteq BOOLEAN
  /\ pc \in [Threads -> {"idle", "using", "write", "release", "leave", "holding",
                         "republish", "abandon", "announce", "done"}]
  /\ loaned \in [Threads -> BOOLEAN]
  /\ dpc \in [Destroyers -> {"idle", "wait", "close", "closeOnly", "delete", "done"}]

\* The threads that are in a use of the writer, and those with a message.
InUse == {t \in Threads : Using(t)}
Loaned == {t \in Threads : loaned[t]}

\* The two counts count.
CountsRight ==
  /\ IsFiniteSet(InUse) /\ writes = Cardinality(InUse)
  /\ IsFiniteSet(Loaned) /\ loans = Cardinality(Loaned)

\* The writer leaves the object when both counts are down, after which nobody
\* is admitted.
TakenUnused == ~attached => InUse = {} /\ Loaned = {}

\* The writer is deleted only by the destroy() that took it.
TakenFirst == deleted \/ (\E d \in Destroyers : dpc[d] \in {"close", "delete"}) => ~attached

\* A thread has a message only from the loan to the release of it.
LoanedWhere ==
  \A t \in Threads :
    loaned[t] => pc[t] \in {"write", "release", "leave", "holding", "republish", "abandon"}

UseInv == FlagsTypeOK /\ LoanedWhere /\ CountsRight /\ TakenUnused /\ TakenFirst

------------------------------------------------------------------------------

\* One thread enters a set that is counted.
LEMMA CountEnters ==
  ASSUME NEW S, NEW T, NEW x, NEW n, IsFiniteSet(S), n = Cardinality(S),
         x \notin S, T = S \cup {x}
  PROVE  IsFiniteSet(T) /\ n + 1 = Cardinality(T)
BY FS_AddElement

\* One thread leaves it; the count was positive.
LEMMA CountLeaves ==
  ASSUME NEW S, NEW T, NEW x, NEW n, IsFiniteSet(S), n = Cardinality(S),
         x \in S, T = S \ {x}
  PROVE  IsFiniteSet(T) /\ n - 1 = Cardinality(T) /\ n \in Nat /\ n > 0
<1>1. IsFiniteSet(T) /\ n - 1 = Cardinality(T)
  BY FS_RemoveElement
<1>2. n \in Nat /\ n # 0
  BY FS_CardinalityType, FS_EmptySet
<1> QED BY <1>1, <1>2

\* A count of zero means that nobody is there.
LEMMA CountZero ==
  ASSUME NEW S, IsFiniteSet(S), Cardinality(S) = 0
  PROVE  S = {}
BY FS_EmptySet

------------------------------------------------------------------------------

\* UseInv holds at first.
LEMMA UseInvInit == Init => UseInv
<1> SUFFICES ASSUME Init PROVE UseInv
  OBVIOUS
<1>1. InUse = {} /\ Loaned = {}
  BY DEF Init, InUse, Loaned, Using
<1>2. FlagsTypeOK
  BY DEF Init, FlagsTypeOK
<1>4. LoanedWhere /\ TakenFirst
  BY DEF Init, LoanedWhere, TakenFirst
<1>3. CountsRight
  BY <1>1, FS_EmptySet DEF Init, CountsRight
<1> QED BY <1>1, <1>2, <1>3, <1>4 DEF UseInv, TakenUnused

\* A thread is admitted only while the writer is there, and is counted.
LEMMA BeginKeepsInv ==
  ASSUME UseInv, NEW t \in Threads, BeginWriterUse(t)
  PROVE  UseInv'
<1> USE DEF UseInv, FlagsTypeOK, LoanedWhere, TakenFirst, BeginWriterUse, Goto, state, side, Wants,
            Admitted, Refused
<1>1. FlagsTypeOK' /\ LoanedWhere' /\ Loaned' = Loaned
  BY DEF Loaned
<1>2. CASE destroyed \/ ~attached
  <2>1. InUse' = InUse /\ UNCHANGED <<writes, loans, attached>>
    BY <1>2 DEF InUse, Using
  <2> QED BY <1>1, <2>1 DEF CountsRight, TakenUnused
<1>3. CASE ~destroyed /\ attached
  <2>1. t \notin InUse /\ InUse' = InUse \cup {t}
    BY <1>3 DEF InUse, Using
  <2>2. writes' = writes + 1 /\ UNCHANGED <<loans, attached>>
    BY <1>3
  <2>3. CountsRight'
    BY <1>1, <2>1, <2>2, CountEnters DEF CountsRight
  <2> QED BY <1>1, <1>3, <2>2, <2>3 DEF TakenUnused
<1> QED BY <1>2, <1>3

\* A loan is registered by a thread that is in a use and has no loan yet.
LEMMA LoanKeepsInv ==
  ASSUME UseInv, NEW t \in Threads, Loan(t)
  PROVE  UseInv'
<1> USE DEF UseInv, FlagsTypeOK, LoanedWhere, TakenFirst, Loan, Goto, state, side
<1>1. FlagsTypeOK' /\ LoanedWhere'
  OBVIOUS
<1>2. t \in InUse /\ InUse' = InUse /\ UNCHANGED <<writes, attached>>
  BY DEF InUse, Using
<1>3. CASE destroyed
  <2>1. Loaned' = Loaned /\ loans' = loans
    BY <1>3 DEF Loaned
  <2> QED BY <1>1, <1>2, <2>1 DEF CountsRight, TakenUnused
<1>4. CASE ~destroyed
  <2>1. t \notin Loaned /\ Loaned' = Loaned \cup {t}
    BY <1>4 DEF Loaned
  <2>2. loans' = loans + 1
    BY <1>4
  <2>3. CountsRight'
    BY <1>2, <2>1, <2>2, CountEnters DEF CountsRight
  <2> QED BY <1>1, <1>2, <2>3 DEF TakenUnused
<1> QED BY <1>3, <1>4

\* A loan is released once: by its release, or when its write fails.
LEMMA ReleaseKeepsInv ==
  ASSUME UseInv, NEW t \in Threads, Release(t) \/ LoanedWriteFails(t)
  PROVE  UseInv'
<1> USE DEF UseInv, FlagsTypeOK, LoanedWhere, TakenFirst, Release,
            LoanedWriteFails, Goto, state, side
<1>1. FlagsTypeOK' /\ LoanedWhere'
  OBVIOUS
<1>2. InUse' = InUse /\ UNCHANGED <<writes, attached>>
  BY DEF InUse, Using
<1>3. CASE ~loaned[t]
  <2>1. Loaned' = Loaned /\ loans' = loans
    BY <1>3 DEF Loaned
  <2> QED BY <1>1, <1>2, <2>1 DEF CountsRight, TakenUnused
<1>4. CASE loaned[t]
  <2>1. t \in Loaned /\ Loaned' = Loaned \ {t}
    BY <1>4 DEF Loaned
  <2>2. IsFiniteSet(Loaned') /\ loans - 1 = Cardinality(Loaned') /\ loans \in Nat /\ loans > 0
    BY <2>1, CountLeaves DEF CountsRight
  <2>3. loans' = loans - 1
    BY <1>4, <2>2
  <2>4. CountsRight'
    BY <1>2, <2>2, <2>3 DEF CountsRight
  <2> QED BY <1>1, <1>2, <2>1, <2>4 DEF TakenUnused
<1> QED BY <1>3, <1>4

\* The end of a use.
LEMMA EndKeepsInv ==
  ASSUME UseInv, NEW t \in Threads, EndWriterUse(t)
  PROVE  UseInv'
<1> USE DEF UseInv, FlagsTypeOK, LoanedWhere, TakenFirst, EndWriterUse, Goto, state, side
<1>1. FlagsTypeOK' /\ LoanedWhere' /\ UNCHANGED <<loans, attached>>
  OBVIOUS
<1>2. t \in InUse /\ InUse' = InUse \ {t} /\ Loaned' = Loaned
  BY DEF InUse, Loaned, Using
<1>3. IsFiniteSet(InUse') /\ writes' = Cardinality(InUse')
  BY <1>2, CountLeaves DEF CountsRight
<1> QED BY <1>1, <1>2, <1>3 DEF CountsRight, TakenUnused

\* The other steps of a thread leave both sets and both counts alone.
LEMMA PassKeepsInv ==
  ASSUME UseInv, NEW t \in Threads,
         \/ UseDirectly(t) \/ Write(t) \/ PublishLoaned(t) \/ Abandon(t)
         \/ Export(t) \/ Announce(t)
  PROVE  UseInv'
<1> USE DEF UseInv, FlagsTypeOK, LoanedWhere, TakenFirst, UseDirectly, Write,
            PublishLoaned, Abandon, Export, Announce, Goto, state, counts, side
<1>1. UNCHANGED <<destroyed, attached, deleted, writes, loans, loaned>>
  OBVIOUS
<1>2. FlagsTypeOK' /\ LoanedWhere'
  BY <1>1
<1>3. InUse' = InUse /\ Loaned' = Loaned
  BY <1>1 DEF InUse, Loaned, Using
<1> QED BY <1>1, <1>2, <1>3 DEF CountsRight, TakenUnused

\* destroy() takes the writer only when nobody is there.
LEMMA DestroyKeepsInv ==
  ASSUME UseInv, NEW d \in Destroyers, Destroy(d) \/ DestroyStep(d)
  PROVE  UseInv'
<1> USE DEF UseInv, FlagsTypeOK, LoanedWhere, state, counts, side
<1>1. UNCHANGED <<writes, loans, pc, loaned>>
  BY DEF Destroy, DestroyStep, TakeWriter, UseTimeout, CloseBuffers, DeleteWriter
<1>2. InUse' = InUse /\ Loaned' = Loaned
  BY <1>1 DEF InUse, Loaned, Using
<1>3. FlagsTypeOK' /\ LoanedWhere' /\ CountsRight'
  BY <1>1, <1>2 DEF CountsRight, Destroy, DestroyStep, TakeWriter, UseTimeout, CloseBuffers,
                    DeleteWriter
<1>4. CASE TakeWriter(d)
  <2>1. InUse = {} /\ Loaned = {} /\ ~attached'
    BY <1>4, CountZero DEF CountsRight, TakeWriter
  <2> QED BY <1>2, <1>3, <2>1 DEF TakenUnused, TakenFirst
<1>5. CASE Destroy(d) \/ UseTimeout(d)
  <2>1. /\ UNCHANGED <<attached, deleted>>
        /\ \A e \in Destroyers : dpc'[e] \in {"close", "delete"} => dpc[e] = dpc'[e]
    BY <1>5 DEF Destroy, UseTimeout
  <2> QED BY <1>2, <1>3, <2>1 DEF TakenUnused, TakenFirst
<1>6. CASE CloseBuffers(d) \/ DeleteWriter(d)
  <2>1. /\ attached' = attached
        /\ \A e \in Destroyers :
             dpc'[e] \in {"close", "delete"} => dpc[e] \in {"close", "delete"}
    BY <1>6 DEF CloseBuffers, DeleteWriter
  <2>2. deleted' => deleted \/ dpc[d] = "delete"
    BY <1>6 DEF CloseBuffers, DeleteWriter
  <2> QED BY <1>2, <1>3, <2>1, <2>2 DEF TakenUnused, TakenFirst
<1> QED BY <1>4, <1>5, <1>6 DEF DestroyStep

\* UseInv is an invariant.
THEOREM UseInvHolds == Spec => []UseInv
<1>1. UseInv /\ [Next]_vars => UseInv'
  <2> SUFFICES ASSUME UseInv, [Next]_vars PROVE UseInv'
    OBVIOUS
  <2>1. ASSUME NEW t \in Threads, BeginWriterUse(t) PROVE UseInv'
    BY <2>1, BeginKeepsInv
  <2>2. ASSUME NEW t \in Threads, Loan(t) PROVE UseInv'
    BY <2>2, LoanKeepsInv
  <2>3. ASSUME NEW t \in Threads, Release(t) \/ LoanedWriteFails(t) PROVE UseInv'
    BY <2>3, ReleaseKeepsInv
  <2>4. ASSUME NEW t \in Threads, EndWriterUse(t) PROVE UseInv'
    BY <2>4, EndKeepsInv
  <2>5. ASSUME NEW t \in Threads,
               \/ UseDirectly(t) \/ Write(t) \/ PublishLoaned(t) \/ Abandon(t)
               \/ Export(t) \/ Announce(t)
        PROVE  UseInv'
    BY <2>5, PassKeepsInv
  <2>6. ASSUME NEW d \in Destroyers, Destroy(d) \/ DestroyStep(d) PROVE UseInv'
    BY <2>6, DestroyKeepsInv
  <2>7. CASE UNCHANGED vars
    BY <2>7 DEF vars, state, counts, side, UseInv, FlagsTypeOK, LoanedWhere, CountsRight,
                TakenUnused, TakenFirst, InUse, Loaned, Using
  <2> QED BY <2>1, <2>2, <2>3, <2>4, <2>5, <2>6, <2>7 DEF Next, UseStep
<1> QED BY <1>1, UseInvInit, PTL DEF Spec

\* However many threads write and borrow, and however many destroys time out, a
\* writer that has been taken for deletion is in nobody's hands.
THEOREM NoUseHolds == Spec => []NoUseAfterDelete
<1>1. UseInv => NoUseAfterDelete
  BY DEF UseInv, TakenUnused, TakenFirst, InUse, Loaned, NoUseAfterDelete
<1> QED BY <1>1, UseInvHolds, PTL

-----------------------------------------------------------------------------
(* Launch                                                                    *)

\* The types of what the theorem is about.
EndTypeOK ==
  /\ rpc \in {"setup", "next", "visit", "register", "wait", "sleep", "finally",
              "stop", "term", "kill", "forget", "returned"}
  /\ proc \in [Processes -> {"none", "alive", "dead"}]
  /\ signals \in [Processes -> SUBSET {"TERM", "KILL"}]
  /\ mpc \in [Processes -> {"none", "wait", "unregister", "done"}]

\* run() ends one process at a time, and each of its stock.
OneAtATime ==
  /\ rpc \in {"term", "kill", "forget"} => \E p \in Processes : current = {p}
  /\ rpc = "returned" => todo = {}

\* A process whose thread has seen its end has ended.
ReapedIsDead == \A p \in Processes : mpc[p] \in {"unregister", "done"} => proc[p] = "dead"

\* A process that was registered and still runs is in the table until run()
\* takes stock, and from then on it is to be ended, is being ended, or was
\* killed, unless it came later.
Accounted(p) ==
  IF Ending
  THEN \/ "KILL" \in signals[p] \/ p \in late \/ p \in todo
       \/ p \in current /\ rpc = "term"
  ELSE p \in registered
AllAccounted == \A p \in Processes : proc[p] = "alive" /\ mpc[p] # "none" => Accounted(p)

\* Only a process that was begun is registered.
BegunFirst ==
  /\ \A p \in Processes : mpc[p] # "none" => proc[p] # "none"
  /\ rpc = "register" => \E p \in Processes : p = Head(rest) /\ proc[p] # "none"

EndInv == EndTypeOK /\ OneAtATime /\ ReapedIsDead /\ BegunFirst /\ AllAccounted

-----------------------------------------------------------------------------

\* EndInv holds at first.
LEMMA EndInvInit == LaunchInit => EndInv
<1> SUFFICES ASSUME LaunchInit PROVE EndInv
  OBVIOUS
<1>1. rpc = "setup"
  BY DEF LaunchInit
<1>2. \A p \in Processes : proc[p] = "none" /\ mpc[p] = "none"
  BY DEF LaunchInit
<1>3. EndTypeOK
  BY DEF LaunchInit, EndTypeOK
<1> QED BY <1>1, <1>2, <1>3 DEF EndInv, OneAtATime, ReapedIsDead, BegunFirst, AllAccounted

\* Until it takes stock, run() adds to the table and takes nothing out of it.
LEMMA VisitKeepsInv ==
  ASSUME EndInv,
         \/ Begin \/ NextEntity \/ VisitShutdown \/ VisitTimer \/ VisitRaises \/ EndEntity
         \/ Wait \/ Sleep
  PROVE  EndInv'
<1>1. /\ UNCHANGED <<proc, signals, mpc, registered, todo, late>>
      /\ rpc \in {"setup", "next", "visit", "wait", "sleep"}
      /\ rpc' \in {"next", "visit", "wait", "sleep", "finally"}
  BY DEF EndInv, EndTypeOK, Begin, NextEntity, VisitShutdown, VisitTimer, VisitRaises,
         EndEntity, Wait, Sleep, process, threads
<1> QED BY <1>1 DEF EndInv, EndTypeOK, OneAtATime, ReapedIsDead, BegunFirst, AllAccounted,
                    Accounted, Ending

\* A process is begun: nobody waits for it yet.
LEMMA VisitSpawnKeepsInv == ASSUME EndInv, VisitProcess PROVE EndInv'
<1>1. /\ UNCHANGED <<signals, mpc, registered, todo, late, rest>>
      /\ rpc = "visit" /\ rpc' = "register"
  BY DEF VisitProcess, threads, visit
<1>2. PICK p \in Processes :
        p = Head(rest) /\ proc[p] = "none" /\ proc' = [proc EXCEPT ![p] = "alive"]
  BY DEF VisitProcess, Spawn
<1>3. mpc[p] = "none"
  BY <1>2 DEF EndInv, BegunFirst
<1> QED BY <1>1, <1>2, <1>3 DEF EndInv, EndTypeOK, OneAtATime, ReapedIsDead, BegunFirst,
                                AllAccounted, Accounted, Ending

\* It is put into the table.
LEMMA VisitRegisterKeepsInv == ASSUME EndInv, RegisterVisited PROVE EndInv'
<1>1. /\ UNCHANGED <<signals, proc, todo>>
      /\ rpc = "register" /\ rpc' = "visit"
  BY DEF RegisterVisited
<1>2. PICK p \in Processes : p = Head(rest) /\ proc[p] # "none"
  BY <1>1 DEF EndInv, BegunFirst
<1>3. registered' = registered \cup {p} /\ mpc' = [mpc EXCEPT ![p] = "wait"]
  BY <1>2 DEF RegisterVisited, Register
<1> QED BY <1>1, <1>2, <1>3 DEF EndInv, EndTypeOK, OneAtATime, ReapedIsDead, BegunFirst,
                                AllAccounted, Accounted, Ending

\* run() takes stock: what is in the table is to be ended.
LEMMA SnapshotKeepsInv == ASSUME EndInv, Snapshot PROVE EndInv'
BY DEF Snapshot, EndInv, EndTypeOK, OneAtATime, ReapedIsDead, BegunFirst, AllAccounted,
       Accounted, Ending, process, threads

\* It goes on from a process only when that one has ended or was killed.
LEMMA EndingKeepsInv ==
  ASSUME EndInv,
         \/ \E p \in Processes : Terminate(p)
         \/ Ended \/ Kill \/ KillTimeout \/ Forget \/ Return
  PROVE  EndInv'
<1> USE DEF EndInv, EndTypeOK, OneAtATime, ReapedIsDead, BegunFirst, AllAccounted, Accounted,
            Ending, process, threads, At
<1>1. ASSUME NEW p \in Processes, Terminate(p) PROVE EndInv'
  BY <1>1 DEF Terminate
<1>2. CASE Ended
  BY <1>2 DEF Ended
<1>3. CASE Kill
  BY <1>3 DEF Kill
<1>4. CASE KillTimeout
  BY <1>4 DEF KillTimeout
<1>5. CASE Forget \/ Return
  BY <1>5 DEF Forget, Return
<1> QED BY <1>1, <1>2, <1>3, <1>4, <1>5

\* The threads that wait for the processes.
LEMMA MonitorKeepsInv ==
  ASSUME EndInv, NEW p \in Processes, Exit(p) \/ MonitorStep(p)
  PROVE  EndInv'
<1> USE DEF EndInv, EndTypeOK, OneAtATime, ReapedIsDead, BegunFirst, AllAccounted, Accounted,
            Ending, main, process
<1>1. CASE Exit(p)
  BY <1>1 DEF Exit, threads
<1>2. CASE Reap(p)
  BY <1>2 DEF Reap
<1>3. CASE Unregister(p)
  BY <1>3 DEF Unregister
<1> QED BY <1>1, <1>2, <1>3 DEF MonitorStep

\* Timers and exits may begin processes, also while run() ends others.
LEMMA ThreadKeepsInv ==
  ASSUME EndInv, NEW x \in Own, ThreadStep(x)
  PROVE  EndInv'
<1> USE DEF EndInv, EndTypeOK, OneAtATime, ReapedIsDead, BegunFirst, AllAccounted, Accounted,
            Ending, main, process
<1>1. CASE ThreadShutsDown(x) \/ ThreadRaises(x)
  <2>1. UNCHANGED <<rpc, rest, current, todo, proc, signals, mpc, registered, late>>
    BY <1>1 DEF ThreadShutsDown, ThreadRaises
  <2> QED BY <2>1
<1>2. CASE ThreadSpawns(x)
  <2>1. UNCHANGED <<rpc, rest, current, todo, signals, mpc, registered, late>>
    BY <1>2 DEF ThreadSpawns, threads
  <2>2. PICK p \in Processes : proc[p] = "none" /\ proc' = [proc EXCEPT ![p] = "alive"]
    BY <1>2 DEF ThreadSpawns, Spawn
  <2> QED BY <2>1, <2>2
<1>3. CASE ThreadRegisters(x)
  <2>1. UNCHANGED <<rpc, rest, current, todo, signals, proc>>
    BY <1>3 DEF ThreadRegisters
  <2>2. PICK p \in Processes :
          /\ proc[p] # "none"
          /\ registered' = registered \cup {p} /\ mpc' = [mpc EXCEPT ![p] = "wait"]
          /\ late' = IF Ending THEN late \cup {p} ELSE late
    BY <1>3 DEF ThreadRegisters, Register
  <2> QED BY <2>1, <2>2
<1> QED BY <1>1, <1>2, <1>3 DEF ThreadStep

\* EndInv is an invariant.
THEOREM EndInvHolds == LaunchSpec => []EndInv
<1>1. EndInv /\ [LaunchNext]_lvars => EndInv'
  <2> SUFFICES ASSUME EndInv, [LaunchNext]_lvars PROVE EndInv'
    OBVIOUS
  <2>1. ASSUME RunStep PROVE EndInv'
    BY <2>1, VisitKeepsInv, VisitSpawnKeepsInv, VisitRegisterKeepsInv, SnapshotKeepsInv,
       EndingKeepsInv DEF RunStep
  <2>2. ASSUME \/ UNCHANGED lvars \/ Signal \/ \E t \in Timers : Fire(t) \/ Look(t)
        PROVE  EndInv'
    <3>1. UNCHANGED <<rpc, rest, current, todo, proc, signals, mpc, registered, late>>
      BY <2>2 DEF lvars, Signal, Fire, Look, main, process, threads
    <3> QED BY <3>1 DEF EndInv, EndTypeOK, OneAtATime, ReapedIsDead, BegunFirst, AllAccounted,
                        Accounted, Ending
  <2> QED BY <2>1, <2>2, MonitorKeepsInv, ThreadKeepsInv DEF LaunchNext
<1> QED BY <1>1, EndInvInit, PTL DEF LaunchSpec

\* For any processes, timers and descriptions: when run() is back, what it had
\* registered when it took stock has ended or was killed.
THEOREM NothingLeftHolds == LaunchSpec => []NothingLeftRunning
<1>1. EndInv => NothingLeftRunning
  <2> SUFFICES ASSUME EndInv, rpc = "returned", NEW p \in Processes,
                      proc[p] = "alive", mpc[p] # "none"
               PROVE  "KILL" \in signals[p] \/ p \in late
    BY DEF NothingLeftRunning
  <2> QED BY DEF EndInv, OneAtATime, AllAccounted, Accounted, Ending
<1> QED BY <1>1, EndInvHolds, PTL

-----------------------------------------------------------------------------
(* Blocks                                                                    *)

Once(s) == \A i, j \in DOMAIN s : s[i] = s[j] => i = j

-----------------------------------------------------------------------------
(* The table.                                                                *)

\* A block that is appended joins the others.
LEMMA Appended ==
    ASSUME NEW S, NEW s \in Seq(S), NEW b \in S, Once(s), b \notin ToSet(s)
    PROVE  /\ Append(s, b) \in Seq(S) /\ Append(s, b) # <<>>
           /\ ToSet(Append(s, b)) = ToSet(s) \cup {b} /\ Once(Append(s, b))
<1> DEFINE n == Len(s)
           a == Append(s, b)
<1>1. /\ n \in Nat /\ DOMAIN s = 1..n /\ DOMAIN a = 1..(n + 1)
      /\ a \in Seq(S) /\ a # <<>> /\ a[n + 1] = b /\ \A i \in 1..n : a[i] = s[i]
    BY AppendProperties
<1>2. \A i \in 1..(n + 1) : i \in 1..n \/ i = n + 1
    BY <1>1
<1>3. ToSet(a) = ToSet(s) \cup {b}
    BY <1>1, <1>2 DEF ToSet
<1>4. Once(a)
    BY <1>1, <1>2 DEF Once, ToSet
<1> QED BY <1>1, <1>3, <1>4

\* The first of a table leaves it, the others stay.
LEMMA FirstLeft ==
    ASSUME NEW S, NEW s \in Seq(S), s # <<>>, Once(s)
    PROVE  /\ Tail(s) \in Seq(S) /\ Head(s) \in ToSet(s)
           /\ ToSet(Tail(s)) = ToSet(s) \ {Head(s)} /\ Once(Tail(s))
<1> DEFINE n == Len(s)
           r == Tail(s)
<1>1. /\ n \in Nat \ {0} /\ DOMAIN s = 1..n /\ r \in Seq(S) /\ Head(s) = s[1]
      /\ DOMAIN r = 1..(n - 1) /\ \A i \in 1..(n - 1) : r[i] = s[i + 1]
    BY HeadTailProperties, EmptySeq
<1>2. ASSUME NEW b \in ToSet(s), b # s[1] PROVE b \in ToSet(r)
    <2>1. PICK i \in 1..n : b = s[i]
        BY <1>1 DEF ToSet
    <2>2. i - 1 \in 1..(n - 1) /\ r[i - 1] = b
        BY <1>1, <1>2, <2>1
    <2> QED BY <1>1, <2>2 DEF ToSet
<1>3. ASSUME NEW b \in ToSet(r) PROVE b \in ToSet(s) /\ b # s[1]
    <2>1. PICK i \in 1..(n - 1) : b = s[i + 1]
        BY <1>1 DEF ToSet
    <2>2. i + 1 \in 1..n /\ 1 \in 1..n /\ i + 1 # 1
        BY <1>1, <2>1
    <2> QED BY <1>1, <2>1, <2>2 DEF ToSet, Once
<1>4. Once(r)
    <2> SUFFICES ASSUME NEW i \in 1..(n - 1), NEW j \in 1..(n - 1), r[i] = r[j] PROVE i = j
        BY <1>1 DEF Once
    <2>1. i + 1 \in 1..n /\ j + 1 \in 1..n /\ s[i + 1] = s[j + 1]
        BY <1>1
    <2> QED BY <1>1, <2>1 DEF Once
<1>5. s[1] \in ToSet(s)
    BY <1>1 DEF ToSet
<1> QED BY <1>1, <1>2, <1>3, <1>4, <1>5

\* The table after it has been cleared.
LEMMA Cleared == ToSet(<<>>) = {} /\ Once(<<>>) /\ <<>> \in Seq(Blocks)
<1>1. DOMAIN <<>> = {}
    OBVIOUS
<1> QED BY <1>1 DEF ToSet, Once

\* What Keep does to the table: the thread's block joins it, and at most one
\* block leaves it, which is closed.
LEMMA Kept ==
    ASSUME BlocksTypeOK, HandsInv, NEW t \in Exporting, Keep(t)
    PROVE  \E over \in SUBSET Held :
             /\ Close(over) /\ over \subseteq ToSet(kept) \cup {mine[t]}
             /\ kept' \in Seq(Blocks) /\ Once(kept')
             /\ ToSet(kept') = (ToSet(kept) \cup {mine[t]}) \ over
<1> DEFINE grown == Append(kept, mine[t])
           over == IF Len(grown) > Limit THEN {Head(grown)} ELSE {}
<1>1. t \in Making /\ mine[t] \in Blocks /\ mine[t] \notin ToSet(kept) /\ Once(kept)
      /\ kept \in Seq(Blocks)
    BY BlocksAssumption DEF Keep, ThreadGoto, Making, HandsInv, BlocksTypeOK, Blocks, Once
<1>2. /\ grown \in Seq(Blocks) /\ grown # <<>> /\ Once(grown)
      /\ ToSet(grown) = ToSet(kept) \cup {mine[t]}
    BY <1>1, Appended
<1>3. /\ Tail(grown) \in Seq(Blocks) /\ Once(Tail(grown)) /\ Head(grown) \in ToSet(grown)
      /\ ToSet(Tail(grown)) = ToSet(grown) \ {Head(grown)}
    BY <1>2, FirstLeft
<1>4. Close(over) /\ kept' = (IF over = {} THEN grown ELSE Tail(grown))
    BY DEF Keep
<1>5. over \subseteq ToSet(kept) \cup {mine[t]} /\ over \subseteq Held
    BY <1>1, <1>2, <1>3 DEF Held
<1> QED BY <1>2, <1>3, <1>4, <1>5


-----------------------------------------------------------------------------
(* Types, and whose hands a block is in.                                     *)

\* Where a step leaves the threads and the table alone, blocks stay in their hands.
LEMMA HandsStay ==
    ASSUME HandsInv, UNCHANGED <<made, kept, ppc, mine>>,
           \A r \in Readers : mapping'[r].pc # "none" => mapping'[r].block \in Blocks
    PROVE  HandsInv'
BY DEF HandsInv, Making

\* A publishing thread.
LEMMA ThreadKeepsHands ==
    ASSUME BlocksTypeOK, HandsInv,
           NEW t \in Exporting, ExportBlock(t) \/ AnnounceBlock(t) \/ Keep(t) \/ Send(t)
    PROVE  BlocksTypeOK' /\ HandsInv'
<1> USE DEF ThreadGoto, Close, BlocksTypeOK
<1>a. /\ made \in Nat /\ MaxBlocks \in Nat /\ Nothing \notin Blocks
      /\ \A s \in Making : mine[s] \in Blocks
      /\ UNCHANGED <<where, untracked, alive, mapping>>
    BY BlocksAssumption DEF HandsInv, Blocks, ExportBlock, AnnounceBlock, Keep, Send
<1>b. UNCHANGED <<Programs>>
    BY <1>a DEF Programs, Process
<1>1. CASE ExportBlock(t) /\ made' = made
    <2>1. ppc' = [ppc EXCEPT ![t] = "send"] /\ Making' = Making /\ mine' = [mine EXCEPT ![t] = Nothing]
        BY <1>1, <1>a DEF ExportBlock, Making
    <2>2. UNCHANGED <<made, names, owned, tracked, kept, announced, gone, overdue, taken, forgotten>>
        BY <1>1, <1>a DEF ExportBlock
    <2>3. BlocksTypeOK'
        BY <1>a, <1>b, <2>1, <2>2
    <2>4. \A s \in Making : mine'[s] = mine[s]
        BY <1>1, <2>1 DEF ExportBlock, Making
    <2> QED BY <1>a, <2>1, <2>2, <2>3, <2>4 DEF HandsInv
<1>2. CASE ExportBlock(t) /\ made' # made
    <2>1. /\ made' = made + 1 /\ made' \in Blocks /\ Making' = Making \cup {t} /\ t \notin Making
          /\ mine' = [mine EXCEPT ![t] = made'] /\ ppc' = [ppc EXCEPT ![t] = "announce"]
          /\ UNCHANGED <<kept, announced, gone, overdue, taken, forgotten>>
        BY <1>2, <1>a DEF ExportBlock, Making, Blocks
    <2>2. BlocksTypeOK'
        BY <1>2, <1>a, <1>b, <2>1 DEF ExportBlock
    <2>3. \A b \in 1..made : b \in 1..made' /\ b # made'
        BY <1>a, <2>1
    <2>4. made' \in 1..made'
        BY <1>a, <2>1
    <2>5. HandsInv'
        BY <1>a, <2>1, <2>3, <2>4 DEF HandsInv
    <2> QED BY <2>2, <2>5
<1>3. CASE AnnounceBlock(t)
    <2>1. /\ UNCHANGED <<made, kept, gone, overdue, taken, forgotten>> /\ t \in Making
          /\ Making' \subseteq Making
          /\ \A s \in Making' : mine'[s] = mine[s]
        BY <1>3 DEF AnnounceBlock, Making
    <2>2. BlocksTypeOK'
        BY <1>3, <1>a, <1>b, <2>1 DEF AnnounceBlock
    <2>3. HandsInv'
        BY <1>a, <2>1 DEF HandsInv
    <2> QED BY <2>2, <2>3
<1>4. CASE Keep(t)
    <2>1. PICK over \in SUBSET Held :
             /\ Close(over) /\ kept' \in Seq(Blocks) /\ Once(kept')
             /\ ToSet(kept') = (ToSet(kept) \cup {mine[t]}) \ over
        BY <1>4, Kept
    <2>2. /\ UNCHANGED <<made, announced, gone, taken, forgotten>> /\ t \in Making
          /\ Making' = Making \ {t} /\ \A s \in Making' : mine'[s] = mine[s]
          /\ mine' = mine /\ ppc' = [ppc EXCEPT ![t] = "send"]
          /\ overdue' \subseteq overdue \cup {mine[t]}
        BY <1>4 DEF Keep, Making
    <2>3. BlocksTypeOK'
        BY <1>a, <1>b, <2>1, <2>2
    <2>4. HandsInv'
        BY <1>a, <2>1, <2>2 DEF HandsInv, Once
    <2> QED BY <2>3, <2>4
<1>5. CASE Send(t)
    <2>1. UNCHANGED <<made, names, owned, tracked, kept, announced, gone, overdue, taken, forgotten>>
        BY <1>5 DEF Send
    <2>2. BlocksTypeOK' /\ Making' = Making /\ \A s \in Making : mine'[s] = mine[s]
        BY <1>5, <1>a, <1>b, <2>1 DEF Send, Making
    <2> QED BY <1>a, <2>1, <2>2 DEF HandsInv
<1> QED BY <1>1, <1>2, <1>3, <1>4, <1>5

\* The publisher's end.
LEMMA EndKeepsHands ==
    ASSUME BlocksTypeOK, HandsInv, BeginDestroy \/ EndDestroy \/ Collect
    PROVE  BlocksTypeOK' /\ HandsInv'
<1> USE DEF Close, BlocksTypeOK
<1>1. CASE BeginDestroy
    BY <1>1 DEF BeginDestroy, HandsInv, Making, Programs, Process
<1>2. CASE EndDestroy \/ Collect
    <2>1. PICK to \in {"destroyed", "collected"} : ClearKept(to)
        BY <1>2 DEF EndDestroy, Collect
    <2>2. BlocksTypeOK'
        BY <2>1, Cleared DEF ClearKept, Programs, Process
    <2>3. HandsInv'
        BY <2>1, Cleared DEF ClearKept, HandsInv, Making, Once
    <2> QED BY <2>2, <2>3
<1> QED BY <1>1, <1>2

\* A reader.
LEMMA ReaderKeepsHands ==
    ASSUME BlocksTypeOK, HandsInv, NEW r \in Readers,
           \/ \E b \in Blocks : Attach(r, b)
           \/ Open(r) \/ UnregisterBlock(r) \/ DropView(r) \/ TakeView(r) \/ ReleaseBuffer(r)
    PROVE  BlocksTypeOK' /\ HandsInv'
<1> DEFINE Maps == [block : Blocks \cup {Nothing}, view : BOOLEAN,
                    pc : {"none", "described", "opened", "mapped", "broken"}]
<1>1. mapping \in [Readers -> Maps] /\ UNCHANGED <<made, kept, ppc, mine, where>>
    BY DEF BlocksTypeOK, Attach, Open, UnregisterBlock, DropView, TakeView, ReleaseBuffer, publisher
<1>2. ASSUME NEW to \in {"opened", "mapped", "broken", "described"}, NEW view \in BOOLEAN,
             Becomes(r, to, view), mapping[r].pc # "none"
      PROVE  mapping' \in [Readers -> Maps] /\ HandsInv'
    <2>1. /\ mapping' \in [Readers -> Maps]
          /\ \A q \in Readers : mapping'[q].block = mapping[q].block
          /\ \A q \in Readers : mapping'[q].pc # "none" => mapping[q].pc # "none"
        BY <1>1, <1>2 DEF Becomes
    <2> QED BY <1>1, <2>1, HandsStay DEF HandsInv
<1>3. CASE \E b \in Blocks : Attach(r, b)
    <2>1. PICK b \in Blocks : Attach(r, b)
        BY <1>3
    <2>2. mapping' = [mapping EXCEPT ![r] = [block |-> b, pc |-> "described", view |-> FALSE]]
        BY <2>1 DEF Attach
    <2>3. mapping' \in [Readers -> Maps] /\ HandsInv'
        BY <1>1, <2>2, HandsStay DEF HandsInv
    <2> QED BY <2>1, <2>3 DEF Attach, BlocksTypeOK, publisher, Programs, Process
<1>4. CASE Open(r)
    <2>1. mapping[r].pc = "described" /\ mapping[r].block \in names /\ names \subseteq Blocks
        BY <1>4 DEF Open, BlocksTypeOK
    <2>2. mapping' \in [Readers -> Maps] /\ HandsInv'
        BY <1>4, <1>2, <2>1 DEF Open
    <2>3. tracked' \in {tracked, [tracked EXCEPT ![Tracker(r)] = @ \cup {mapping[r].block}]}
        BY <1>4 DEF Open
    <2>4. tracked' \in [{Pub} \cup Readers -> SUBSET Blocks]
        BY <2>1, <2>3 DEF BlocksTypeOK
    <2> QED BY <1>4, <2>2, <2>4 DEF Open, BlocksTypeOK, publisher, Programs, Process
<1>5. CASE UnregisterBlock(r)
    <2>1. mapping[r].pc = "opened" /\ mapping[r].block \in Blocks
        BY <1>5 DEF UnregisterBlock, HandsInv
    <2>2. mapping' \in [Readers -> Maps] /\ HandsInv'
        BY <1>5, <1>2, <2>1 DEF UnregisterBlock
    <2>3. tracked' \in [{Pub} \cup Readers -> SUBSET Blocks] /\ forgotten' \subseteq Blocks
        BY <1>5, <2>1 DEF UnregisterBlock, BlocksTypeOK
    <2> QED BY <1>5, <2>2, <2>3 DEF UnregisterBlock, BlocksTypeOK, publisher, Programs, Process
<1>6. CASE DropView(r)
    <2>1. mapping' = [mapping EXCEPT ![r].pc = mapping[r].pc, ![r].view = FALSE]
        BY <1>6 DEF DropView, Becomes
    <2>2. /\ mapping' \in [Readers -> Maps]
          /\ \A q \in Readers : mapping'[q].block = mapping[q].block /\ mapping'[q].pc = mapping[q].pc
        BY <1>1, <2>1
    <2>3. HandsInv'
        BY <1>1, <2>2, HandsStay DEF HandsInv
    <2> QED BY <1>6, <2>2, <2>3 DEF DropView, BlocksTypeOK, publisher, Programs, Process
<1>7. CASE TakeView(r)
    <2>1. mapping' \in [Readers -> Maps] /\ HandsInv'
        BY <1>7, <1>2 DEF TakeView
    <2> QED BY <1>7, <2>1 DEF TakeView, BlocksTypeOK, publisher, Programs, Process
<1>8. CASE ReleaseBuffer(r)
    <2>1. mapping[r].view \in BOOLEAN
        BY <1>1
    <2>2. mapping' \in [Readers -> Maps] /\ HandsInv'
        BY <1>8, <1>2, <2>1 DEF ReleaseBuffer
    <2> QED BY <1>8, <2>2 DEF ReleaseBuffer, BlocksTypeOK, publisher, Programs, Process
<1> QED BY <1>3, <1>4, <1>5, <1>6, <1>7, <1>8

\* A process that ends.
LEMMA ProcessKeepsHands ==
    ASSUME BlocksTypeOK, HandsInv, NEW p, EndProcess(p)
    PROVE  BlocksTypeOK' /\ HandsInv'
<1> DEFINE Maps == [block : Blocks \cup {Nothing}, view : BOOLEAN,
                    pc : {"none", "described", "opened", "mapped", "broken"}]
           ended == {t \in {Pub} \cup Readers : Users(t) # {} /\ Users(t) \cap (alive \ {p}) = {}}
           removed == UNION {tracked[t] : t \in ended}
<1>1. mapping' = [r \in Readers |-> IF Process(r) = p THEN NoBuffer ELSE mapping[r]]
    BY DEF EndProcess
<1>2. NoBuffer \in Maps /\ NoBuffer.pc = "none"
    BY DEF NoBuffer
<1>3. mapping' \in [Readers -> Maps]
    BY <1>1, <1>2 DEF BlocksTypeOK
<1>4. HandsInv'
    <2>1. \A r \in Readers : mapping'[r].pc # "none" => mapping'[r].block \in Blocks
        BY <1>1, <1>2 DEF HandsInv
    <2> QED BY <2>1, HandsStay DEF EndProcess, publisher
<1>5. removed \subseteq Blocks
    BY DEF BlocksTypeOK
<1>6. tracked' \in [{Pub} \cup Readers -> SUBSET Blocks]
    BY DEF EndProcess, BlocksTypeOK
<1>7. names' \subseteq Blocks /\ taken' \subseteq Blocks /\ alive' \subseteq Programs
    BY <1>5 DEF EndProcess, BlocksTypeOK
<1> QED BY <1>3, <1>4, <1>6, <1>7 DEF EndProcess, BlocksTypeOK, publisher, Programs, Process

\* The type invariant; a block is in the table or in the hands of the one
\* thread that made it (code: export_shared_memory_metadata, _shm_keepalive).
THEOREM BlocksTypeCorrect == BlocksSpec => [](BlocksTypeOK /\ HandsInv)
<1>1. BlocksInit => BlocksTypeOK /\ HandsInv
    <2> SUFFICES ASSUME BlocksInit PROVE BlocksTypeOK /\ HandsInv
        OBVIOUS
    <2>1. BlocksTypeOK
        BY Cleared, BlocksAssumption DEF BlocksInit, BlocksTypeOK, NoBuffer
    <2>2. HandsInv
        BY Cleared DEF BlocksInit, HandsInv, Making, NoBuffer
    <2> QED BY <2>1, <2>2
<1>2. BlocksTypeOK /\ HandsInv /\ [BlocksNext]_blockVars => (BlocksTypeOK /\ HandsInv)'
    <2> SUFFICES ASSUME BlocksTypeOK, HandsInv, [BlocksNext]_blockVars PROVE BlocksTypeOK' /\ HandsInv'
        OBVIOUS
    <2>1. CASE UNCHANGED blockVars
        BY <2>1 DEF blockVars, BlocksTypeOK, HandsInv, Making, Programs, Process
    <2>2. CASE BlocksNext
        BY <2>2, ThreadKeepsHands, EndKeepsHands, ReaderKeepsHands, ProcessKeepsHands DEF BlocksNext
    <2> QED BY <2>1, <2>2
<1> QED BY <1>1, <1>2, PTL DEF BlocksSpec

-----------------------------------------------------------------------------
(* Names, and who knows them.                                                *)

\* Where a step leaves the threads, the table and the names alone, so does it
\* what they say of each other.
LEMMA NamesStay ==
    ASSUME NamesInv, UNCHANGED <<kept, ppc, mine, owned, gone, overdue, names, alive, taken>>
    PROVE  NamesInv'
BY DEF NamesInv, Held, Making

\* A publishing thread opens and closes names with its own block.
LEMMA ThreadKeepsNames ==
    ASSUME BlocksTypeOK, HandsInv, NamesInv,
           NEW t \in Exporting, ExportBlock(t) \/ AnnounceBlock(t) \/ Keep(t) \/ Send(t)
    PROVE  NamesInv'
<1> USE DEF ThreadGoto, Close
<1>a. /\ made \in Nat /\ ppc \in [Exporting -> {"idle", "announce", "keep", "send"}]
      /\ mine \in [Exporting -> Blocks \cup {Nothing}] /\ gone # "collected"
      /\ UNCHANGED <<alive, gone, taken>>
    BY BlocksAssumption DEF BlocksTypeOK, NamesInv, ExportBlock, AnnounceBlock, Keep, Send
<1>1. CASE (ExportBlock(t) /\ made' = made) \/ Send(t)
    <2>1. /\ Making' = Making /\ \A s \in Making : mine'[s] = mine[s]
          /\ UNCHANGED <<kept, owned, overdue, names>>
        BY <1>1, <1>a DEF ExportBlock, Send, Making
    <2>2. Held' = Held
        BY <2>1 DEF Held
    <2> QED BY <1>a, <2>1, <2>2 DEF NamesInv
<1>2. CASE ExportBlock(t) /\ made' # made
    <2>1. /\ Making' = Making \cup {t} /\ t \notin Making /\ mine'[t] = made'
          /\ \A s \in Making : mine'[s] = mine[s]
          /\ names' = names \cup {made'} /\ owned' = owned \cup {made'}
          /\ UNCHANGED <<kept, overdue>>
        BY <1>2, <1>a DEF ExportBlock, Making
    <2>2. Held' = Held \cup {made'}
        BY <2>1 DEF Held
    <2> QED BY <1>a, <2>1, <2>2 DEF NamesInv
<1>3. CASE AnnounceBlock(t) /\ ppc'[t] = "keep"
    <2>1. /\ Making' = Making /\ \A s \in Making : mine'[s] = mine[s]
          /\ UNCHANGED <<kept, owned, overdue, names>>
        BY <1>3, <1>a DEF AnnounceBlock, Making
    <2>2. Held' = Held
        BY <2>1 DEF Held
    <2> QED BY <1>a, <2>1, <2>2 DEF NamesInv
<1>4. CASE AnnounceBlock(t) /\ ppc'[t] = "send"
    <2>1. /\ Making' = Making \ {t} /\ t \in Making /\ \A s \in Making' : mine'[s] = mine[s]
          /\ names' = names \ {mine[t]} /\ owned' = owned \ {mine[t]}
          /\ UNCHANGED <<kept, overdue>>
        BY <1>4, <1>a DEF AnnounceBlock, Making
    <2>2. Held' = Held \ {mine[t]}
        BY <2>1 DEF Held, HandsInv
    <2> QED BY <1>a, <2>1, <2>2 DEF NamesInv
<1>5. CASE Keep(t)
    <2>1. PICK over \in SUBSET Held :
             /\ Close(over) /\ over \subseteq ToSet(kept) \cup {mine[t]}
             /\ kept' \in Seq(Blocks) /\ Once(kept')
             /\ ToSet(kept') = (ToSet(kept) \cup {mine[t]}) \ over
        BY <1>5, Kept
    <2>2. /\ t \in Making /\ Making' = Making \ {t} /\ mine' = mine
          /\ overdue' = IF gone = "destroyed" THEN overdue \cup {mine[t]} ELSE overdue
        BY <1>5, <1>a DEF Keep, Making
    <2>3. Held' = Held \ over
        BY <2>1, <2>2 DEF Held, HandsInv
    <2>4. names' = names \ over /\ owned' = owned \ over
        BY <2>1
    <2> QED BY <1>a, <2>1, <2>2, <2>3, <2>4 DEF NamesInv
<1>6. AnnounceBlock(t) => ppc'[t] \in {"keep", "send"}
    BY <1>a DEF AnnounceBlock
<1> QED BY <1>1, <1>2, <1>3, <1>4, <1>5, <1>6

\* The publisher's end closes what is in the table.
LEMMA EndKeepsNames ==
    ASSUME BlocksTypeOK, HandsInv, NamesInv, BeginDestroy \/ EndDestroy \/ Collect
    PROVE  NamesInv'
<1>1. CASE BeginDestroy
    <2>1. gone' = "destroying" /\ UNCHANGED <<kept, ppc, mine, owned, overdue, names, alive, taken>>
        BY <1>1 DEF BeginDestroy
    <2> QED BY <2>1 DEF NamesInv, Held, Making
<1>2. CASE EndDestroy \/ Collect
    <2>1. PICK to \in {"destroyed", "collected"} :
             ClearKept(to) /\ (to = "collected" => \A t \in Exporting : ppc[t] = "idle")
        BY <1>2 DEF EndDestroy, Collect
    <2>2. /\ kept' = <<>> /\ gone' = to /\ UNCHANGED <<ppc, mine, overdue, alive, taken>>
          /\ names' = names \ ToSet(kept) /\ owned' = owned \ ToSet(kept)
        BY <2>1 DEF ClearKept, Close
    <2>3. Making' = Making /\ ToSet(kept') = {}
        BY <2>2, Cleared DEF Making
    <2>4. Held' = Held \ ToSet(kept)
        BY <2>2, <2>3 DEF Held, HandsInv
    <2> QED BY <2>1, <2>2, <2>3, <2>4 DEF NamesInv
<1> QED BY <1>1, <1>2

\* A process that ends takes names, which are remembered; the publisher's own
\* end leaves nobody who would keep anything.
LEMMA ProcessKeepsNames ==
    ASSUME NamesInv, NEW p, EndProcess(p)
    PROVE  NamesInv'
<1>1. /\ alive' = alive \ {p} /\ UNCHANGED <<owned, kept, ppc, mine, gone, overdue>>
      /\ names' \subseteq names
      /\ Pub \in alive' => names \ names' \subseteq taken' /\ taken \subseteq taken'
    BY DEF EndProcess, publisher
<1>2. Held' = Held
    BY <1>1 DEF Held, Making
<1> QED BY <1>1, <1>2 DEF NamesInv

\* What is owned is held and what is held has a name, whatever readers and
\* processes do (code: _owned_shm_names, _shm_keepalive, SharedMemoryAllocation.close).
THEOREM NamesHold == BlocksSpec => []NamesInv
<1>1. BlocksInit => NamesInv
    <2> SUFFICES ASSUME BlocksInit PROVE NamesInv
        OBVIOUS
    <2>1. Held = {}
        BY Cleared DEF BlocksInit, Held, Making
    <2> QED BY <2>1 DEF BlocksInit, NamesInv
<1>2. BlocksTypeOK /\ HandsInv /\ NamesInv /\ [BlocksNext]_blockVars => NamesInv'
    <2> SUFFICES ASSUME BlocksTypeOK, HandsInv, NamesInv, [BlocksNext]_blockVars PROVE NamesInv'
        OBVIOUS
    <2>1. CASE UNCHANGED blockVars
        BY <2>1, NamesStay DEF blockVars
    <2>2. ASSUME NEW r \in Readers,
                 \/ \E b \in Blocks : Attach(r, b)
                 \/ Open(r) \/ UnregisterBlock(r) \/ DropView(r) \/ TakeView(r) \/ ReleaseBuffer(r)
          PROVE  NamesInv'
        BY <2>2, NamesStay DEF Attach, Open, UnregisterBlock, DropView, TakeView, ReleaseBuffer, publisher
    <2> QED BY <2>1, <2>2, ThreadKeepsNames, EndKeepsNames, ProcessKeepsNames DEF BlocksNext
<1>3. BlocksSpec => [](BlocksTypeOK /\ HandsInv)
    BY BlocksTypeCorrect
<1> QED BY <1>1, <1>2, <1>3, PTL DEF BlocksSpec

\* Names go only when they are closed, which the tracker hears of.
LEMMA TrackedStays ==
    ASSUME BlocksTypeOK, TrackedInv, UNCHANGED <<where, alive>>, forgotten \subseteq forgotten',
           NEW closed, names' \subseteq names \ closed, tracked[Pub] \ closed \subseteq tracked'[Pub]
    PROVE  TrackedInv'
<1>1. Users(Pub)' = Users(Pub)
    BY DEF Users, Process, Tracker
<1> QED BY <1>1 DEF TrackedInv

\* A reader takes no name from the publisher's tracker that is still in use,
\* unless it is a child's, which is remembered.
LEMMA ReaderKeepsTracked ==
    ASSUME BlocksTypeOK, NamesInv, TrackedInv, NEW r \in Readers,
           \/ \E b \in Blocks : Attach(r, b)
           \/ Open(r) \/ UnregisterBlock(r) \/ DropView(r) \/ TakeView(r) \/ ReleaseBuffer(r)
    PROVE  TrackedInv'
<1>1. /\ UNCHANGED <<where, alive, names>> /\ forgotten \subseteq forgotten'
      /\ tracked \in [{Pub} \cup Readers -> SUBSET Blocks]
    BY DEF BlocksTypeOK, Attach, Open, UnregisterBlock, DropView, TakeView, ReleaseBuffer, publisher
<1>2. CASE tracked' = tracked \/ Open(r)
    <2>1. tracked' \in {tracked, [tracked EXCEPT ![Tracker(r)] = @ \cup {mapping[r].block}]}
        BY <1>2 DEF Open
    <2>2. tracked[Pub] \subseteq tracked'[Pub]
        BY <1>1, <2>1
    <2> QED BY <1>1, <2>2, TrackedStays
<1>3. CASE UnregisterBlock(r)
    <2> DEFINE b == mapping[r].block
    <2>1. CASE where[r] = "same"
        <3>1. tracked[Pub] \ ({b} \ names) \subseteq tracked'[Pub]
            BY <1>1, <1>3, <2>1 DEF UnregisterBlock, NamesInv
        <3>2. names' \subseteq names \ ({b} \ names)
            BY <1>1
        <3> QED BY <1>1, <3>1, <3>2, TrackedStays
    <2>2. CASE where[r] = "child"
        <3>1. forgotten' = forgotten \cup {b} /\ tracked[Pub] \ {b} \subseteq tracked'[Pub]
            BY <1>1, <1>3, <2>2 DEF UnregisterBlock
        <3>2. Users(Pub)' = Users(Pub)
            BY <1>1 DEF Users, Process, Tracker
        <3> QED BY <1>1, <3>1, <3>2 DEF TrackedInv
    <2>3. CASE where[r] = "other"
        <3>1. tracked'[Pub] = tracked[Pub]
            BY <1>1, <1>3, <2>3, BlocksAssumption DEF UnregisterBlock, Tracker
        <3> QED BY <1>1, <3>1, TrackedStays
    <2> QED BY <2>1, <2>2, <2>3 DEF BlocksTypeOK
<1>4. tracked' = tracked \/ Open(r) \/ UnregisterBlock(r)
    BY DEF Attach, DropView, TakeView, ReleaseBuffer
<1> QED BY <1>2, <1>3, <1>4

\* The publisher and its threads.
LEMMA PublisherKeepsTracked ==
    ASSUME BlocksTypeOK, TrackedInv,
           \/ \E t \in Exporting : ExportBlock(t) \/ AnnounceBlock(t) \/ Keep(t) \/ Send(t)
           \/ BeginDestroy \/ EndDestroy \/ Collect
    PROVE  TrackedInv'
<1> USE DEF ThreadGoto
<1>1. UNCHANGED <<where, alive, forgotten>> /\ tracked \in [{Pub} \cup Readers -> SUBSET Blocks]
    BY DEF BlocksTypeOK, ExportBlock, AnnounceBlock, Keep, Send, BeginDestroy, EndDestroy, Collect, ClearKept
<1>2. ASSUME NEW closed, Close(closed) PROVE TrackedInv'
    <2>1. tracked'[Pub] = tracked[Pub] \ closed /\ names' = names \ closed
        BY <1>1, <1>2 DEF Close
    <2> QED BY <1>1, <2>1, TrackedStays
<1>3. CASE UNCHANGED <<names, tracked>>
    BY <1>1, <1>3, TrackedStays
<1>4. ASSUME NEW t \in Exporting, ExportBlock(t), made' # made PROVE TrackedInv'
    <2>1. /\ Pub \in alive /\ names' = names \cup {made'}
          /\ tracked'[Pub] = tracked[Pub] \cup {made'}
        BY <1>1, <1>4 DEF ExportBlock
    <2>2. Users(Pub)' = Users(Pub) /\ Pub \in Users(Pub)
        BY <1>1 DEF Users, Process, Tracker
    <2> QED BY <1>1, <2>1, <2>2 DEF TrackedInv
<1>5. ASSUME NEW t \in Exporting, ExportBlock(t), made' = made PROVE TrackedInv'
    <2>1. UNCHANGED <<names, tracked>>
        BY <1>5, <1>1 DEF ExportBlock, BlocksTypeOK
    <2> QED BY <2>1, <1>3
<1>6. ASSUME NEW t \in Exporting, AnnounceBlock(t) PROVE TrackedInv'
    BY <1>2, <1>3, <1>6 DEF AnnounceBlock
<1>7. ASSUME NEW t \in Exporting, Keep(t) PROVE TrackedInv'
    <2>1. \E over : Close(over)
        BY <1>7 DEF Keep
    <2> QED BY <1>2, <2>1
<1>8. CASE BeginDestroy \/ EndDestroy \/ Collect \/ \E t \in Exporting : Send(t)
    BY <1>2, <1>3, <1>8 DEF BeginDestroy, EndDestroy, Collect, ClearKept, Send
<1> QED BY <1>4, <1>5, <1>6, <1>7, <1>8

\* A process that ends, and the publisher's tracker with the last of its own.
LEMMA ProcessKeepsTracked ==
    ASSUME BlocksTypeOK, TrackedInv, NEW p, EndProcess(p)
    PROVE  TrackedInv'
<1> DEFINE left == alive \ {p}
           ended == {t \in {Pub} \cup Readers : Users(t) # {} /\ Users(t) \cap left = {}}
           removed == UNION {tracked[t] : t \in ended}
<1>1. /\ alive' = left /\ names' = names \ removed /\ UNCHANGED <<where, forgotten>>
      /\ tracked' = [t \in {Pub} \cup Readers |-> IF t \in ended THEN {} ELSE tracked[t]]
    BY DEF EndProcess
<1>2. Users(Pub)' = Users(Pub) /\ Pub \in Users(Pub)
    BY <1>1 DEF Users, Process, Tracker
<1>3. CASE Users(Pub) \cap left = {}
    <2>1. Pub \in ended
        BY <1>2, <1>3
    <2>2. tracked[Pub] \subseteq removed
        BY <2>1
    <2> QED BY <1>1, <1>2, <1>3, <2>2 DEF TrackedInv
<1>4. CASE Users(Pub) \cap left # {}
    <2>1. tracked'[Pub] = tracked[Pub] /\ Users(Pub) \cap alive # {}
        BY <1>1, <1>4
    <2> QED BY <1>1, <1>2, <1>4, <2>1 DEF TrackedInv
<1> QED BY <1>3, <1>4

\* Every name is known to the publisher's resource tracker, or has been taken
\* from it by a child (code: _shared_memory_open and Python's resource tracker).
THEOREM TrackedHolds == BlocksSpec => []TrackedInv
<1>1. BlocksInit => TrackedInv
    BY DEF BlocksInit, TrackedInv
<1>2. BlocksTypeOK /\ NamesInv /\ TrackedInv /\ [BlocksNext]_blockVars => TrackedInv'
    <2> SUFFICES ASSUME BlocksTypeOK, NamesInv, TrackedInv, [BlocksNext]_blockVars PROVE TrackedInv'
        OBVIOUS
    <2>1. CASE UNCHANGED blockVars
        BY <2>1, TrackedStays DEF blockVars
    <2> QED BY <2>1, PublisherKeepsTracked, ReaderKeepsTracked, ProcessKeepsTracked DEF BlocksNext
<1>3. BlocksSpec => [](BlocksTypeOK /\ HandsInv)
    BY BlocksTypeCorrect
<1>4. BlocksSpec => []NamesInv
    BY NamesHold
<1> QED BY <1>1, <1>2, <1>3, <1>4, PTL DEF BlocksSpec

-----------------------------------------------------------------------------

\* A block that the publisher keeps can be opened, a destroyed publisher leaves
\* none but those announced meanwhile, and the end of all processes leaves none
\* but those a child process has taken from the tracker (code:
\* publish_shared_memory, Publisher.destroy, SharedMemoryBuffer).
THEOREM BlocksKeptHolds == BlocksSpec => []BlocksKept
<1>1. BlocksTypeOK /\ HandsInv /\ NamesInv /\ TrackedInv => BlocksKept
    <2> SUFFICES ASSUME BlocksTypeOK, HandsInv, NamesInv, TrackedInv PROVE BlocksKept
        OBVIOUS
    <2>1. {mine[t] : t \in Making} \subseteq Busy /\ ToSet(kept) \subseteq Held
        BY DEF Making, Busy, Held
    <2>2. Pub \in alive => ToSet(kept) \subseteq names \cup taken
        BY <2>1 DEF NamesInv
    <2>3. gone = "collected" => Held = {}
        BY Cleared DEF NamesInv, Held, Making
    <2>4. gone \in {"destroyed", "collected"} => names \subseteq overdue \cup Busy
        BY <2>1, <2>3 DEF NamesInv, Held
    <2>5. gone = "collected" => names = {}
        BY <2>3 DEF NamesInv
    <2>6. alive = {} => names \subseteq forgotten
        BY DEF TrackedInv
    <2> QED BY <2>2, <2>4, <2>5, <2>6 DEF BlocksKept
<1>2. BlocksSpec => [](BlocksTypeOK /\ HandsInv)
    BY BlocksTypeCorrect
<1>3. BlocksSpec => []NamesInv
    BY NamesHold
<1>4. BlocksSpec => []TrackedInv
    BY TrackedHolds
<1> QED BY <1>1, <1>2, <1>3, <1>4, PTL
-----------------------------------------------------------------------------
(* LaunchEnvironment, for any variables, values and files.                   *)

\* The context has what the launch file has asked for last, and so has os.environ
\* but for what others have written to it since.
AskedInv ==
  /\ environment = wanted /\ wanted \in Settings /\ environ \in Settings
  /\ \A v \in Vars \ foreign : environ[v] = wanted[v]

LEMMA UpdatedValue ==
  ASSUME NEW d, NEW e, NEW v \in Vars
  PROVE  Updated(d, e)[v] = IF e[v] = Absent THEN d[v] ELSE e[v]
  BY DEF Updated

LEMMA AskedGives == AskedInv => EnvironmentAsAsked
<1> SUFFICES ASSUME AskedInv, NEW v \in Vars, NEW own \in Settings, NEW extra \in Settings,
                    NEW name \in Texts, v \notin foreign \/ wanted[v] # Absent
             PROVE  LET asked(first) == IF extra[v] # Absent THEN extra[v] ELSE first
                        inherited == IF own[v] # Absent THEN own[v] ELSE wanted[v]
                    IN /\ ReadVariable(v, "") = IF wanted[v] = Absent THEN "" ELSE wanted[v]
                       /\ ProcessEnv(TRUE, own, extra)[v] = asked(inherited)
                       /\ ProcessEnv(FALSE, own, extra)[v] = asked(wanted[v])
                       /\ NodeEnv(own, extra, name)[v] =
                            IF v = NodeName /\ name # Absent THEN name ELSE asked(inherited)
  BY DEF EnvironmentAsAsked
<1> DEFINE asked(first) == IF extra[v] # Absent THEN extra[v] ELSE first
           inherited == IF own[v] # Absent THEN own[v] ELSE wanted[v]
<1>1. environment[v] = wanted[v] /\ (wanted[v] = Absent => environ[v] = Absent)
  BY DEF AskedInv
<1>2. "" # Absent
  BY EnvironmentAssumption
<1>3. ReadVariable(v, "") = IF wanted[v] = Absent THEN "" ELSE wanted[v]
  BY <1>1, <1>2 DEF ReadVariable
<1>4. Updated(environ, environment)[v] = wanted[v] /\ Updated(environment, own)[v] = inherited
  BY <1>1, UpdatedValue
<1>5. ProcessEnv(TRUE, own, extra)[v] = asked(inherited)
  BY <1>4, UpdatedValue DEF ProcessEnv
<1>6. ProcessEnv(FALSE, own, extra)[v] = asked(wanted[v])
  BY <1>4, UpdatedValue DEF ProcessEnv
<1>7. NodeEnv(own, extra, name)[v] =
        IF v = NodeName /\ name # Absent THEN name ELSE asked(inherited)
  <2> DEFINE base == IF own # NoSettings THEN Updated(environment, own)
                     ELSE Updated(environ, environment)
  <2>1. base[v] = inherited
    <3>1. own = NoSettings => own[v] = Absent
      BY DEF NoSettings
    <3> QED BY <1>4, <3>1
  <2> DEFINE env == Updated(base, extra)
  <2>2. env[v] = asked(inherited)
    <3> HIDE DEF base
    <3> QED BY <2>1, UpdatedValue
  <2>3. DOMAIN env = Vars
    BY DEF Updated
  <2>4. NodeEnv(own, extra, name) = IF name = Absent THEN env ELSE [env EXCEPT ![NodeName] = name]
    BY DEF NodeEnv
  <2> HIDE DEF env, inherited, asked
  <2> QED BY <2>2, <2>3, <2>4
<1> QED BY <1>3, <1>5, <1>6, <1>7

LEMMA ConditionsMean == ConditionsAgree
<1>1. Error \notin Strings /\ {"true", "false", ""} \subseteq Strings
  BY EnvironmentAssumption
<1> SUFFICES ASSUME NEW x \in Strings, NEW y \in Strings
             PROVE  LET both == AndSubstitution(x, y)
                        either == OrSubstitution(x, y)
                    IN /\ NotSubstitution(x) # Error =>
                            IfCondition(NotSubstitution(x)) = UnlessCondition(x)
                       /\ both # Error =>
                            (IfCondition(both) = "true" <=> {IfCondition(x), IfCondition(y)} = {"true"})
                       /\ either # Error =>
                            (IfCondition(either) = "true"
                               <=> "true" \in {IfCondition(x), IfCondition(y)})
  BY DEF ConditionsAgree
<1>2. /\ IfCondition("true") = "true" /\ IfCondition("false") = "false"
      /\ UnlessCondition("true") = "false" /\ UnlessCondition("false") = "true"
  BY DEF IfCondition, UnlessCondition, Boolean, Truth, Text
<1>3. NotSubstitution(x) # Error => IfCondition(NotSubstitution(x)) = UnlessCondition(x)
  BY <1>2 DEF NotSubstitution, Operand, Truth, Text
<1>4. AndSubstitution(x, y) # Error =>
        \/ x = "false" /\ AndSubstitution(x, y) = "false"
        \/ x = "true" /\ y \in {"true", "false"} /\ AndSubstitution(x, y) = y
  BY DEF AndSubstitution, Operand
<1>5. OrSubstitution(x, y) # Error =>
        \/ x = "true" /\ OrSubstitution(x, y) = "true"
        \/ x = "false" /\ y \in {"true", "false"} /\ OrSubstitution(x, y) = y
  BY DEF OrSubstitution, Operand
<1> QED BY <1>2, <1>3, <1>4, <1>5

LEMMA LeastNumber ==
  ASSUME NEW I \in SUBSET Nat, I # {}
  PROVE  \E i \in I : \A j \in I : i <= j
<1>1. PICK i \in I : \A j \in I : ~ (<<j, i>> \in OpToRel(<, Nat))
  BY NatLessThanWellFounded, WFMin
<1>2. \A j \in I : ~ (j < i)
  BY <1>1 DEF OpToRel
<1> QED BY <1>2

\* The first candidate that is there is there, and stands before every other.
LEMMA FirstFound ==
  ASSUME NEW candidates, NEW n \in Nat, DOMAIN candidates = 1..n, NEW there,
         NEW k \in 1..n, candidates[k] \in there
  PROVE  \E i \in 1..k : FirstOf(candidates, there) = candidates[i] /\ candidates[i] \in there
<1> DEFINE found == {i \in DOMAIN candidates : candidates[i] \in there}
<1>1. found \subseteq Nat /\ k \in found
  OBVIOUS
<1>2. \E i \in found : \A j \in found : i <= j
  <2> HIDE DEF found
  <2> QED BY <1>1, LeastNumber
<1> DEFINE first == CHOOSE i \in found : \A j \in found : i <= j
<1>3. first \in found /\ \A j \in found : first <= j
  BY <1>2
<1>4. FirstOf(candidates, there) = candidates[first]
  BY <1>1 DEF FirstOf
<1> HIDE DEF first
<1> QED BY <1>1, <1>3, <1>4

LEMMA NoneFound ==
  ASSUME NEW candidates, NEW there, FirstOf(candidates, there) # Absent
  PROVE  \E i \in DOMAIN candidates : candidates[i] \in there
  BY DEF FirstOf

\* What Node looks for: for each place, then the working directory, the name without
\* and with .py, and at last the PATH.
LEMMA Candidates ==
  ASSUME NEW S, NEW p \in Seq(S), "." \in S, "PATH" \in S
  PROVE  LET all == BothNames(p \o <<".">>) \o << <<"PATH", FALSE>> >>
             n == Len(p)
         IN /\ n \in Nat /\ all \in Seq(S \X BOOLEAN) /\ DOMAIN all = 1..(2 * n + 3)
            /\ \A i \in 1..(2 * n) : all[i][1] \in ToSet(p)
            /\ \A j \in 1..n : all[2 * j - 1] = <<p[j], FALSE>> /\ all[2 * j] = <<p[j], TRUE>>
            /\ all[2 * n + 1] = <<".", FALSE>> /\ all[2 * n + 3] = <<"PATH", FALSE>>
<1> DEFINE n == Len(p)
           places == p \o <<".">>
           both == BothNames(places)
           all == both \o << <<"PATH", FALSE>> >>
<1>1. /\ n \in Nat /\ places \in Seq(S) /\ Len(places) = n + 1
      /\ \A j \in 1..n : places[j] = p[j]
      /\ places[n + 1] = "."
  OBVIOUS
<1>2. \A i \in 1..(2 * n + 2) : (i + 1) \div 2 \in 1..(n + 1)
  BY <1>1
<1>3. /\ both \in [1..(2 * n + 2) -> S \X BOOLEAN]
      /\ \A i \in 1..(2 * n + 2) : both[i] = <<places[(i + 1) \div 2], i % 2 = 0>>
  <2> HIDE DEF places, n
  <2>1. BothNames(places) = [i \in 1..(2 * n + 2) |-> <<places[(i + 1) \div 2], i % 2 = 0>>]
    BY <1>1 DEF BothNames
  <2>2. ASSUME NEW i \in 1..(2 * n + 2) PROVE places[(i + 1) \div 2] \in S
    <3>1. (i + 1) \div 2 \in 1..Len(places)
      <4>1. n \in Nat /\ Len(places) = n + 1
        BY <1>1
      <4>2. (i + 1) \div 2 \in 1..(n + 1)
        BY <4>1
      <4> QED BY <4>1, <4>2
    <3> QED BY <1>1, <3>1, ElementOfSeq
  <2> DEFINE both_(i) == <<places[(i + 1) \div 2], i % 2 = 0>>
  <2>3. \A i \in 1..(2 * n + 2) : both_(i) \in S \X BOOLEAN
    BY <2>2
  <2> HIDE DEF both_
  <2>4. /\ BothNames(places) \in [1..(2 * n + 2) -> S \X BOOLEAN]
        /\ \A i \in 1..(2 * n + 2) : BothNames(places)[i] = both_(i)
    <3>1. BothNames(places) = [i \in 1..(2 * n + 2) |-> both_(i)]
      BY <2>1 DEF both_
    <3> QED BY <2>3, <3>1
  <2> QED BY <2>4 DEF both_
<1>4. /\ all \in Seq(S \X BOOLEAN) /\ DOMAIN all = 1..(2 * n + 3)
      /\ \A i \in 1..(2 * n + 2) : all[i] = both[i]
      /\ all[2 * n + 3] = <<"PATH", FALSE>>
  <2>1. both \in Seq(S \X BOOLEAN) /\ Len(both) = 2 * n + 2
    BY <1>1, <1>3
  <2>2. <<"PATH", FALSE>> \in S \X BOOLEAN
    OBVIOUS
  <2> DEFINE T == S \X BOOLEAN
             last == <<"PATH", FALSE>>
             m == 2 * n + 2
  <2>3. both \in Seq(T) /\ last \in T /\ Len(both) = m /\ m \in Nat /\ 2 * n + 3 = m + 1
    BY <1>1, <2>1, <2>2
  <2> HIDE DEF both, n, T, last, m
  <2>4. /\ both \o <<last>> \in Seq(T) /\ DOMAIN (both \o <<last>>) = 1..(m + 1)
        /\ \A i \in 1..m : (both \o <<last>>)[i] = both[i]
        /\ (both \o <<last>>)[m + 1] = last
    BY <2>3
  <2> QED BY <2>3, <2>4 DEF T, last, m
<1> HIDE DEF all, both, places, n
<1>5. ASSUME NEW j \in 1..(n + 1)
      PROVE  all[2 * j - 1] = <<places[j], FALSE>> /\ all[2 * j] = <<places[j], TRUE>>
  <2>1. 2 * j - 1 \in 1..(2 * n + 2) /\ 2 * j \in 1..(2 * n + 2)
    BY <1>1
  <2>2. (2 * j - 1 + 1) \div 2 = j /\ (2 * j + 1) \div 2 = j /\ (2 * j - 1) % 2 = 1 /\ (2 * j) % 2 = 0
    BY <1>1
  <2>3. all[2 * j - 1] = both[2 * j - 1] /\ all[2 * j] = both[2 * j]
    BY <1>4, <2>1
  <2>4. /\ both[2 * j - 1] = <<places[(2 * j - 1 + 1) \div 2], (2 * j - 1) % 2 = 0>>
        /\ both[2 * j] = <<places[(2 * j + 1) \div 2], (2 * j) % 2 = 0>>
    BY <1>3, <2>1
  <2>5. ((2 * j - 1) % 2 = 0) = FALSE /\ ((2 * j) % 2 = 0) = TRUE
    BY <2>2
  <2> QED BY <2>2, <2>3, <2>4, <2>5
<1>6. ASSUME NEW i \in 1..(2 * n) PROVE all[i][1] \in ToSet(p)
  <2>1. i \in 1..(2 * n + 2) /\ (i + 1) \div 2 \in 1..n
    BY <1>1
  <2>2. all[i][1] = p[(i + 1) \div 2]
    BY <1>1, <1>3, <1>4, <2>1
  <2>3. (i + 1) \div 2 \in DOMAIN p
    BY <2>1 DEF n
  <2> QED BY <2>2, <2>3 DEF ToSet
<1>7. ASSUME NEW j \in 1..n
      PROVE  all[2 * j - 1] = <<p[j], FALSE>> /\ all[2 * j] = <<p[j], TRUE>>
  <2>1. j \in 1..(n + 1) /\ places[j] = p[j]
    BY <1>1
  <2> QED BY <1>5, <2>1
<1>8. all[2 * n + 1] = <<".", FALSE>>
  <2>1. n + 1 \in 1..(n + 1) /\ 2 * (n + 1) - 1 = 2 * n + 1
    BY <1>1
  <2> QED BY <1>1, <1>5, <2>1
<1> QED BY <1>1, <1>4, <1>6, <1>7, <1>8 DEF all, both, places, n

LEMMA FindsOwn == files \subseteq Files => OwnExecutable
<1> SUFFICES ASSUME files \subseteq Files PROVE OwnExecutable
  OBVIOUS
<1> DEFINE S == ToSet(PackagePlaces) \cup {".", "PATH"}
           p == PackagePlaces
           n == Len(p)
           all == BothNames(p \o <<".">>) \o << <<"PATH", FALSE>> >>
           here == {f \in files : f[1] \in ToSet(p)}
<1>1. p \in Seq(S) /\ n = 8 /\ p[7] = "p" /\ p[8] = "examples/p"
  BY DEF PackagePlaces, ToSet
<1>2. /\ all \in Seq(S \X BOOLEAN) /\ DOMAIN all = 1..(2 * n + 3)
      /\ \A i \in 1..(2 * n) : all[i][1] \in ToSet(p)
      /\ \A j \in 1..n : all[2 * j - 1] = <<p[j], FALSE>> /\ all[2 * j] = <<p[j], TRUE>>
      /\ all[2 * n + 1] = <<".", FALSE>> /\ all[2 * n + 3] = <<"PATH", FALSE>>
  <2>1. "." \in S /\ "PATH" \in S
    OBVIOUS
  <2> HIDE DEF S, p
  <2> QED BY <1>1, <2>1, Candidates
<1>3. FindExecutable(TRUE) = FirstOf(all, files)
  BY DEF FindExecutable
<1>4. files \subseteq S \X BOOLEAN /\ Absent \notin files
  BY EnvironmentAssumption DEF Files
<1>5. \A s \in ToSet(p) : \E j \in 1..8 : s = p[j]
  BY <1>1 DEF ToSet
<1> HIDE DEF all, p, n, S
<1>6. ASSUME NEW k \in 1..19, all[k] \in files
      PROVE  \E i \in 1..k : FindExecutable(TRUE) = all[i] /\ all[i] \in files
  <2>1. DOMAIN all = 1..19
    BY <1>1, <1>2
  <2> QED BY <1>3, <1>6, <2>1, FirstFound
<1>7. ASSUME NEW f \in here PROVE FindExecutable(TRUE) \in here
  <2>1. PICK j \in 1..8 : f[1] = p[j]
    BY <1>5
  <2>2. f = <<p[j], FALSE>> \/ f = <<p[j], TRUE>>
    <3>1. PICK s \in S, b \in BOOLEAN : f = <<s, b>>
      BY <1>4
    <3>2. s = p[j]
      BY <2>1, <3>1
    <3> QED BY <3>1, <3>2
  <2>3. \E k \in 1..16 : all[k] = f
    <3>1. all[2 * j - 1] = f \/ all[2 * j] = f
      BY <1>1, <1>2, <2>2
    <3> QED BY <3>1
  <2>4. PICK k \in 1..16 : all[k] = f
    BY <2>3
  <2>5. PICK i \in 1..k : FindExecutable(TRUE) = all[i] /\ all[i] \in files
    <3>1. k \in 1..19
      OBVIOUS
    <3> QED BY <1>6, <2>4, <3>1
  <2>6. all[i][1] \in ToSet(p)
    <3>1. i \in 1..(2 * n)
      BY <1>1
    <3> QED BY <1>2, <3>1
  <2> QED BY <2>5, <2>6
<1>8. ASSUME ExecutableInPackage # Absent PROVE FindExecutable(TRUE) # Absent
  <2> DEFINE few == << <<"p", FALSE>>, <<"examples/p", FALSE>>, <<".", FALSE>>, <<"PATH", FALSE>> >>
  <2>1. \E i \in DOMAIN few : few[i] \in files
    <3>1. FirstOf(few, files) # Absent
      BY <1>8 DEF ExecutableInPackage
    <3> HIDE DEF few
    <3> QED BY <3>1, NoneFound
  <2>2. \E f \in {<<"p", FALSE>>, <<"examples/p", FALSE>>, <<".", FALSE>>, <<"PATH", FALSE>>} : f \in files
    <3>1. DOMAIN few = 1..4
      OBVIOUS
    <3>2. few[1] \in files \/ few[2] \in files \/ few[3] \in files \/ few[4] \in files
      <4> HIDE DEF few
      <4> QED BY <2>1, <3>1
    <3> QED BY <3>2
  <2>3. all[13] = <<"p", FALSE>> /\ all[15] = <<"examples/p", FALSE>>
    <3>1. 7 \in 1..n /\ 8 \in 1..n /\ 2 * 7 - 1 = 13 /\ 2 * 8 - 1 = 15
      BY <1>1
    <3>2. all[2 * 7 - 1] = <<p[7], FALSE>> /\ all[2 * 8 - 1] = <<p[8], FALSE>>
      BY <1>2, <3>1
    <3> QED BY <1>1, <3>1, <3>2
  <2>4. all[17] = <<".", FALSE>> /\ all[19] = <<"PATH", FALSE>>
    <3>1. 2 * n + 1 = 17 /\ 2 * n + 3 = 19
      BY <1>1
    <3> QED BY <1>2, <3>1
  <2>5. \E k \in 1..19 : all[k] \in files
    <3>1. 13 \in 1..19 /\ 15 \in 1..19 /\ 17 \in 1..19 /\ 19 \in 1..19
      OBVIOUS
    <3> QED BY <2>2, <2>3, <2>4, <3>1
  <2>6. \E i : FindExecutable(TRUE) = all[i] /\ all[i] \in files
    BY <1>6, <2>5
  <2> QED BY <1>4, <2>6
<1> QED BY <1>7, <1>8 DEF OwnExecutable, p

\* What a launch file says of a process is what happens.
THEOREM StartedAsAskedHolds == EnvironmentSpec => []StartedAsAsked
<1> DEFINE Inv == AskedInv /\ files \subseteq Files
<1>1. EnvironmentInit => Inv
  BY DEF EnvironmentInit, AskedInv, kSubset
<1>2. Inv /\ [EnvironmentNext]_environmentVars => Inv'
  <2> SUFFICES ASSUME Inv, [EnvironmentNext]_environmentVars PROVE Inv'
    OBVIOUS
  <2>1. \A v \in Vars, x \in Texts, e \in Settings : [e EXCEPT ![v] = x] \in Settings
    BY DEF Settings
  <2>2. Strings \subseteq Texts /\ Absent \in Texts
    BY DEF Texts
  <2>3. ASSUME NEW v \in Vars, NEW x \in Strings, SetVariable(v, x) PROVE Inv'
    BY <2>1, <2>2, <2>3 DEF AskedInv, SetVariable, Settings
  <2>4. ASSUME NEW v \in Vars, UnsetVariable(v) PROVE Inv'
    BY <2>1, <2>2, <2>4 DEF AskedInv, UnsetVariable, Settings
  <2>5. ASSUME NEW v \in Vars, NEW x \in Texts, WriteEnviron(v, x) PROVE Inv'
    BY <2>1, <2>5 DEF AskedInv, WriteEnviron, Settings
  <2>6. CASE UNCHANGED environmentVars
    BY <2>6 DEF AskedInv, environmentVars
  <2> QED BY <2>3, <2>4, <2>5, <2>6 DEF EnvironmentNext
<1>3. Inv => StartedAsAsked
  BY AskedGives, ConditionsMean, FindsOwn DEF StartedAsAsked
<1> QED BY <1>1, <1>2, <1>3, PTL DEF EnvironmentSpec
-----------------------------------------------------------------------------
(* LaunchScopes, for any names, values and descriptions.                     *)

Configurations == [Keys -> Values \cup {Unset} \cup Seq(Values)]
Visited == [pushed : BOOLEAN, open : Nat, before : Configurations]

ScopesTypeOK ==
  /\ configs \in Configurations /\ saved \in Seq(Configurations) /\ namespaces \in Seq(Values)
  /\ frames \in Seq(Visited) /\ loose \in BOOLEAN

\* How much a frame adds to the stack as it is entered.
Entered(frame) == IF frame.pushed THEN 1 ELSE 0

\* at[i] is the height of the stack as frame i was entered: on it are, frame by frame,
\* what was configured before it, if it pushed a scope, and what it has pushed since.
Heights(at, fs, stack) ==
  /\ at \in Seq(Nat) /\ Len(at) = Len(fs)
  /\ \A i, j \in 1..Len(fs) : i <= j => at[i] <= at[j]
  /\ \A i \in 1..(Len(fs) - 1) : at[i + 1] = at[i] + fs[i].open + Entered(fs[i + 1])
  /\ fs # <<>> => Len(stack) = at[Len(fs)] + fs[Len(fs)].open
  /\ \A i \in 1..Len(fs) : fs[i].pushed =>
       at[i] \in 1..Len(stack) /\ stack[at[i]] = fs[i].before

\* While pushes and pops match, the stack is as high as the frames have made it.
StackInv == ~loose => \E at : Heights(at, frames, saved)

LEMMA FrontAndLast ==
  ASSUME NEW S, NEW s \in Seq(S), s # <<>>
  PROVE  /\ Len(s) \in Nat \ {0} /\ Front(s) \in Seq(S) /\ Len(Front(s)) = Len(s) - 1
         /\ \A i \in 1..(Len(s) - 1) : Front(s)[i] = s[i]
         /\ Last(s) = s[Len(s)] /\ Last(s) \in S
<1>1. Len(s) \in Nat \ {0}
  BY EmptySeq
<1>2. s[Len(s)] \in S
  BY <1>1, ElementOfSeq
<1> QED BY <1>1, <1>2, SubSeqProperties DEF Front, Last

LEMMA OneMore ==
  ASSUME NEW S, NEW s \in Seq(S), NEW x \in S
  PROVE  /\ Append(s, x) \in Seq(S) /\ Append(s, x) # <<>> /\ Len(s) \in Nat
         /\ Len(Append(s, x)) = Len(s) + 1
         /\ \A i \in 1..Len(s) : Append(s, x)[i] = s[i]
         /\ Append(s, x)[Len(s) + 1] = x
  BY AppendProperties

\* Entering: the new frame stands on what there is, with the scope it pushes if it does.
LEMMA HeightsEntered ==
  ASSUME NEW fs \in Seq(Visited), fs # <<>>, NEW stack \in Seq(Configurations), NEW at,
         Heights(at, fs, stack), NEW c \in Configurations, NEW pushed \in BOOLEAN,
         NEW upper \in Seq(Configurations),
         upper = IF pushed THEN Append(stack, c) ELSE stack
  PROVE  LET f == [pushed |-> pushed, open |-> 0, before |-> c]
         IN Append(fs, f) \in Seq(Visited) /\ \E higher : Heights(higher, Append(fs, f), upper)
<1> DEFINE f == [pushed |-> pushed, open |-> 0, before |-> c]
           n == Len(fs)
           gs == Append(fs, f)
           h == Len(stack) + Entered(f)
           higher == Append(at, h)
<1>1. f \in Visited /\ f.pushed = pushed /\ f.open = 0 /\ f.before = c /\ h \in Nat
  BY LenProperties DEF Visited, Entered
<1>2. /\ gs \in Seq(Visited) /\ gs # <<>> /\ n \in Nat /\ Len(gs) = n + 1
      /\ (\A i \in 1..n : gs[i] = fs[i]) /\ gs[n + 1] = f
  <2> HIDE DEF f
  <2> QED BY <1>1, OneMore
<1>3. /\ at \in Seq(Nat) /\ Len(at) = n /\ n # 0
      /\ \A i, j \in 1..n : i <= j => at[i] <= at[j]
      /\ \A i \in 1..(n - 1) : at[i + 1] = at[i] + fs[i].open + Entered(fs[i + 1])
      /\ Len(stack) = at[n] + fs[n].open
      /\ \A i \in 1..n : fs[i].pushed => at[i] \in 1..Len(stack) /\ stack[at[i]] = fs[i].before
  BY <1>2, EmptySeq DEF Heights
<1>4. /\ higher \in Seq(Nat) /\ Len(higher) = n + 1
      /\ (\A i \in 1..n : higher[i] = at[i]) /\ higher[n + 1] = h
  <2> HIDE DEF h
  <2> QED BY <1>1, <1>3, OneMore
<1>5. /\ \A i \in 1..n : at[i] \in Nat /\ fs[i] \in Visited /\ fs[i].open \in Nat
      /\ n \in 1..n /\ Len(stack) \in Nat
  <2>1. n \in 1..n /\ Len(stack) \in Nat
    BY <1>2, <1>3, LenProperties
  <2>2. \A i \in 1..n : at[i] \in Nat /\ fs[i] \in Visited
    BY <1>3, ElementOfSeq
  <2> QED BY <2>1, <2>2 DEF Visited
<1>6. h = at[n] + fs[n].open + Entered(f) /\ h >= at[n] /\ h >= Len(stack)
  <2>1. Entered(f) \in Nat
    BY DEF Entered
  <2> QED BY <1>3, <1>5, <2>1
<1>7. /\ Len(upper) = h
      /\ \A i \in 1..Len(stack) : upper[i] = stack[i]
      /\ pushed => h \in 1..h /\ upper[h] = c
  <2>1. CASE pushed
    <3>1. upper = Append(stack, c) /\ h = Len(stack) + 1
      BY <2>1 DEF Entered
    <3> QED BY <1>5, <3>1, OneMore
  <2>2. CASE ~pushed
    BY <1>5, <2>2 DEF Entered
  <2> QED BY <2>1, <2>2
<1> HIDE DEF f, gs, n, h, higher
<1>8. ASSUME NEW i \in 1..(n + 1), NEW j \in 1..(n + 1), i <= j PROVE higher[i] <= higher[j]
  <2>1. CASE j \in 1..n
    <3>1. i \in 1..n
      BY <1>2, <1>8, <2>1
    <3> QED BY <1>3, <1>4, <1>8, <2>1, <3>1
  <2>2. CASE j = n + 1 /\ i \in 1..n
    <3>1. at[i] <= at[n] /\ at[i] \in Nat /\ at[n] \in Nat
      BY <1>2, <1>3, <1>5, <2>2
    <3> QED BY <1>1, <1>4, <1>6, <2>2, <3>1
  <2>3. CASE j = n + 1 /\ i = n + 1
    BY <1>1, <1>4, <2>3
  <2> QED BY <1>2, <2>1, <2>2, <2>3
<1>9. ASSUME NEW i \in 1..n PROVE higher[i + 1] = higher[i] + gs[i].open + Entered(gs[i + 1])
  <2>1. CASE i \in 1..(n - 1)
    <3>1. i + 1 \in 1..n
      BY <1>2, <2>1
    <3> QED BY <1>2, <1>3, <1>4, <2>1, <3>1
  <2>2. CASE i = n
    BY <1>2, <1>4, <1>6, <2>2
  <2> QED BY <1>2, <2>1, <2>2
<1>10. ASSUME NEW i \in 1..(n + 1), gs[i].pushed
       PROVE  higher[i] \in 1..Len(upper) /\ upper[higher[i]] = gs[i].before
  <2>1. CASE i \in 1..n
    <3>1. at[i] \in 1..Len(stack) /\ stack[at[i]] = fs[i].before
      BY <1>2, <1>3, <1>10, <2>1
    <3>2. at[i] \in 1..h
      BY <1>1, <1>5, <1>6, <3>1
    <3> QED BY <1>2, <1>4, <1>7, <2>1, <3>1, <3>2
  <2>2. CASE i = n + 1
    BY <1>1, <1>2, <1>4, <1>7, <1>10, <2>2
  <2> QED BY <1>2, <2>1, <2>2
<1>11. Len(upper) = higher[n + 1] + gs[n + 1].open
  BY <1>1, <1>2, <1>4, <1>7
<1>12. Heights(higher, gs, upper)
  BY <1>2, <1>4, <1>8, <1>9, <1>10, <1>11 DEF Heights
<1> QED BY <1>2, <1>12 DEF gs, f

\* Leaving: a scope that the frame has pushed is on top of the stack, and what was
\* configured before it is what is saved there.
LEMMA HeightsLeft ==
  ASSUME NEW fs \in Seq(Visited), fs # <<>>, NEW stack \in Seq(Configurations), NEW at,
         Heights(at, fs, stack), fs[Len(fs)].open = 0
  PROVE  /\ fs[Len(fs)].pushed => stack # <<>> /\ Last(stack) = fs[Len(fs)].before
         /\ \E lower : Heights(lower, Front(fs),
                               IF fs[Len(fs)].pushed THEN Front(stack) ELSE stack)
<1> DEFINE n == Len(fs)
           under == IF fs[n].pushed THEN Front(stack) ELSE stack
           lower == Front(at)
<1>1. /\ n \in Nat \ {0} /\ n \in 1..n /\ Front(fs) \in Seq(Visited) /\ Len(Front(fs)) = n - 1
      /\ \A i \in 1..(n - 1) : Front(fs)[i] = fs[i]
  BY FrontAndLast
<1>2. /\ at \in Seq(Nat) /\ Len(at) = n /\ at # <<>>
      /\ \A i, j \in 1..n : i <= j => at[i] <= at[j]
      /\ \A i \in 1..(n - 1) : at[i + 1] = at[i] + fs[i].open + Entered(fs[i + 1])
      /\ Len(stack) = at[n] + fs[n].open
      /\ \A i \in 1..n : fs[i].pushed => at[i] \in 1..Len(stack) /\ stack[at[i]] = fs[i].before
  BY <1>1, EmptySeq DEF Heights
<1>3. /\ lower \in Seq(Nat) /\ Len(lower) = n - 1
      /\ \A i \in 1..(n - 1) : lower[i] = at[i]
  <2>1. at \in Seq(Nat) /\ at # <<>> /\ Len(at) = n
    BY <1>2
  <2> HIDE DEF n
  <2>2. Front(at) \in Seq(Nat) /\ Len(Front(at)) = n - 1 /\ \A i \in 1..(Len(at) - 1) : Front(at)[i] = at[i]
    BY <2>1, FrontAndLast
  <2> QED BY <2>1, <2>2
<1>4. /\ \A i \in 1..n : at[i] \in Nat /\ fs[i] \in Visited /\ fs[i].open \in Nat
      /\ Len(stack) \in Nat
  <2>1. \A i \in 1..n : at[i] \in Nat /\ fs[i] \in Visited
    BY <1>2, ElementOfSeq
  <2> QED BY <2>1, LenProperties DEF Visited
<1>5. Len(stack) = at[n]
  BY <1>1, <1>2, <1>4
<1>6. fs[n].pushed => stack # <<>> /\ Last(stack) = fs[n].before
  BY <1>1, <1>2, <1>5, EmptySeq DEF Last
<1>7. /\ Len(under) = at[n] - Entered(fs[n])
      /\ \A i \in 1..Len(under) : under[i] = stack[i]
  <2>1. CASE fs[n].pushed
    <3>1. /\ under = Front(stack) /\ Len(Front(stack)) = Len(stack) - 1
          /\ \A i \in 1..(Len(stack) - 1) : Front(stack)[i] = stack[i]
      BY <1>6, <2>1, FrontAndLast
    <3> HIDE DEF under, n
    <3> QED BY <1>5, <2>1, <3>1 DEF Entered
  <2>2. CASE ~fs[n].pushed
    BY <1>1, <1>4, <1>5, <2>2 DEF Entered
  <2> QED BY <2>1, <2>2
<1> HIDE DEF n, under, lower
<1>8. ASSUME NEW i \in 1..(n - 1)
      PROVE  /\ lower[i] = at[i] /\ Front(fs)[i] = fs[i] /\ i \in 1..n /\ n - 1 \in 1..n
             /\ at[i] <= at[n - 1]
  BY <1>1, <1>2, <1>3
<1>9. n - 1 \in 1..n => Len(under) = at[n - 1] + fs[n - 1].open
  <2>1. ASSUME n - 1 \in 1..n PROVE Len(under) = at[n - 1] + fs[n - 1].open
    <3>1. n - 1 \in 1..(n - 1) /\ n - 1 + 1 = n
      BY <1>1, <2>1
    <3>2. at[n] = at[n - 1] + fs[n - 1].open + Entered(fs[n])
      BY <1>2, <3>1
    <3>3. Entered(fs[n]) \in Nat
      BY DEF Entered
    <3> QED BY <1>4, <1>7, <2>1, <3>2, <3>3
  <2> QED BY <2>1
<1>10. \A i, j \in 1..(n - 1) : i <= j => lower[i] <= lower[j]
  BY <1>2, <1>8
<1>11. ASSUME NEW i \in 1..(n - 1 - 1)
       PROVE  lower[i + 1] = lower[i] + Front(fs)[i].open + Entered(Front(fs)[i + 1])
  <2>1. i \in 1..(n - 1) /\ i + 1 \in 1..(n - 1)
    BY <1>1
  <2> QED BY <1>2, <1>8, <2>1
<1>12. ASSUME NEW i \in 1..(n - 1), Front(fs)[i].pushed
       PROVE  lower[i] \in 1..Len(under) /\ under[lower[i]] = Front(fs)[i].before
  <2>1. at[i] \in 1..Len(stack) /\ stack[at[i]] = fs[i].before
    BY <1>2, <1>8, <1>12
  <2>2. at[i] <= Len(under)
    BY <1>4, <1>8, <1>9
  <2>3. Len(under) \in Int
    BY <1>4, <1>8, <1>9
  <2>4. at[i] \in 1..Len(under)
    BY <1>4, <2>1, <2>2, <2>3
  <2> QED BY <1>7, <1>8, <2>1, <2>4
<1>13. Front(fs) # <<>> => Len(under) = lower[n - 1] + Front(fs)[n - 1].open
  <2>1. ASSUME Front(fs) # <<>> PROVE n - 1 \in 1..(n - 1) /\ n - 1 \in 1..n
    BY <1>1, <2>1, EmptySeq
  <2> QED BY <1>8, <1>9, <2>1
<1>14. Heights(lower, Front(fs), under)
  BY <1>1, <1>3, <1>10, <1>11, <1>12, <1>13 DEF Heights
<1> QED BY <1>6, <1>14 DEF n, under

\* Explicit pushes and pops change what the innermost frame has open.
LEMMA HeightsOpen ==
  ASSUME NEW fs \in Seq(Visited), NEW gs \in Seq(Visited), fs # <<>>, Len(gs) = Len(fs),
         NEW stack \in Seq(Configurations), NEW other \in Seq(Configurations),
         NEW at, Heights(at, fs, stack),
         \A i \in 1..Len(fs) : gs[i].pushed = fs[i].pushed /\ gs[i].before = fs[i].before,
         \A i \in 1..(Len(fs) - 1) : gs[i].open = fs[i].open,
         Len(other) - Len(stack) = gs[Len(fs)].open - fs[Len(fs)].open,
         \A i \in 1..Len(stack) : i <= Len(other) => other[i] = stack[i]
  PROVE  Heights(at, gs, other)
<1> DEFINE n == Len(fs)
<1>1. n \in Nat \ {0} /\ n \in 1..n
  BY EmptySeq
<1>2. /\ at \in Seq(Nat) /\ Len(at) = n
      /\ \A i, j \in 1..n : i <= j => at[i] <= at[j]
      /\ \A i \in 1..(n - 1) : at[i + 1] = at[i] + fs[i].open + Entered(fs[i + 1])
      /\ Len(stack) = at[n] + fs[n].open
      /\ \A i \in 1..n : fs[i].pushed => at[i] \in 1..Len(stack) /\ stack[at[i]] = fs[i].before
  BY DEF Heights
<1>3. \A i \in 1..n : at[i] \in Nat /\ fs[i].open \in Nat /\ gs[i].open \in Nat
  <2>1. \A i \in 1..n : at[i] \in Nat /\ fs[i] \in Visited /\ gs[i] \in Visited
    BY <1>2, ElementOfSeq
  <2> QED BY <2>1 DEF Visited
<1>4. Len(stack) \in Nat /\ Len(other) \in Nat
  BY LenProperties
<1>5. Len(other) = at[n] + gs[n].open
  <2>1. at[n] \in Nat /\ fs[n].open \in Nat /\ gs[n].open \in Nat /\ Len(stack) = at[n] + fs[n].open
    BY <1>1, <1>2, <1>3
  <2>2. Len(other) - Len(stack) = gs[n].open - fs[n].open
    OBVIOUS
  <2> HIDE DEF n
  <2> QED BY <1>4, <2>1, <2>2
<1>6. ASSUME NEW i \in 1..(n - 1) PROVE at[i + 1] = at[i] + gs[i].open + Entered(gs[i + 1])
  <2>1. i + 1 \in 1..n
    BY <1>1
  <2> QED BY <1>2, <2>1 DEF Entered
<1>7. ASSUME NEW i \in 1..n, gs[i].pushed
      PROVE  at[i] \in 1..Len(other) /\ other[at[i]] = gs[i].before
  <2>1. at[i] \in 1..Len(stack) /\ stack[at[i]] = fs[i].before
    BY <1>2, <1>7
  <2>2. at[i] <= at[n] /\ at[n] <= Len(other)
    BY <1>1, <1>2, <1>3, <1>5
  <2>3. at[i] \in 1..Len(other)
    BY <1>1, <1>3, <1>4, <2>1, <2>2
  <2> QED BY <2>1, <2>3
<1> QED BY <1>2, <1>5, <1>6, <1>7 DEF Heights

LEMMA ScopeType ==
  ASSUME configs \in Configurations, NEW f \in BOOLEAN, NEW a,
         a = Empty \/ a \in Arguments
  PROVE  Scope(f, a) \in Configurations
<1>1. Empty \in Configurations
  BY DEF Empty, Configurations
<1>2. \A n \in Names : a[n] # Unset => a[n] \in Values
  BY DEF Empty, Arguments, Keys
<1> DEFINE begin == IF f THEN configs ELSE Empty
<1>3. begin \in Configurations
  BY <1>1
<1>4. Scope(f, a) = [n \in Keys |-> IF n \in Names /\ a[n] # Unset THEN a[n] ELSE begin[n]]
  BY DEF Scope
<1> HIDE DEF begin
<1> QED BY <1>2, <1>3, <1>4 DEF Configurations

\* One frame of the sequence, with another count of what is open in it.
LEMMA OpenChanged ==
  ASSUME NEW fs \in Seq(Visited), fs # <<>>, NEW k \in Nat
  PROVE  LET gs == [fs EXCEPT ![Len(fs)].open = k]
         IN /\ gs \in Seq(Visited) /\ Len(gs) = Len(fs) /\ gs[Len(fs)].open = k
            /\ \A i \in 1..Len(fs) : gs[i].pushed = fs[i].pushed /\ gs[i].before = fs[i].before
            /\ \A i \in 1..(Len(fs) - 1) : gs[i].open = fs[i].open
<1> DEFINE n == Len(fs)
           f == [fs[n] EXCEPT !.open = k]
<1>1. n \in Nat \ {0} /\ n \in 1..n /\ fs[n] \in Visited
  BY EmptySeq, ElementOfSeq
<1>2. /\ f \in Visited /\ f.pushed = fs[n].pushed /\ f.before = fs[n].before /\ f.open = k
  BY <1>1 DEF Visited
<1>3. [fs EXCEPT ![n].open = k] = [fs EXCEPT ![n] = f]
  OBVIOUS
<1> HIDE DEF f
<1>4. /\ [fs EXCEPT ![n] = f] \in Seq(Visited) /\ Len([fs EXCEPT ![n] = f]) = n
      /\ \A i \in 1..n : [fs EXCEPT ![n] = f][i] = IF i = n THEN f ELSE fs[i]
  BY <1>1, <1>2, ExceptSeq
<1> QED BY <1>1, <1>2, <1>3, <1>4

ScopesInv == ScopesTypeOK /\ StackInv

LEMMA ScopesBegin == ScopesInit => ScopesInv
<1> SUFFICES ASSUME ScopesInit PROVE ScopesInv
  OBVIOUS
<1>1. PICK n \in Names, v \in Values \cup {Unset} : configs = [Empty EXCEPT ![n] = v]
  BY DEF ScopesInit
<1>2. configs \in Configurations
  BY <1>1 DEF Empty, Configurations, Keys
<1> DEFINE f == [pushed |-> FALSE, open |-> 0, before |-> configs]
<1>3. f \in Visited /\ f.pushed = FALSE /\ f.open = 0
  BY <1>2 DEF Visited
<1>4. frames = <<f>> /\ saved = <<>> /\ namespaces = <<>> /\ loose = FALSE
  BY DEF ScopesInit, Frame
<1> HIDE DEF f
<1>5. ScopesTypeOK
  <2>1. <<>> \in Seq(Configurations) /\ <<>> \in Seq(Values) /\ <<f>> \in Seq(Visited)
    BY <1>3, EmptySeq
  <2> QED BY <1>2, <1>4, <2>1 DEF ScopesTypeOK
<1>6. Heights(<<0>>, frames, saved)
  BY <1>3, <1>4 DEF Heights
<1> QED BY <1>4, <1>5, <1>6 DEF ScopesInv, StackInv

LEMMA ScopesStep == ScopesInv /\ [ScopesNext]_svars => ScopesInv'
<1> SUFFICES ASSUME ScopesInv, [ScopesNext]_svars PROVE ScopesInv'
  OBVIOUS
<1> USE DEF ScopesInv, ScopesTypeOK
<1>1. Empty \in Configurations
  BY DEF Empty, Configurations
\* A step that leaves stack and frames alone.
<1>2. ASSUME configs' \in Configurations, namespaces' \in Seq(Values),
             saved' = saved, frames' = frames, loose' = loose
      PROVE  ScopesInv'
  BY <1>2 DEF StackInv
<1>3. \A n \in Keys, v \in Values \cup {Unset} : [configs EXCEPT ![n] = v] \in Configurations
  BY DEF Configurations
<1>4. frames # <<>> => Depth \in Nat \ {0} /\ Depth \in 1..Depth /\ Top \in Visited /\ Top.open \in Nat
  <2>1. frames # <<>> => Len(frames) \in Nat \ {0} /\ frames[Len(frames)] \in Visited
    BY EmptySeq, ElementOfSeq
  <2> QED BY <2>1 DEF Depth, Top, Visited
<1>5. ASSUME NEW f \in BOOLEAN, NEW a \in Arguments, EnterScope(f, a) PROVE ScopesInv'
  <2>1. /\ frames # <<>> /\ saved' = Append(saved, configs) /\ configs' = Scope(f, a)
        /\ frames' = Append(frames, [pushed |-> TRUE, open |-> 0, before |-> configs])
        /\ namespaces' = namespaces /\ loose' = loose
    BY <1>5 DEF EnterScope, Acting, PushScope, Frame
  <2>2. saved' \in Seq(Configurations) /\ configs' \in Configurations
    BY <2>1, AppendProperties, ScopeType
  <2>3. ASSUME NEW at, Heights(at, frames, saved)
        PROVE  frames' \in Seq(Visited) /\ \E higher : Heights(higher, frames', saved')
    BY <2>1, <2>2, <2>3, HeightsEntered
  <2>4. frames' \in Seq(Visited)
    <3>1. [pushed |-> TRUE, open |-> 0, before |-> configs] \in Visited
      BY DEF Visited
    <3> QED BY <2>1, <3>1, AppendProperties
  <2> QED BY <2>1, <2>2, <2>3, <2>4 DEF StackInv
<1>6. ASSUME EnterFails PROVE ScopesInv'
  BY <1>2, <1>6 DEF EnterFails
<1>7. ASSUME Enter PROVE ScopesInv'
  <2>1. /\ frames # <<>> /\ saved' = saved /\ configs' = configs
        /\ frames' = Append(frames, [pushed |-> FALSE, open |-> 0, before |-> configs])
        /\ namespaces' = namespaces /\ loose' = loose
    BY <1>7 DEF Enter, Acting, Frame
  <2>2. ASSUME NEW at, Heights(at, frames, saved)
        PROVE  \E higher : Heights(higher, frames', saved')
    BY <2>1, <2>2, HeightsEntered
  <2>3. frames' \in Seq(Visited)
    <3>1. [pushed |-> FALSE, open |-> 0, before |-> configs] \in Visited
      BY DEF Visited
    <3> QED BY <2>1, <3>1, AppendProperties
  <2> QED BY <2>1, <2>2, <2>3 DEF StackInv
<1>8. ASSUME Leave PROVE ScopesInv'
  <2>1. /\ frames # <<>> /\ frames' = Front(frames) /\ namespaces' = namespaces
        /\ loose' = (loose \/ Top.open > 0)
        /\ IF Top.pushed THEN PopScope ELSE UNCHANGED <<configs, saved>>
    BY <1>8 DEF Leave
  <2>2. frames' \in Seq(Visited) /\ loose' \in BOOLEAN
    BY <2>1, FrontAndLast
  <2>3. configs' \in Configurations /\ saved' \in Seq(Configurations)
    BY <2>1, FrontAndLast DEF PopScope
  <2>4. ASSUME ~loose' PROVE \E lower : Heights(lower, frames', saved')
    <3>1. ~loose /\ ~(Top.open > 0)
      BY <2>1, <2>4
    <3>2. Top.open = 0
      BY <1>4, <2>1, <3>1
    <3>3. PICK at : Heights(at, frames, saved)
      BY <3>1 DEF StackInv
    <3>4. /\ Top.pushed => saved # <<>>
          /\ \E lower : Heights(lower, Front(frames), IF Top.pushed THEN Front(saved) ELSE saved)
      BY <2>1, <3>2, <3>3, HeightsLeft DEF Top, Depth
    <3>5. saved' = IF Top.pushed THEN Front(saved) ELSE saved
      BY <2>1, <3>4 DEF PopScope
    <3> QED BY <2>1, <3>4, <3>5
  <2> QED BY <2>1, <2>2, <2>3, <2>4 DEF StackInv
<1>9. ASSUME NEW n \in Names, Substitute(n) PROVE ScopesInv'
  BY <1>2, <1>9 DEF Substitute
<1>10. ASSUME NEW n \in Names, NEW v \in Values, SetConfiguration(n, v) PROVE ScopesInv'
  BY <1>2, <1>3, <1>10 DEF SetConfiguration, Keys
<1>11. ASSUME NEW n \in Names, NEW d \in Values \cup {Unset}, NEW c \in SUBSET Values, Declare(n, d, c)
       PROVE  ScopesInv'
  <2>1. /\ configs' = [configs EXCEPT ![n] = d] \/ configs' = configs
        /\ saved' = saved /\ frames' = frames /\ namespaces' = namespaces /\ loose' = loose
    BY <1>11 DEF Declare
  <2>2. configs' \in Configurations
    BY <1>3, <2>1 DEF Keys
  <2> QED BY <1>2, <2>1, <2>2
<1>12. ASSUME NEW f \in BOOLEAN, PushConfigurations(f) PROVE ScopesInv'
  <2>1. /\ frames # <<>> /\ saved' = Append(saved, configs) /\ configs' = Scope(f, Empty)
        /\ frames' = [frames EXCEPT ![Len(frames)].open = Top.open + 1]
        /\ namespaces' = namespaces /\ loose' = loose
    BY <1>12 DEF PushConfigurations, Acting, PushScope, Depth, Top
  <2>2. /\ configs' \in Configurations
        /\ saved' \in Seq(Configurations) /\ Len(saved') = Len(saved) + 1 /\ Len(saved) \in Nat
        /\ \A i \in 1..Len(saved) : saved'[i] = saved[i]
    BY <2>1, OneMore, ScopeType
  <2>3. Top.open + 1 \in Nat
    BY <1>4, <2>1
  <2>4. /\ frames' \in Seq(Visited) /\ Len(frames') = Len(frames)
        /\ frames'[Len(frames)].open = Top.open + 1
        /\ \A i \in 1..Len(frames) :
             frames'[i].pushed = frames[i].pushed /\ frames'[i].before = frames[i].before
        /\ \A i \in 1..(Len(frames) - 1) : frames'[i].open = frames[i].open
    BY <2>1, <2>3, OpenChanged
  <2>5. Len(saved') - Len(saved) = frames'[Len(frames)].open - frames[Len(frames)].open
    BY <1>4, <2>1, <2>2, <2>4 DEF Top, Depth
  <2>6. ASSUME NEW at, Heights(at, frames, saved) PROVE Heights(at, frames', saved')
    <3>1. frames # <<>> /\ frames \in Seq(Visited) /\ saved \in Seq(Configurations)
      BY <2>1
    <3>2. saved' \in Seq(Configurations) /\ \A i \in 1..Len(saved) : i <= Len(saved') => saved'[i] = saved[i]
      BY <2>2
    <3> QED BY <2>4, <2>5, <2>6, <3>1, <3>2, HeightsOpen
  <2> QED BY <2>1, <2>2, <2>4, <2>6 DEF StackInv
<1>13. ASSUME NEW f \in BOOLEAN, TimerGroup(f) PROVE ScopesInv'
  <2>1. /\ saved' = Append(saved, configs) /\ configs' = Scope(f, Empty) /\ loose' = TRUE
        /\ namespaces' = namespaces /\ frames' = frames
    BY <1>13 DEF TimerGroup, PushScope
  <2>2. saved' \in Seq(Configurations) /\ configs' \in Configurations
    BY <2>1, AppendProperties, ScopeType
  <2> QED BY <2>1, <2>2 DEF StackInv
<1>14. ASSUME PopConfigurations PROVE ScopesInv'
  <2> DEFINE k == IF Top.open > 0 THEN Top.open - 1 ELSE 0
  <2>1. /\ frames # <<>> /\ PopScope /\ namespaces' = namespaces
        /\ frames' = [frames EXCEPT ![Len(frames)].open = k]
        /\ loose' = (loose \/ Top.open = 0)
    BY <1>14 DEF PopConfigurations, Acting, Depth, Top
  <2>2. configs' \in Configurations /\ saved' \in Seq(Configurations)
    BY <2>1, FrontAndLast DEF PopScope
  <2>3. k \in Nat
    BY <1>4, <2>1
  <2>4. /\ frames' \in Seq(Visited) /\ Len(frames') = Len(frames)
        /\ frames'[Len(frames)].open = k
        /\ \A i \in 1..Len(frames) :
             frames'[i].pushed = frames[i].pushed /\ frames'[i].before = frames[i].before
        /\ \A i \in 1..(Len(frames) - 1) : frames'[i].open = frames[i].open
    <3> HIDE DEF k
    <3> QED BY <2>1, <2>3, OpenChanged
  <2>5. ASSUME ~loose' PROVE \E at : Heights(at, frames', saved')
    <3>1. ~loose /\ Top.open # 0
      BY <2>1, <2>5
    <3>2. Top.open > 0 /\ k = Top.open - 1 /\ Top.open \in Nat /\ Depth \in 1..Depth
      BY <1>4, <2>1, <3>1
    <3>3. PICK at : Heights(at, frames, saved)
      BY <3>1 DEF StackInv
    <3>4. Len(saved) = at[Depth] + Top.open /\ at[Depth] \in Nat
      <4>1. at \in Seq(Nat) /\ Len(at) = Depth
        BY <3>3 DEF Heights, Depth
      <4> QED BY <2>1, <3>2, <3>3, <4>1, ElementOfSeq DEF Heights, Depth, Top
    <3>5. saved # <<>>
      BY <3>2, <3>4, EmptySeq
    <3>6. /\ saved' = Front(saved) /\ Len(saved) \in Nat /\ Len(saved') = Len(saved) - 1
          /\ \A i \in 1..(Len(saved) - 1) : saved'[i] = saved[i]
      BY <2>1, <3>5, FrontAndLast DEF PopScope
    <3>7. \A i \in 1..Len(saved) : i <= Len(saved') => saved'[i] = saved[i]
      BY <3>6
    <3>8. Len(saved') - Len(saved) = frames'[Len(frames)].open - frames[Len(frames)].open
      BY <2>4, <3>2, <3>6 DEF Top, Depth
    <3>9. Heights(at, frames', saved')
      BY <2>1, <2>2, <2>4, <3>3, <3>7, <3>8, HeightsOpen
    <3> QED BY <3>9
  <2>6. loose' \in BOOLEAN
    BY <2>1
  <2> QED BY <2>1, <2>2, <2>4, <2>5, <2>6 DEF StackInv
<1>15. ASSUME PopNamespace PROVE ScopesInv'
  <2>1. namespaces' \in Seq(Values)
    BY <1>15, FrontAndLast DEF PopNamespace
  <2>2. configs' \in Configurations
    BY <1>15, <2>1 DEF PopNamespace, Configurations, Keys
  <2> QED BY <1>2, <1>15, <2>1, <2>2 DEF PopNamespace
<1>16. ASSUME NEW v \in Values, PushNamespace(v) PROVE ScopesInv'
  <2>1. namespaces' \in Seq(Values)
    BY <1>16, AppendProperties DEF PushNamespace
  <2>2. configs' \in Configurations
    BY <1>16, <2>1 DEF PushNamespace, Configurations, Keys
  <2> QED BY <1>2, <1>16, <2>1, <2>2 DEF PushNamespace
<1>17. CASE UNCHANGED svars
  BY <1>2, <1>17 DEF svars
<1> QED BY <1>5, <1>6, <1>7, <1>8, <1>9, <1>10, <1>11, <1>12, <1>13, <1>14, <1>15, <1>16, <1>17
        DEF ScopesNext

\* What is configured in a scope ends with it, and nothing else does.
THEOREM ScopeEndsHolds == ScopesSpec => ScopeEnds
<1> DEFINE Restores == Len(frames') < Len(frames) /\ Top.pushed /\ ~loose' => configs' = Top.before
<1>1. ScopesInv /\ [ScopesNext]_svars => [Restores]_svars
  <2> SUFFICES ASSUME ScopesInv, ScopesNext, Len(frames') < Len(frames), Top.pushed, ~loose'
               PROVE  configs' = Top.before
    OBVIOUS
  <2>1. Len(frames) \in Nat /\ frames \in Seq(Visited)
    BY LenProperties DEF ScopesInv, ScopesTypeOK
  <2>2. Leave
    <3>1. ASSUME frames' = frames PROVE FALSE
      BY <2>1, <3>1
    <3>2. ASSUME NEW f, frames' = Append(frames, Frame(f)), frames # <<>> PROVE FALSE
      <4>1. Len(Append(frames, Frame(f))) = Len(frames) + 1
        BY <2>1, AppendProperties
      <4> QED BY <2>1, <3>2, <4>1
    <3>3. ASSUME NEW k, frames' = [frames EXCEPT ![Depth].open = k] PROVE FALSE
      BY <2>1, <3>3
    <3> QED BY <3>1, <3>2, <3>3
            DEF ScopesNext, EnterScope, EnterFails, Enter, Substitute, SetConfiguration, Declare,
                PushConfigurations, TimerGroup, PopConfigurations, PopNamespace, PushNamespace, Acting
  <2>3. frames # <<>> /\ PopScope /\ ~loose /\ ~(Top.open > 0)
    BY <2>2 DEF Leave
  <2>4. Top.open \in Nat
    <3>1. Top \in Visited
      BY <2>1, <2>3, EmptySeq, ElementOfSeq DEF Top, Depth
    <3> QED BY <3>1 DEF Visited
  <2>5. Top.open = 0
    BY <2>3, <2>4
  <2>6. PICK at : Heights(at, frames, saved)
    BY <2>3 DEF ScopesInv, StackInv
  <2>7. saved # <<>> /\ Last(saved) = Top.before
    BY <2>1, <2>3, <2>5, <2>6, HeightsLeft DEF ScopesInv, ScopesTypeOK, Top, Depth
  <2> QED BY <2>3, <2>7 DEF PopScope
<1>2. ScopesSpec => []ScopesInv
  BY ScopesBegin, ScopesStep, PTL DEF ScopesSpec
<1> QED BY <1>1, <1>2, PTL DEF ScopesSpec, ScopeEnds

-----------------------------------------------------------------------------
(* TransformBuffer: the transforms                                           *)

\* The algebra that the search relies on: where one frame is as seen from another can
\* be turned round, and put together from where each is as seen from a third.
LEMMA Turned ==
  ASSUME NEW a \in Transforms, NEW b \in Transforms
  PROVE  /\ Compose(a, b) \in Transforms /\ Inverted(a) \in Transforms /\ Identity \in Transforms
         /\ Compose(Inverted(a), a) = Identity
         /\ Inverted(Compose(Inverted(a), b)) = Compose(Inverted(b), a)
  BY DEF Transforms, Compose, Inverted, Identity

LEMMA Chained ==
  ASSUME NEW a \in Transforms, NEW b \in Transforms, NEW c \in Transforms
  PROVE  Compose(Compose(Inverted(a), b), Compose(Inverted(b), c)) = Compose(Inverted(a), c)
<1>1. ASSUME NEW x \in Transforms, NEW y \in Transforms, NEW z \in Transforms
      PROVE  Compose(Compose(x, y), z) = Compose(x, Compose(y, z))
  BY DEF Transforms, Compose
<1>2. Compose(Identity, c) = c
  BY DEF Transforms, Compose, Identity
<1>3. Compose(Inverted(a), b) \in Transforms /\ Compose(Inverted(b), c) \in Transforms
      /\ Inverted(a) \in Transforms /\ Inverted(b) \in Transforms
  BY Turned
<1>4. Compose(Compose(Inverted(a), b), Compose(Inverted(b), c))
        = Compose(Inverted(a), Compose(b, Compose(Inverted(b), c)))
  BY <1>1, <1>3
<1>5. Compose(b, Compose(Inverted(b), c)) = Compose(Compose(b, Inverted(b)), c)
  BY <1>1, <1>3
<1>6. Compose(b, Inverted(b)) = Identity
  BY DEF Transforms, Compose, Inverted, Identity
<1> QED BY <1>2, <1>4, <1>5, <1>6

\* The frames between which there is a step.
Linked(graph, frame, next) == <<next, frame>> \in DOMAIN graph \/ <<frame, next>> \in DOMAIN graph

LEMMA GraphType ==
  ASSUME NEW graph \in Graphs
  PROVE  DOMAIN graph \subseteq Links /\ \A l \in DOMAIN graph : graph[l] \in Transforms
<1> DEFINE sent == {x \in [Links -> Transforms] :
                      \A l \in Links : \E kind \in Kinds : x[l] \in Readings[kind, l]}
           parts(L) == {[l \in L |-> x[l]] : x \in sent}
<1>1. Graphs = UNION {parts(L) : L \in SUBSET Links}
  BY DEF Graphs
<1> HIDE DEF parts
<1>2. PICK L \in SUBSET Links : graph \in parts(L)
  BY <1>1
<1>3. PICK x \in sent : graph = [l \in L |-> x[l]]
  BY <1>2 DEF parts
<1> QED BY <1>3

LEMMA StepsThere ==
  ASSUME NEW graph \in Graphs, NEW f, NEW g
  PROVE  (Steps(graph, f, g) # {} <=> Linked(graph, f, g)) /\ Steps(graph, f, g) \subseteq Transforms
<1>1. ASSUME NEW l \in DOMAIN graph PROVE graph[l] \in Transforms /\ Inverted(graph[l]) \in Transforms
  BY GraphType, Turned
<1> QED BY <1>1 DEF Steps, Linked

LEMMA PlacesRight ==
  ASSUME NEW at \in [Frames -> Transforms], NEW f \in Frames, NEW source \in Frames
  PROVE  SeenFrom(at, f, source) \in Transforms /\ SeenFrom(at, source, source) = Identity
<1>1. at[f] \in Transforms /\ at[source] \in Transforms
  OBVIOUS
<1>2. Inverted(at[f]) \in Transforms
  BY <1>1, Turned
<1> QED BY <1>1, <1>2, Turned DEF SeenFrom

\* A step from a frame that is right leads to one that is.
LEMMA StepsRight ==
  ASSUME NEW at \in [Frames -> Transforms], NEW graph, NEW S, Agrees(graph, at, S),
         NEW f \in Frames, NEW g \in Frames, f \in S, g \in S, NEW source \in Frames,
         NEW step \in Steps(graph, f, g)
  PROVE  Compose(step, SeenFrom(at, f, source)) = SeenFrom(at, g, source)
<1>1. at[f] \in Transforms /\ at[g] \in Transforms /\ at[source] \in Transforms
  OBVIOUS
<1>2. Inverted(SeenFrom(at, f, g)) = SeenFrom(at, g, f)
  BY <1>1, Turned DEF SeenFrom
<1>3. step = SeenFrom(at, g, f)
  <2>1. CASE <<g, f>> \in DOMAIN graph /\ step = graph[<<g, f>>]
    BY <2>1 DEF Agrees
  <2>2. CASE <<f, g>> \in DOMAIN graph /\ step = Inverted(graph[<<f, g>>])
    BY <1>2, <2>2 DEF Agrees
  <2> QED BY <2>1, <2>2 DEF Steps
<1>4. Compose(SeenFrom(at, g, f), SeenFrom(at, f, source)) = SeenFrom(at, g, source)
  BY <1>1, Chained DEF SeenFrom
<1> QED BY <1>3, <1>4

-----------------------------------------------------------------------------
(* TransformBuffer: the search                                               *)

\* What a search from one frame has found by the end of a layer: all of it is in
\* reach, and right where the transforms agree.
FoundRight(graph, source, found) ==
  /\ found \subseteq Frames \X Transforms /\ <<source, Identity>> \in found
  /\ Seen(found) \subseteq Component(graph, source)
  /\ \A at \in [Frames -> Transforms] :
       Agrees(graph, at, Component(graph, source)) =>
         \A x \in found : x[2] = SeenFrom(at, x[1], source)

\* What a layer adds.
LEMMA LayerAdds ==
  ASSUME NEW graph, NEW found, NEW y
  PROVE  y \in Explore(graph, found) <=>
           \/ y \in found
           \/ \E x \in found : \E f \in Frames \ Seen(found) :
                \E step \in Steps(graph, x[1], f) : y = <<f, Compose(step, x[2])>>
<1> DEFINE to(x, f) == {<<f, Compose(step, x[2])>> : step \in Steps(graph, x[1], f)}
           from(x) == UNION {to(x, f) : f \in Frames \ Seen(found)}
<1>1. Explore(graph, found) = found \cup UNION {from(x) : x \in found}
  BY DEF Explore
<1>2. \A x, f : y \in to(x, f) <=> \E step \in Steps(graph, x[1], f) : y = <<f, Compose(step, x[2])>>
  OBVIOUS
<1> HIDE DEF to
<1>3. y \in UNION {from(x) : x \in found}
        <=> \E x \in found : \E f \in Frames \ Seen(found) : y \in to(x, f)
  OBVIOUS
<1> QED BY <1>1, <1>2, <1>3

\* The frame that a step leads to is in the component of the one it comes from.
LEMMA StepStays ==
  ASSUME NEW graph \in Graphs, NEW source \in Frames, NEW f \in Component(graph, source),
         NEW g \in Frames, Linked(graph, f, g)
  PROVE  g \in Component(graph, source)
<1>1. ASSUME NEW S \in SUBSET Frames, source \in S, Closed(graph, S) PROVE g \in S
  <2>1. f \in S
    BY <1>1 DEF Component
  <2> QED BY <2>1, <1>1 DEF Closed, Linked
<1> QED BY <1>1 DEF Component

LEMMA LayerRight ==
  ASSUME NEW graph \in Graphs, NEW source \in Frames, NEW found,
         FoundRight(graph, source, found)
  PROVE  FoundRight(graph, source, Explore(graph, found)) /\ Seen(found) \subseteq Seen(Explore(graph, found))
<1> DEFINE joined == Component(graph, source)
           next == Explore(graph, found)
<1>1. found \subseteq next
  BY LayerAdds
<1>2. ASSUME NEW x \in found, NEW f \in Frames, NEW step \in Steps(graph, x[1], f)
      PROVE  /\ <<f, Compose(step, x[2])>> \in Frames \X Transforms /\ x[1] \in joined /\ f \in joined
             /\ x[1] \in Frames
  <2>1. x[1] \in Frames /\ x[2] \in Transforms /\ x[1] \in joined
    BY DEF FoundRight, Seen
  <2>2. step \in Transforms /\ Linked(graph, x[1], f)
    BY StepsThere
  <2>3. Compose(step, x[2]) \in Transforms
    BY <2>1, <2>2, Turned
  <2>4. f \in joined
    BY <2>1, <2>2, StepStays
  <2> QED BY <2>1, <2>3, <2>4
<1>3. ASSUME NEW y \in next PROVE y \in Frames \X Transforms /\ y[1] \in joined
  <2>1. CASE y \in found
    BY <2>1 DEF FoundRight, Seen
  <2>2. ASSUME NEW x \in found, NEW f \in Frames \ Seen(found), NEW step \in Steps(graph, x[1], f),
               y = <<f, Compose(step, x[2])>>
        PROVE  y \in Frames \X Transforms /\ y[1] \in joined
    BY <1>2, <2>2
  <2> QED BY <2>1, <2>2, LayerAdds
<1>4. ASSUME NEW at \in [Frames -> Transforms], Agrees(graph, at, joined), NEW y \in next
      PROVE  y[2] = SeenFrom(at, y[1], source)
  <2>1. CASE y \in found
    BY <1>4, <2>1 DEF FoundRight
  <2>2. ASSUME NEW x \in found, NEW f \in Frames \ Seen(found), NEW step \in Steps(graph, x[1], f),
               y = <<f, Compose(step, x[2])>>
        PROVE  y[2] = SeenFrom(at, y[1], source)
    <3>1. x[2] = SeenFrom(at, x[1], source)
      BY <1>4 DEF FoundRight
    <3>2. x[1] \in Frames /\ x[1] \in joined /\ f \in joined
      BY <1>2
    <3>3. Compose(step, SeenFrom(at, x[1], source)) = SeenFrom(at, f, source)
      BY <1>4, <3>2, StepsRight
    <3> QED BY <2>2, <3>1, <3>3
  <2> QED BY <2>1, <2>2, LayerAdds
<1>5. Seen(next) \subseteq joined
  BY <1>3 DEF Seen
<1>6. Seen(found) \subseteq Seen(next)
  BY <1>1 DEF Seen
<1>7. <<source, Identity>> \in next
  BY <1>1 DEF FoundRight
<1> QED BY <1>3, <1>4, <1>5, <1>6, <1>7 DEF FoundRight

\* A layer finds a frame, or there is none to be found.
LEMMA LayerMoves ==
  ASSUME NEW graph \in Graphs, NEW source \in Frames, NEW found,
         FoundRight(graph, source, found)
  PROVE  \/ Closed(graph, Seen(found)) /\ Explore(graph, found) = found
         \/ \E f \in Seen(Explore(graph, found)) : f \notin Seen(found)
<1>1. Seen(found) \subseteq Frames
  BY DEF FoundRight, Seen
<1>2. CASE \E x \in found : \E f \in Frames \ Seen(found) : Linked(graph, x[1], f)
  <2>1. PICK x \in found, f \in Frames \ Seen(found) : Linked(graph, x[1], f)
    BY <1>2
  <2>2. PICK step \in Steps(graph, x[1], f) : TRUE
    BY <2>1, StepsThere
  <2>3. <<f, Compose(step, x[2])>> \in Explore(graph, found)
    BY <2>1, <2>2, LayerAdds
  <2>4. f \in Seen(Explore(graph, found))
    BY <2>3 DEF Seen
  <2> QED BY <2>1, <2>4
<1>3. CASE ~ \E x \in found : \E f \in Frames \ Seen(found) : Linked(graph, x[1], f)
  <2>1. \A x \in found : \A f \in Frames \ Seen(found) : Steps(graph, x[1], f) = {}
    BY <1>3, StepsThere
  <2>2. Explore(graph, found) = found
    <3>1. ASSUME NEW y PROVE y \in Explore(graph, found) <=> y \in found
      BY <2>1, LayerAdds
    <3> QED BY <3>1
  <2>3. ASSUME NEW l \in DOMAIN graph PROVE l[1] \in Seen(found) <=> l[2] \in Seen(found)
    <3>1. l[1] \in Frames /\ l[2] \in Frames /\ l = <<l[1], l[2]>>
      <4>1. l \in Links /\ Links \subseteq Frames \X Frames
        BY BufferAssumption, GraphType
      <4> QED BY <4>1
    <3>2. Linked(graph, l[1], l[2]) /\ Linked(graph, l[2], l[1])
      BY <3>1 DEF Linked
    <3> QED BY <1>3, <3>1, <3>2 DEF Seen
  <2> QED BY <2>2, <2>3 DEF Closed
<1> QED BY <1>2, <1>3

\* The layers are there: the recursion in Explored has a function that solves it.
LayersTo(n, graph, source, layer) ==
  layer = [k \in 0..n |->
            IF k = 0 THEN {<<source, Identity>>} ELSE Explore(graph, layer[k - 1])]

LEMMA LayersThere ==
  ASSUME NEW graph, NEW source, NEW n \in Nat
  PROVE  \E layer : LayersTo(n, graph, source, layer)
<1> DEFINE missing == {k \in Nat : ~ \E layer : LayersTo(k, graph, source, layer)}
<1>1. SUFFICES ASSUME missing # {} PROVE FALSE
  OBVIOUS
<1>2. PICK k \in missing : \A j \in missing : k <= j
  BY <1>1, LeastNumber
<1>3. CASE k = 0
  <2> DEFINE only == [j \in 0..0 |-> {<<source, Identity>>}]
  <2>1. only = [j \in 0..0 |->
                 IF j = 0 THEN {<<source, Identity>>} ELSE Explore(graph, only[j - 1])]
    OBVIOUS
  <2> QED BY <1>2, <1>3, <2>1 DEF LayersTo
<1>4. CASE k # 0
  <2>1. k - 1 \in Nat /\ k - 1 \notin missing
    BY <1>2, <1>4
  <2>2. PICK layer : LayersTo(k - 1, graph, source, layer)
    BY <2>1
  <2> DEFINE more == [j \in 0..k |-> IF j = k THEN Explore(graph, layer[k - 1]) ELSE layer[j]]
  <2>3. ASSUME NEW j \in 0..k
        PROVE  more[j] = IF j = 0 THEN {<<source, Identity>>} ELSE Explore(graph, more[j - 1])
    <3>1. CASE j = k
      <4>1. j - 1 \in 0..k /\ j - 1 # k /\ more[j - 1] = layer[k - 1]
        BY <3>1, <1>4, <2>1
      <4> QED BY <3>1, <1>4, <4>1
    <3>2. CASE j # k /\ j = 0
      BY <3>2, <2>1, <2>2 DEF LayersTo
    <3>3. CASE j # k /\ j # 0
      <4>1. j \in 0..(k - 1) /\ j - 1 \in 0..k /\ j - 1 # k
        BY <3>3, <2>1
      <4>2. layer[j] = Explore(graph, layer[j - 1])
        BY <3>3, <4>1, <2>2 DEF LayersTo
      <4> QED BY <3>3, <4>1, <4>2
    <3> QED BY <3>1, <3>2, <3>3
  <2>4. more = [j \in 0..k |->
                 IF j = 0 THEN {<<source, Identity>>} ELSE Explore(graph, more[j - 1])]
    BY <2>3
  <2> QED BY <1>2, <2>4 DEF LayersTo
<1> QED BY <1>3, <1>4

LEMMA ExploredInLayers ==
  ASSUME NEW graph, NEW source
  PROVE  \E layer : LayersTo(Cardinality(Frames), graph, source, layer)
                    /\ Explored(graph, source) = layer[Cardinality(Frames)]
<1>1. Cardinality(Frames) \in Nat
  BY FS_CardinalityType, BufferAssumption
<1> DEFINE chosen == CHOOSE layer : LayersTo(Cardinality(Frames), graph, source, layer)
<1>2. LayersTo(Cardinality(Frames), graph, source, chosen)
  BY <1>1, LayersThere
<1>3. Explored(graph, source) = chosen[Cardinality(Frames)]
  BY DEF Explored, LayersTo
<1> QED BY <1>2, <1>3

\* By the end of layer n the search is over or has found more than n frames.
LayerRanges(n, graph, source, found) ==
  /\ FoundRight(graph, source, found)
  /\ Closed(graph, Seen(found)) \/ Cardinality(Seen(found)) > n

LEMMA FirstLayer ==
  ASSUME NEW graph, NEW source \in Frames
  PROVE  LayerRanges(0, graph, source, {<<source, Identity>>})
<1> DEFINE found == {<<source, Identity>>}
<1>1. Identity \in Transforms
  BY DEF Identity, Transforms
<1>2. \A at \in [Frames -> Transforms] : SeenFrom(at, source, source) = Identity
  BY PlacesRight
<1>3. Seen(found) = {source}
  BY DEF Seen
<1>4. Cardinality({source}) = 1
  BY FS_Singleton
<1>5. source \in Component(graph, source)
  BY DEF Component
<1>6. FoundRight(graph, source, found)
  BY <1>1, <1>2, <1>3, <1>5 DEF FoundRight
<1> QED BY <1>3, <1>4, <1>6 DEF LayerRanges

LEMMA NextLayer ==
  ASSUME NEW graph \in Graphs, NEW source \in Frames, NEW found, NEW n \in Nat,
         LayerRanges(n, graph, source, found)
  PROVE  LayerRanges(n + 1, graph, source, Explore(graph, found))
<1> DEFINE next == Explore(graph, found)
<1>1. FoundRight(graph, source, found) /\ FoundRight(graph, source, next)
      /\ Seen(found) \subseteq Seen(next)
  BY LayerRight DEF LayerRanges
<1>2. CASE Closed(graph, Seen(found)) /\ next = found
  BY <1>1, <1>2 DEF LayerRanges
<1>3. CASE Closed(graph, Seen(found)) /\ next # found
  <2>1. PICK f \in Seen(next) : f \notin Seen(found)
    BY <1>1, <1>3, LayerMoves
  <2>2. Seen(found) \in SUBSET Frames /\ source \in Seen(found)
    BY <1>1 DEF FoundRight, Seen
  <2>3. f \in Component(graph, source)
    BY <1>1, <2>1 DEF FoundRight
  <2> QED BY <1>3, <2>1, <2>2, <2>3 DEF Component
<1>4. CASE ~ Closed(graph, Seen(found))
  <2>1. PICK f \in Seen(next) : f \notin Seen(found)
    BY <1>1, <1>4, LayerMoves
  <2>2. Seen(next) \subseteq Frames
    BY <1>1 DEF FoundRight, Seen
  <2>3. IsFiniteSet(Seen(found)) /\ IsFiniteSet(Seen(next))
    BY <1>1, <2>2, FS_Subset, BufferAssumption
  <2>4. Cardinality(Seen(found) \cup {f}) = Cardinality(Seen(found)) + 1
        /\ IsFiniteSet(Seen(found) \cup {f})
    BY <2>1, <2>3, FS_AddElement
  <2>5. Cardinality(Seen(found) \cup {f}) <= Cardinality(Seen(next))
    BY <1>1, <2>1, <2>3, FS_Subset
  <2>6. Cardinality(Seen(found)) \in Nat /\ Cardinality(Seen(next)) \in Nat
    BY <2>3, FS_CardinalityType
  <2>7. Cardinality(Seen(found)) > n
    BY <1>4 DEF LayerRanges
  <2>8. Cardinality(Seen(next)) > n + 1
    BY <2>4, <2>5, <2>6, <2>7
  <2> QED BY <1>1, <2>8 DEF LayerRanges
<1> QED BY <1>2, <1>3, <1>4

LEMMA LayersRange ==
  ASSUME NEW graph \in Graphs, NEW source \in Frames, NEW n \in Nat, NEW layer,
         LayersTo(n, graph, source, layer)
  PROVE  \A k \in 0..n : LayerRanges(k, graph, source, layer[k])
<1> DEFINE wrong == {k \in 0..n : ~ LayerRanges(k, graph, source, layer[k])}
<1>1. SUFFICES ASSUME wrong # {} PROVE FALSE
  OBVIOUS
<1>2. wrong \in SUBSET Nat
  OBVIOUS
<1>3. PICK k \in wrong : \A j \in wrong : k <= j
  BY <1>1, <1>2, LeastNumber
<1>4. CASE k = 0
  <2>1. layer[0] = {<<source, Identity>>}
    BY DEF LayersTo
  <2> QED BY <1>3, <1>4, <2>1, FirstLayer
<1>5. CASE k # 0
  <2>1. k - 1 \in Nat /\ k - 1 \in 0..n /\ k - 1 \notin wrong /\ (k - 1) + 1 = k
    BY <1>3, <1>5
  <2>2. LayerRanges(k - 1, graph, source, layer[k - 1])
    BY <2>1
  <2>3. layer[k] = Explore(graph, layer[k - 1])
    BY <1>3, <1>5 DEF LayersTo
  <2>4. LayerRanges((k - 1) + 1, graph, source, Explore(graph, layer[k - 1]))
    BY <2>1, <2>2, NextLayer
  <2> QED BY <1>3, <2>1, <2>3, <2>4
<1> QED BY <1>4, <1>5

-----------------------------------------------------------------------------
(* TransformBuffer: every lookup is right                                    *)

\* The search ends with the whole component of the frame it began with.
LEMMA ExploredRight ==
  ASSUME NEW graph \in Graphs, NEW source \in Frames
  PROVE  /\ FoundRight(graph, source, Explored(graph, source))
         /\ Seen(Explored(graph, source)) = Component(graph, source)
<1> DEFINE N == Cardinality(Frames)
           found == Explored(graph, source)
<1>1. N \in Nat
  BY FS_CardinalityType, BufferAssumption
<1>2. PICK layer : LayersTo(N, graph, source, layer) /\ found = layer[N]
  BY ExploredInLayers
<1>3. LayerRanges(N, graph, source, found)
  BY <1>1, <1>2, LayersRange
<1>4. Seen(found) \in SUBSET Frames /\ source \in Seen(found)
      /\ Seen(found) \subseteq Component(graph, source)
  BY <1>3 DEF LayerRanges, FoundRight, Seen
<1>5. Cardinality(Seen(found)) <= N /\ Cardinality(Seen(found)) \in Nat
  BY <1>4, FS_Subset, FS_CardinalityType, BufferAssumption
<1>6. Closed(graph, Seen(found))
  BY <1>1, <1>3, <1>5 DEF LayerRanges
<1>7. Component(graph, source) \subseteq Seen(found)
  BY <1>4, <1>6 DEF Component
<1> QED BY <1>3, <1>4, <1>7 DEF LayerRanges

\* Whatever may be in the buffer, a search of it is right.
LEMMA SearchesRight == Graphs \subseteq SearchedRight
<1>1. ASSUME NEW graph \in Graphs, NEW source \in Frames
      PROVE  /\ Seen(Explored(graph, source)) = Component(graph, source)
             /\ \A at \in [Frames -> Transforms] :
                  Agrees(graph, at, Component(graph, source)) =>
                    \A x \in Explored(graph, source) : x[2] = SeenFrom(at, x[1], source)
  BY ExploredRight DEF FoundRight
<1> QED BY <1>1 DEF SearchedRight

-----------------------------------------------------------------------------
(* TransformBuffer: what is stored is what was heard last                    *)

Messages ==
  {m \in UNION {[L -> Transforms] : L \in SUBSET Links} : \A l \in DOMAIN m : m[l] \in Readings["static", l]}
Parcels == {t \in Kinds \X Links \X Transforms : t[3] \in Readings[t[1], t[2]]}
Places == {"idle", "next", "stored", "call", "append", "hook", "returned", "remove"}

\* The type invariant of what the lookups and the listener read.
BufferTypeOK ==
  /\ DOMAIN dynamic \subseteq Links /\ \A l \in DOMAIN dynamic : dynamic[l] \in Readings["dynamic", l]
  /\ DOMAIN static \subseteq Links /\ \A l \in DOMAIN static : static[l] \in Readings["static", l]
  /\ published \in Messages /\ inbox \in Seq(Messages)
  /\ arriving \in [Setters -> SUBSET Parcels]
  /\ recent \in [Kinds \X Links -> SUBSET Transforms]
  /\ bpc \in [Waiters \cup Setters -> Places]

\* A thread that waits for a message has set all of the last one.
IdleEmpty == \A s \in Setters : bpc[s] = "idle" => arriving[s] = {}

\* What is stored for an edge is recent, or soon replaced by something that is.
RecentOf(kind, entries) ==
  \A l \in Links :
    /\ ToStore(kind, l) \subseteq recent[kind, l]
    /\ l \in DOMAIN entries => entries[l] \in recent[kind, l] \/ ToStore(kind, l) # {}

RecentRight == RecentOf("dynamic", dynamic) /\ RecentOf("static", static)

\* The last message that waits says all; when none does, all is set or will be.
Heard ==
  listening = "yes" =>
    IF inbox = <<>>
    THEN \A l \in DOMAIN published :
           /\ published[l] \in recent["static", l]
           /\ l \in DOMAIN static \/ ToStore("static", l) # {}
    ELSE inbox[Len(inbox)] = published

BufferInv == BufferTypeOK /\ IdleEmpty /\ RecentRight /\ Heard

LEMMA MessageType ==
  ASSUME NEW m \in Messages
  PROVE  /\ DOMAIN m \subseteq Links /\ m = [l \in DOMAIN m |-> m[l]]
         /\ \A l \in DOMAIN m : m[l] \in Transforms /\ m[l] \in Readings["static", l]
  BY DEF Messages

\* The transforms that setters have still to store for an edge.
LEMMA StoringOf ==
  ASSUME NEW left \in [Setters -> SUBSET Parcels], NEW kind \in Kinds, NEW l \in Links, NEW x
  PROVE  x \in {t[3] : t \in {t \in UNION {left[s] : s \in Setters} : t[1] = kind /\ t[2] = l}}
           <=> \E s \in Setters : <<kind, l, x>> \in left[s]
<1>1. ASSUME NEW s \in Setters, NEW t \in left[s], t[1] = kind, t[2] = l, t[3] = x
      PROVE  t = <<kind, l, x>>
  <2>1. t \in Kinds \X Links \X Transforms
    BY DEF Parcels
  <2> QED BY <1>1, <2>1
<1>2. x \in {t[3] : t \in {t \in UNION {left[s] : s \in Setters} : t[1] = kind /\ t[2] = l}}
        <=> \E s \in Setters : \E t \in left[s] : t[1] = kind /\ t[2] = l /\ t[3] = x
  BY Zenon
<1> QED BY <1>1, <1>2

LEMMA Storing ==
  ASSUME BufferTypeOK, NEW kind \in Kinds, NEW l \in Links, NEW x
  PROVE  x \in ToStore(kind, l) <=> \E s \in Setters : <<kind, l, x>> \in arriving[s]
<1>1. arriving \in [Setters -> SUBSET Parcels]
  BY DEF BufferTypeOK
<1> QED BY <1>1, StoringOf DEF ToStore

LEMMA NothingStored == DOMAIN <<>> = {}
<1>1. <<>> \in Seq({}) /\ Len(<<>>) = 0
  BY EmptySeq
<1>2. DOMAIN <<>> = 1..Len(<<>>)
  BY <1>1, LenProperties
<1> QED BY <1>1, <1>2

LEMMA BufferStarts == BufferInit => BufferInv
<1> SUFFICES ASSUME BufferInit PROVE BufferInv
  OBVIOUS
<1>1. DOMAIN dynamic = {} /\ DOMAIN static = {}
  BY NothingStored DEF BufferInit
<1>2. published \in Messages
  <2>1. Earlier \in [DOMAIN Earlier -> Transforms] /\ DOMAIN Earlier \in SUBSET Links
    <3>1. ASSUME NEW l \in DOMAIN Earlier PROVE Earlier[l] \in Transforms
      <4>1. l \in Links /\ <<"static", l>> \in Kinds \X Links /\ Earlier[l] \in Readings["static", l]
        BY BufferAssumption DEF Kinds
      <4> QED BY <4>1, BufferAssumption
    <3> QED BY <3>1, BufferAssumption
  <2> QED BY <2>1, BufferAssumption DEF BufferInit, Messages
<1>3. inbox \in Seq(Messages) /\ listening # "yes"
  BY EmptySeq DEF BufferInit
<1>4. /\ arriving \in [Setters -> SUBSET Parcels] /\ bpc \in [Waiters \cup Setters -> Places]
      /\ recent \in [Kinds \X Links -> SUBSET Transforms]
  BY DEF BufferInit, Places
<1>5. BufferTypeOK
  BY <1>1, <1>2, <1>3, <1>4 DEF BufferTypeOK
<1>6. IdleEmpty /\ \A s \in Setters : arriving[s] = {}
  BY DEF BufferInit, IdleEmpty
<1>7. \A kind \in Kinds, l \in Links : ToStore(kind, l) = {}
  BY <1>5, <1>6, Storing
<1>8. RecentRight
  BY <1>1, <1>7 DEF RecentRight, RecentOf, Kinds
<1> QED BY <1>3, <1>5, <1>6, <1>8 DEF BufferInv, Heard

\* A setter takes a message: what it has to store of it is recent from now on.
LEMMA TakeKeeps ==
  ASSUME BufferInv, NEW s \in Setters, NEW kind \in Kinds, NEW message, Take(s, kind, message),
         DOMAIN message \subseteq Links,
         \A l \in DOMAIN message : message[l] \in Transforms /\ message[l] \in Readings[kind, l],
         published' \in Messages, inbox' \in Seq(Messages)
  PROVE  /\ BufferTypeOK' /\ IdleEmpty' /\ RecentRight'
         /\ \A l \in DOMAIN message : message[l] \in recent'[kind, l] /\ message[l] \in ToStore(kind, l)'
         /\ \A k \in Kinds \ {kind}, l \in Links :
              recent'[k, l] = recent[k, l] /\ ToStore(k, l)' = ToStore(k, l)
<1> USE DEF BufferInv, Take
<1> DEFINE parcel == {<<kind, l, message[l]>> : l \in DOMAIN message}
<1>1. arriving' = [arriving EXCEPT ![s] = parcel] /\ bpc' = [bpc EXCEPT ![s] = "next"]
      /\ arriving[s] = {} /\ UNCHANGED edges
  BY DEF IdleEmpty
<1>2. parcel \in SUBSET Parcels
  <2>1. ASSUME NEW l \in DOMAIN message PROVE <<kind, l, message[l]>> \in Parcels
    <3>1. l \in Links /\ message[l] \in Transforms /\ message[l] \in Readings[kind, l]
      OBVIOUS
    <3> QED BY <3>1 DEF Parcels
  <2> QED BY <2>1
<1>3. arriving'[s] = parcel /\ \A x \in Setters \ {s} : arriving'[x] = arriving[x]
  BY <1>1 DEF BufferTypeOK
<1>4. bpc'[s] = "next" /\ \A x \in Setters \ {s} : bpc'[x] = bpc[x]
  BY <1>1 DEF BufferTypeOK
<1>5. IdleEmpty'
  BY <1>1, <1>3, <1>4 DEF IdleEmpty
<1>6. ASSUME NEW k \in Kinds, NEW l \in Links PROVE ToStore(k, l) \subseteq Transforms
  <2>1. ASSUME NEW x \in ToStore(k, l) PROVE x \in Transforms
    <3>1. PICK z \in Setters : <<k, l, x>> \in arriving[z]
      BY Storing
    <3>2. <<k, l, x>> \in Kinds \X Links \X Transforms
      BY <3>1 DEF BufferTypeOK, Parcels
    <3> QED BY <3>2
  <2> QED BY <2>1
<1>7. recent' = [x \in Kinds \X Links |->
                   IF x[1] = kind /\ x[2] \in DOMAIN message
                   THEN {message[x[2]]} \cup ToStore(kind, x[2])
                   ELSE recent[x]]
  OBVIOUS
<1>8. recent' \in [Kinds \X Links -> SUBSET Transforms]
  <2>1. ASSUME NEW x \in Kinds \X Links
        PROVE  (IF x[1] = kind /\ x[2] \in DOMAIN message
                THEN {message[x[2]]} \cup ToStore(kind, x[2])
                ELSE recent[x]) \in SUBSET Transforms
    BY <1>6 DEF BufferTypeOK
  <2> QED BY <1>7, <2>1
<1>9. arriving' \in [Setters -> SUBSET Parcels] /\ bpc' \in [Waiters \cup Setters -> Places]
  BY <1>1, <1>2 DEF BufferTypeOK, Places
<1>10. BufferTypeOK'
  BY <1>1, <1>8, <1>9 DEF BufferTypeOK, edges
<1>11. ASSUME NEW k \in Kinds, NEW l \in Links, NEW x
       PROVE  x \in ToStore(k, l)' <=>
                x \in ToStore(k, l) \/ (k = kind /\ l \in DOMAIN message /\ x = message[l])
  <2>1. x \in ToStore(k, l)' <=> \E z \in Setters : <<k, l, x>> \in arriving'[z]
    BY <1>9, StoringOf DEF ToStore
  <2>2. <<k, l, x>> \in parcel <=> k = kind /\ l \in DOMAIN message /\ x = message[l]
    OBVIOUS
  <2>3. x \in ToStore(k, l) <=> \E z \in Setters : <<k, l, x>> \in arriving[z]
    BY Storing
  <2>4. (\E z \in Setters : <<k, l, x>> \in arriving'[z]) <=>
          (\E z \in Setters : <<k, l, x>> \in arriving[z]) \/ <<k, l, x>> \in parcel
    BY <1>1, <1>3
  <2> QED BY <2>1, <2>2, <2>3, <2>4
<1>12. ASSUME NEW k \in Kinds, NEW l \in Links
       PROVE  IF k = kind /\ l \in DOMAIN message
              THEN recent'[k, l] = {message[l]} \cup ToStore(k, l) /\ message[l] \in ToStore(k, l)'
                   /\ ToStore(k, l)' \subseteq {message[l]} \cup ToStore(k, l)
              ELSE recent'[k, l] = recent[k, l] /\ ToStore(k, l)' = ToStore(k, l)
  <2>1. CASE k = kind /\ l \in DOMAIN message
    <3>1. recent'[k, l] = {message[l]} \cup ToStore(k, l)
      BY <1>7, <2>1
    <3>2. \A x : x \in ToStore(k, l)' <=> x \in ToStore(k, l) \/ x = message[l]
      BY <1>11, <2>1
    <3> QED BY <2>1, <3>1, <3>2
  <2>2. CASE ~ (k = kind /\ l \in DOMAIN message)
    <3>1. recent'[k, l] = recent[k, l]
      BY <1>7, <2>2
    <3>2. \A x : x \in ToStore(k, l)' <=> x \in ToStore(k, l)
      BY <1>11, <2>2
    <3>3. ToStore(k, l)' = ToStore(k, l)
      BY <3>2
    <3> QED BY <2>2, <3>1, <3>3
  <2> QED BY <2>1, <2>2
<1>13. RecentRight'
  BY <1>1, <1>12 DEF RecentRight, RecentOf, Kinds, edges
<1> QED BY <1>5, <1>10, <1>12, <1>13

LEMMA NothingTaken ==
  ASSUME RecentRight, UNCHANGED <<dynamic, static, recent, arriving>>
  PROVE  RecentRight' /\ \A k, l : ToStore(k, l)' = ToStore(k, l)
<1>1. \A k, l : ToStore(k, l)' = ToStore(k, l)
  BY DEF ToStore
<1> QED BY <1>1 DEF RecentRight, RecentOf

LEMMA BroadcastKeeps == ASSUME BufferInv, Broadcast PROVE BufferInv'
<1> USE DEF BufferInv
<1>0. PICK link \in Links : \E x \in Readings["static", link] :
        published' = Stored({l \in DOMAIN published : l[2] # link[2]}, published, link, x)
  BY DEF Broadcast
<1>1. PICK x \in Readings["static", link] :
        published' = Stored({l \in DOMAIN published : l[2] # link[2]}, published, link, x)
  BY <1>0
<1> DEFINE keys == {l \in DOMAIN published : l[2] # link[2]}
<1>2. DOMAIN published \subseteq Links /\ x \in Transforms
      /\ \A l \in DOMAIN published : published[l] \in Transforms /\ published[l] \in Readings["static", l]
  <2>1. <<"static", link>> \in Kinds \X Links
    BY DEF Kinds
  <2> QED BY <2>1, MessageType, BufferAssumption DEF BufferTypeOK
<1>3. published' \in Messages
  <2>1. keys \in SUBSET Links /\ keys \subseteq DOMAIN published
    BY <1>2
  <2>2. published' \in [keys \cup {link} -> Transforms]
    BY <1>1, <1>2, <2>1 DEF Stored
  <2>3. \A l \in keys \cup {link} : published'[l] \in Readings["static", l]
    <3>1. published'[link] = x /\ \A l \in keys \ {link} : published'[l] = published[l]
      BY <1>1, <2>1 DEF Stored
    <3> QED BY <1>2, <2>1, <3>1
  <2>4. keys \cup {link} \in SUBSET Links
    BY <2>1
  <2> QED BY <2>2, <2>3, <2>4 DEF Messages
<1>4. UNCHANGED <<dynamic, static, recent, listening, arriving, bpc>>
  BY DEF Broadcast, edges
<1>5. inbox' \in Seq(Messages) /\ (listening = "yes" => inbox' = Append(inbox, published'))
  <2>1. inbox \in Seq(Messages)
    BY DEF BufferTypeOK
  <2>2. inbox' = IF listening = "yes" THEN Append(inbox, published') ELSE inbox
    BY DEF Broadcast
  <2>3. Append(inbox, published') \in Seq(Messages)
    BY <1>3, <2>1, AppendProperties
  <2> QED BY <2>1, <2>2, <2>3
<1>6. BufferTypeOK'
  BY <1>3, <1>4, <1>5 DEF BufferTypeOK
<1>7. IdleEmpty' /\ RecentRight'
  BY <1>4, NothingTaken DEF IdleEmpty
<1>8. Heard'
  <2>1. CASE listening = "yes"
    <3>1. inbox \in Seq(Messages) /\ inbox' = Append(inbox, published')
      BY <1>5, <2>1 DEF BufferTypeOK
    <3>2. inbox' # <<>> /\ Len(inbox') = Len(inbox) + 1 /\ inbox'[Len(inbox) + 1] = published'
      BY <1>3, <3>1, AppendProperties
    <3>3. inbox' # <<>> /\ inbox'[Len(inbox')] = published'
      BY <3>2
    <3> QED BY <3>3 DEF Heard
  <2>2. CASE listening # "yes"
    BY <1>4, <2>2 DEF Heard
  <2> QED BY <2>1, <2>2
<1> QED BY <1>6, <1>7, <1>8

LEMMA ListenerKeeps == ASSUME BufferInv, Listen \/ UnregisterListener PROVE BufferInv'
<1> USE DEF BufferInv
<1>1. UNCHANGED <<dynamic, static, recent, published, arriving, bpc>>
  BY DEF Listen, UnregisterListener, edges
<1>2. inbox' \in Seq(Messages)
  <2>1. published \in Messages /\ <<>> \in Seq(Messages)
    BY EmptySeq DEF BufferTypeOK
  <2>2. <<published>> \in Seq(Messages)
    BY <2>1
  <2> QED BY <2>1, <2>2 DEF Listen, UnregisterListener
<1>3. BufferTypeOK' /\ IdleEmpty'
  BY <1>1, <1>2 DEF BufferTypeOK, IdleEmpty
<1>5. RecentRight'
  BY <1>1, NothingTaken
<1>4. Heard'
  <2>1. CASE Listen /\ DOMAIN published = {}
    BY <1>1, <2>1 DEF Listen, Heard
  <2>2. CASE Listen /\ DOMAIN published # {}
    <3>1. inbox' = <<published>> /\ inbox' # <<>> /\ inbox'[Len(inbox')] = published
      BY <2>2 DEF Listen
    <3> QED BY <1>1, <3>1 DEF Heard
  <2>3. CASE UnregisterListener
    BY <2>3 DEF UnregisterListener, Heard
  <2> QED BY <2>1, <2>2, <2>3
<1> QED BY <1>3, <1>4, <1>5

LEMMA CallbackKeeps == ASSUME BufferInv, NEW s \in Setters, Callback(s) PROVE BufferInv'
<1>0. PICK link \in Links : \E x \in Readings["dynamic", link] :
        Take(s, "dynamic", [l \in {link} |-> x])
  BY DEF Callback
<1>1. PICK x \in Readings["dynamic", link] : Take(s, "dynamic", [l \in {link} |-> x])
  BY <1>0
<1> DEFINE message == [l \in {link} |-> x]
<1>2. "dynamic" \in Kinds /\ "static" \in Kinds /\ x \in Transforms
  <2>1. <<"dynamic", link>> \in Kinds \X Links
    BY DEF Kinds
  <2> QED BY <2>1, BufferAssumption DEF Kinds
<1>3. DOMAIN message = {link} /\ message[link] = x
  OBVIOUS
<1>4. UNCHANGED <<dynamic, static, published, listening, inbox>>
  BY <1>1 DEF Take, Callback, edges
<1>5. published' \in Messages /\ inbox' \in Seq(Messages)
  BY <1>4 DEF BufferInv, BufferTypeOK
<1> HIDE DEF message
<1>6. /\ BufferTypeOK' /\ IdleEmpty' /\ RecentRight'
      /\ \A l \in Links : recent'["static", l] = recent["static", l]
                          /\ ToStore("static", l)' = ToStore("static", l)
  <2>1. Take(s, "dynamic", message) /\ DOMAIN message \subseteq Links
        /\ \A l \in DOMAIN message : message[l] \in Transforms /\ message[l] \in Readings["dynamic", l]
    BY <1>1, <1>2, <1>3 DEF message
  <2>2. BufferTypeOK' /\ IdleEmpty' /\ RecentRight'
    BY <1>2, <1>5, <2>1, TakeKeeps
  <2>3. ASSUME NEW l \in Links
        PROVE  recent'["static", l] = recent["static", l] /\ ToStore("static", l)' = ToStore("static", l)
    <3>1. "static" \in Kinds \ {"dynamic"}
      BY <1>2
    <3> QED BY <1>2, <1>5, <2>1, <3>1, TakeKeeps
  <2> QED BY <2>2, <2>3
<1>7. DOMAIN published \subseteq Links
  BY MessageType DEF BufferInv, BufferTypeOK
<1>8. Heard'
  BY <1>4, <1>6, <1>7 DEF BufferInv, Heard
<1> QED BY <1>6, <1>8 DEF BufferInv

LEMMA StaticCallbackKeeps ==
  ASSUME BufferInv, NEW s \in Setters, StaticCallback(s) PROVE BufferInv'
<1> DEFINE message == Head(inbox)
<1>1. inbox # <<>> /\ Take(s, "static", message) /\ inbox' = Tail(inbox)
  BY DEF StaticCallback
<1>2. UNCHANGED <<dynamic, static, published, listening>> /\ "static" \in Kinds
  BY <1>1 DEF Take, edges, Kinds
<1>3. /\ message \in Messages /\ inbox' \in Seq(Messages)
      /\ Len(inbox) \in Nat /\ message = inbox[1] /\ published' \in Messages
  <2>1. inbox \in Seq(Messages) /\ published \in Messages
    BY DEF BufferInv, BufferTypeOK
  <2> QED BY <1>1, <1>2, <2>1
<1>4. inbox \in Seq(Messages)
  BY DEF BufferInv, BufferTypeOK
<1> HIDE DEF message
<1>5. /\ BufferTypeOK' /\ IdleEmpty' /\ RecentRight'
      /\ \A l \in DOMAIN message : message[l] \in recent'["static", l] /\ ToStore("static", l)' # {}
  <2>1. DOMAIN message \subseteq Links
        /\ \A l \in DOMAIN message : message[l] \in Transforms /\ message[l] \in Readings["static", l]
    BY <1>3, MessageType
  <2> QED BY <1>1, <1>2, <1>3, <2>1, TakeKeeps
<1>6. Heard'
  <2>1. SUFFICES ASSUME listening = "yes" PROVE Heard'
    BY <1>2 DEF Heard
  <2>2. inbox[Len(inbox)] = published
    BY <1>1, <2>1 DEF BufferInv, Heard
  <2>3. CASE Len(inbox) = 1
    <3>1. message = published /\ inbox' = <<>>
      BY <1>1, <1>3, <1>4, <2>2, <2>3
    <3> QED BY <1>2, <1>5, <3>1 DEF Heard
  <2>4. CASE Len(inbox) # 1
    <3>1. Len(inbox') = Len(inbox) - 1
          /\ \A i \in 1..Len(inbox') : inbox'[i] = inbox[i + 1]
      BY <1>1, <1>4, HeadTailProperties
    <3>2. Len(inbox) # 0
      BY <1>1, <1>4, EmptySeq
    <3>3. inbox' # <<>> /\ inbox'[Len(inbox')] = inbox[Len(inbox)]
      BY <1>3, <2>4, <3>1, <3>2
    <3> QED BY <1>2, <2>2, <3>3 DEF Heard
  <2> QED BY <2>3, <2>4
<1> QED BY <1>5, <1>6 DEF BufferInv

LEMMA SetKeeps == ASSUME BufferInv, NEW s \in Setters, Set(s) PROVE BufferInv'
<1> USE DEF BufferInv
<1>1. PICK t \in arriving[s] :
        /\ arriving' = [arriving EXCEPT ![s] = @ \ {t}]
        /\ dynamic' = IF t[1] = "dynamic" THEN Stored(DOMAIN dynamic, dynamic, t[2], t[3]) ELSE dynamic
        /\ static' = IF t[1] = "static" THEN Stored(DOMAIN static, static, t[2], t[3]) ELSE static
  BY DEF Set
<1>2. bpc' = [bpc EXCEPT ![s] = "stored"] /\ UNCHANGED <<recent, published, listening, inbox>>
  BY DEF Set
<1>3. t[1] \in Kinds /\ t[2] \in Links /\ t = <<t[1], t[2], t[3]>> /\ t[3] \in Readings[t[1], t[2]]
  <2>1. t \in Parcels
    BY <1>1 DEF BufferTypeOK
  <2>2. t \in Kinds \X Links \X Transforms
    BY <2>1 DEF Parcels
  <2>3. t[3] \in Readings[t[1], t[2]]
    BY <2>1 DEF Parcels
  <2>4. t[1] \in Kinds /\ t[2] \in Links /\ t = <<t[1], t[2], t[3]>>
    BY <2>2
  <2> QED BY <2>3, <2>4
<1>4. arriving'[s] = arriving[s] \ {t} /\ \A x \in Setters \ {s} : arriving'[x] = arriving[x]
  BY <1>1 DEF BufferTypeOK
<1>5. bpc'[s] = "stored" /\ \A x \in Setters \ {s} : bpc'[x] = bpc[x]
  BY <1>2 DEF BufferTypeOK
<1>6. DOMAIN dynamic \in SUBSET Links /\ DOMAIN static \in SUBSET Links
  BY DEF BufferTypeOK
<1>7. /\ DOMAIN dynamic' = DOMAIN dynamic \cup (IF t[1] = "dynamic" THEN {t[2]} ELSE {})
      /\ \A l \in DOMAIN dynamic' :
           dynamic'[l] = IF t[1] = "dynamic" /\ l = t[2] THEN t[3] ELSE dynamic[l]
  <2>1. CASE t[1] = "dynamic"
    <3>1. dynamic' = Stored(DOMAIN dynamic, dynamic, t[2], t[3])
      BY <1>1, <2>1
    <3>2. DOMAIN dynamic' = DOMAIN dynamic \cup {t[2]} /\ dynamic'[t[2]] = t[3]
          /\ \A l \in DOMAIN dynamic \ {t[2]} : dynamic'[l] = dynamic[l]
      BY <1>3, <1>6, <3>1 DEF Stored
    <3> QED BY <2>1, <3>2
  <2>2. CASE t[1] # "dynamic"
    BY <1>1, <2>2
  <2> QED BY <2>1, <2>2
<1>8. /\ DOMAIN static' = DOMAIN static \cup (IF t[1] = "static" THEN {t[2]} ELSE {})
      /\ \A l \in DOMAIN static' :
           static'[l] = IF t[1] = "static" /\ l = t[2] THEN t[3] ELSE static[l]
  <2>1. CASE t[1] = "static"
    <3>1. static' = Stored(DOMAIN static, static, t[2], t[3])
      BY <1>1, <2>1
    <3>2. DOMAIN static' = DOMAIN static \cup {t[2]} /\ static'[t[2]] = t[3]
          /\ \A l \in DOMAIN static \ {t[2]} : static'[l] = static[l]
      BY <1>3, <1>6, <3>1 DEF Stored
    <3> QED BY <2>1, <3>2
  <2>2. CASE t[1] # "static"
    BY <1>1, <2>2
  <2> QED BY <2>1, <2>2
<1>9. BufferTypeOK'
  <2>1. DOMAIN dynamic' \subseteq Links /\ \A l \in DOMAIN dynamic' : dynamic'[l] \in Readings["dynamic", l]
    BY <1>3, <1>6, <1>7 DEF BufferTypeOK
  <2>2. DOMAIN static' \subseteq Links /\ \A l \in DOMAIN static' : static'[l] \in Readings["static", l]
    BY <1>3, <1>6, <1>8 DEF BufferTypeOK
  <2>3. arriving' \in [Setters -> SUBSET Parcels]
    BY <1>1 DEF BufferTypeOK
  <2>4. bpc' \in [Waiters \cup Setters -> Places]
    BY <1>2 DEF BufferTypeOK, Places
  <2> QED BY <1>2, <2>1, <2>2, <2>3, <2>4 DEF BufferTypeOK
<1>10. IdleEmpty'
  BY <1>4, <1>5 DEF IdleEmpty
<1>11. ASSUME NEW k \in Kinds, NEW l \in Links
       PROVE  /\ ToStore(k, l)' \subseteq ToStore(k, l)
              /\ k = t[1] /\ l = t[2] => t[3] \in ToStore(k, l)
              /\ ~ (k = t[1] /\ l = t[2]) => ToStore(k, l)' = ToStore(k, l)
  <2>0. arriving' \in [Setters -> SUBSET Parcels]
    BY <1>9 DEF BufferTypeOK
  <2>1. \A x : x \in ToStore(k, l)' <=> \E z \in Setters : <<k, l, x>> \in arriving'[z]
    BY <2>0, StoringOf DEF ToStore
  <2>2. \A x : x \in ToStore(k, l) <=> \E z \in Setters : <<k, l, x>> \in arriving[z]
    BY Storing
  <2>3. \A x : x \in ToStore(k, l)' => x \in ToStore(k, l)
    BY <1>4, <2>1, <2>2
  <2>4. k = t[1] /\ l = t[2] => t[3] \in ToStore(k, l)
    BY <1>1, <1>3, <2>2
  <2>5. ASSUME ~ (k = t[1] /\ l = t[2]) PROVE ToStore(k, l)' = ToStore(k, l)
    <3>1. \A x : <<k, l, x>> # t
      BY <2>5
    <3>2. \A x : x \in ToStore(k, l) <=> x \in ToStore(k, l)'
      BY <1>4, <2>1, <2>2, <3>1
    <3> QED BY <3>2
  <2> QED BY <2>3, <2>4, <2>5
<1>12. RecentRight'
  BY <1>2, <1>7, <1>8, <1>11 DEF RecentRight, RecentOf, Kinds
<1>13. Heard'
  <2>1. DOMAIN published \subseteq Links
    BY MessageType DEF BufferTypeOK
  <2> QED BY <1>2, <1>8, <1>11, <2>1 DEF Heard, Kinds
<1> QED BY <1>9, <1>10, <1>12, <1>13

\* The steps that touch nothing but where their thread is, and Clear.
LEMMA OtherBufferSteps ==
  ASSUME BufferInv,
         \/ \E s \in Setters : CopyCallbacks(s) \/ CallNext(s) \/ RemoveAll(s)
         \/ \E w \in Waiters : Ask(w) \/ WaiterStep(w) \/ Cancel(w)
         \/ Clear \/ UNCHANGED bvars
  PROVE  BufferInv'
<1> USE DEF BufferInv
<1>1. /\ UNCHANGED <<static, recent, published, listening, inbox, arriving>>
      /\ dynamic' = dynamic \/ dynamic' = <<>>
  BY DEF CopyCallbacks, CallNext, RemoveAll, Ask, WaiterStep, AppendCallback, Hook, RemoveLater,
         Cancel, Clear, bvars, edges, topics
<1>2. /\ bpc' \in [Waiters \cup Setters -> Places]
      /\ \A s \in Setters : bpc'[s] = "idle" => bpc[s] = "idle" \/ arriving[s] = {}
  BY DEF CopyCallbacks, CallNext, RemoveAll, Ask, WaiterStep, AppendCallback, Hook, RemoveLater,
         Cancel, Clear, bvars, BufferTypeOK, Places
<1>3. dynamic' = dynamic \/ DOMAIN dynamic' = {}
  BY <1>1, NothingStored
<1>4. BufferTypeOK' /\ IdleEmpty'
  BY <1>1, <1>2, <1>3 DEF BufferTypeOK, IdleEmpty
<1>5. \A k, l : ToStore(k, l)' = ToStore(k, l)
  BY <1>1 DEF ToStore
<1>6. RecentRight'
  BY <1>1, <1>3, <1>5 DEF RecentRight, RecentOf
<1>7. Heard'
  BY <1>1, <1>5 DEF Heard
<1> QED BY <1>4, <1>6, <1>7

LEMMA BufferStepKeeps == ASSUME BufferInv, [BufferNext]_bvars PROVE BufferInv'
<1>1. ASSUME NEW s \in Setters, Callback(s) \/ StaticCallback(s) \/ Set(s) PROVE BufferInv'
  BY <1>1, CallbackKeeps, StaticCallbackKeeps, SetKeeps
<1>2. CASE Broadcast \/ Listen \/ UnregisterListener
  BY <1>2, BroadcastKeeps, ListenerKeeps
<1> QED BY <1>1, <1>2, OtherBufferSteps DEF BufferNext, SetterStep

\* The graph that is searched is one of those that may be stored.
LEMMA AllEdgesType == ASSUME BufferTypeOK PROVE AllEdges \in Graphs
<1> DEFINE sent == {x \in [Links -> Transforms] :
                      \A l \in Links : \E kind \in Kinds : x[l] \in Readings[kind, l]}
           L == DOMAIN dynamic \cup DOMAIN static
           any(l) == CHOOSE x \in Transforms : \E kind \in Kinds : x \in Readings[kind, l]
           whole == [l \in Links |-> IF l \in L THEN AllEdges[l] ELSE any(l)]
<1>1. L \in SUBSET Links
  BY DEF BufferTypeOK
<1>2. "static" \in Kinds /\ "dynamic" \in Kinds
  BY DEF Kinds
<1>3. ASSUME NEW kind \in Kinds, NEW l \in Links, NEW x \in Readings[kind, l] PROVE x \in Transforms
  <2>1. <<kind, l>> \in Kinds \X Links
    OBVIOUS
  <2> QED BY <2>1, BufferAssumption
<1>4. ASSUME NEW l \in L
      PROVE  AllEdges[l] \in Transforms /\ \E kind \in Kinds : AllEdges[l] \in Readings[kind, l]
  <2>1. \E kind \in Kinds : AllEdges[l] \in Readings[kind, l]
    BY <1>2, <1>4 DEF AllEdges, BufferTypeOK
  <2> QED BY <1>1, <1>3, <2>1
<1>5. ASSUME NEW l \in Links
      PROVE  any(l) \in Transforms /\ \E kind \in Kinds : any(l) \in Readings[kind, l]
  <2>1. \E x \in Transforms : \E kind \in Kinds : x \in Readings[kind, l]
    BY <1>3, BufferAssumption
  <2> QED BY <2>1
<1> HIDE DEF any
<1>6. whole \in sent
  BY <1>4, <1>5
<1>7. AllEdges = [l \in L |-> whole[l]]
  <2>1. \A l \in L : whole[l] = AllEdges[l]
    BY <1>1
  <2> QED BY <2>1 DEF AllEdges
<1> HIDE DEF whole, L
<1>8. [l \in L |-> whole[l]] \in Graphs
  <2> DEFINE parts(K) == {[l \in K |-> x[l]] : x \in sent}
  <2>1. [l \in L |-> whole[l]] \in parts(L)
    BY <1>6
  <2>2. Graphs = UNION {parts(K) : K \in SUBSET Links}
    BY DEF Graphs
  <2> HIDE DEF parts, sent
  <2> QED BY <1>1, <2>1, <2>2
<1> QED BY <1>7, <1>8

LEMMA LookupRightFollows == ASSUME BufferInv PROVE LookupRight
<1> USE DEF BufferInv
<1>1. AllEdges \in SearchedRight
  BY SearchesRight, AllEdgesType
<1>2. LastUsed
  BY DEF LastUsed, AllEdges, RecentRight, RecentOf, BufferTypeOK
<1>3. StaticKnown
  <2>1. SUFFICES ASSUME listening = "yes", inbox = <<>>, \A s \in Setters : arriving[s] = {},
                        NEW l \in DOMAIN published
                 PROVE  /\ l \in DOMAIN static
                        /\ static[l] = published[l] \/ \E x \in recent["static", l] : x # published[l]
    BY DEF StaticKnown
  <2>2. l \in Links /\ "static" \in Kinds
    BY MessageType DEF BufferTypeOK, Kinds
  <2>3. ToStore("static", l) = {}
    BY <2>1, <2>2, Storing
  <2>4. l \in DOMAIN static
    BY <2>1, <2>3 DEF Heard
  <2>5. static[l] \in recent["static", l]
    BY <2>2, <2>3, <2>4 DEF RecentRight, RecentOf
  <2> QED BY <2>4, <2>5
<1> QED BY <1>1, <1>2, <1>3 DEF LookupRight

\* For any frames, whatever transforms are sent between them, in whatever order and
\* by however many threads they are stored: a search finds the frames that a chain of
\* stored transforms joins with the first, and where those agree, where that is as
\* seen from each; what it goes by for an edge is the last static transform heard of
\* it, or else the last dynamic one; and however late a listener comes, once it has
\* worked through its messages it knows every static transform as it was sent last,
\* but for those of which two threads had messages at once (code:
\* tf2_py._find_path_transform, _all_edges, BufferCore._set, _compose and _inverse;
\* StaticTransformBroadcaster.sendTransform, TransformListener).
THEOREM LookupRightHolds == BufferSpec => []LookupRight
<1>1. BufferInit => BufferInv
  BY BufferStarts
<1>2. BufferInv /\ [BufferNext]_bvars => BufferInv'
  BY BufferStepKeeps
<1>3. BufferInv => LookupRight
  BY LookupRightFollows
<1> QED BY <1>1, <1>2, <1>3, PTL DEF BufferSpec
=============================================================================
