------------------------ MODULE ClientServiceProofs ------------------------
(* Theorems of ClientService, for any clients and calls, whatever is lost,   *)
(* fails or is destroyed: a pending future is never forgotten.               *)
EXTENDS ClientService, TLAPS

USE ClientAssumption

-----------------------------------------------------------------------------
(* Types                                                                     *)

\* Where a call is, and a future's outcome.
Places == {"new", "raised", "publish", "fail", "wait", "cancel", "returned"}
Outcomes == Calls \cup {"pending", "cancelled", "error"}

\* What TypeOK says of the variables one by one.
LEMMA Types ==
    ASSUME TypeOK
    PROVE  /\ callPc \in [Calls -> Places] /\ fut \in [Calls -> Outcomes]
           /\ slot \in [Clients -> Calls \cup {None}]
           /\ ending \in [Clients -> Calls \cup {None}]
           /\ resolving \in [Clients -> {<<>>} \cup (Calls \X Calls)]
           /\ requests \in Seq(Calls) /\ replies \in [Clients -> Seq(Calls)]
BY DEF TypeOK, Places, Outcomes

\* The steps of a call keep the types.
LEMMA CallTypes ==
    ASSUME TypeOK, NEW c \in Calls, CallAsync(c) \/ CallStep(c) \/ Abandon(c)
    PROVE  TypeOK'
<1>1. /\ UNCHANGED <<resolving, destroyed, ending, replies, serviceVars, intact>>
      /\ requests' = requests \/ requests' = Append(requests, c)
    BY DEF CallAsync, CallStep, Abandon, Publish, PublishFails, SetException, Answered, Timeout,
           CancelTimedOut, clientVars, topicVars, callVars
<1>2. slot' = slot \/ \E s \in Calls \cup {None} : slot' = [slot EXCEPT ![ClientOf[c]] = s]
    BY Types DEF CallAsync, CallStep, Abandon, Publish, PublishFails, SetException, Answered, Timeout,
           CancelTimedOut, clientVars, callVars
<1>3. fut' = fut \/ \E o \in Outcomes : fut' = [fut EXCEPT ![c] = o]
    BY Types DEF CallAsync, CallStep, Abandon, Publish, PublishFails, SetException, Answered, Timeout,
           CancelTimedOut, Settle, callVars, Outcomes
<1>4. callPc' = callPc \/ \E w \in Places : callPc' = [callPc EXCEPT ![c] = w]
    BY DEF CallAsync, CallStep, Abandon, Publish, PublishFails, SetException, Answered, Timeout,
           CancelTimedOut, Advance, Sent, callVars, Places
<1>5. callPc' \in [Calls -> Places]
    BY <1>4, Types
<1>6. fut' \in [Calls -> Outcomes]
    BY <1>3, Types
<1>7. slot' \in [Clients -> Calls \cup {None}]
    <2>1. slot \in [Clients -> Calls \cup {None}] /\ ClientOf[c] \in Clients
        BY Types
    <2>2. ASSUME NEW s \in Calls \cup {None}, slot' = [slot EXCEPT ![ClientOf[c]] = s]
          PROVE  slot' \in [Clients -> Calls \cup {None}]
        BY <2>1, <2>2
    <2> QED BY <1>2, <2>1, <2>2
<1>8. requests' \in Seq(Calls)
    <2>1. requests \in Seq(Calls)
        BY Types
    <2>2. Append(requests, c) \in Seq(Calls)
        BY <2>1
    <2> QED BY <1>1, <2>1, <2>2
<1> QED BY <1>1, <1>5, <1>6, <1>7, <1>8 DEF serviceVars, TypeOK, Places, Outcomes

\* So do those of the clients.
LEMMA ClientTypes ==
    ASSUME TypeOK, NEW k \in Clients, ClientStep(k) \/ DestroyClient(k) \/ LoseReply(k)
    PROVE  TypeOK'
<1> USE DEF TypeOK
<1>1. CASE OnResponse(k)
    <2>1. replies[k] \in Seq(Calls) /\ replies[k] # <<>>
        BY <1>1 DEF OnResponse
    <2>2. replies' \in [Clients -> Seq(Calls)]
        BY <1>1, <2>1 DEF OnResponse
    <2>3. slot' = slot \/ slot' = [slot EXCEPT ![k] = None]
        BY <1>1 DEF OnResponse
    <2>4. \/ resolving' = resolving
          \/ /\ slot[k] # None
             /\ resolving' = [resolving EXCEPT ![k] = <<slot[k], Head(replies[k])>>]
        BY <1>1 DEF OnResponse
    <2>5. slot[k] # None => <<slot[k], Head(replies[k])>> \in Calls \X Calls
        BY <2>1
    <2>6. CASE resolving' = resolving
        BY <1>1, <2>2, <2>3, <2>6 DEF OnResponse, callVars, serviceVars
    <2>7. CASE slot[k] # None /\ resolving' = [resolving EXCEPT ![k] = <<slot[k], Head(replies[k])>>]
        <3> DEFINE pair == <<slot[k], Head(replies[k])>>
        <3>1. pair \in {<<>>} \cup (Calls \X Calls)
            BY <2>5, <2>7
        <3>2. resolving' = [resolving EXCEPT ![k] = pair]
            BY <2>7
        <3> HIDE DEF pair
        <3>3. resolving' \in [Clients -> {<<>>} \cup (Calls \X Calls)]
            BY <3>1, <3>2, Types
        <3> QED BY <1>1, <2>2, <2>3, <3>3 DEF OnResponse, callVars, serviceVars
    <2> QED BY <2>4, <2>6, <2>7
<1>2. CASE Resolve(k)
    <2>1. resolving[k] \in Calls \X Calls
        BY <1>2 DEF Resolve
    <2>2. fut' \in [Calls -> Calls \cup {"pending", "cancelled", "error"}]
        BY <1>2, <2>1 DEF Resolve, Settle
    <2>3. resolving' \in [Clients -> {<<>>} \cup (Calls \X Calls)]
        BY <1>2 DEF Resolve
    <2> QED BY <1>2, <2>2, <2>3 DEF Resolve, topicVars, serviceVars
<1>3. CASE DestroyClient(k)
    <2>1. /\ slot' \in [Clients -> Calls \cup {None}]
          /\ ending' \in [Clients -> Calls \cup {None}]
          /\ destroyed' \subseteq Clients
        BY <1>3 DEF DestroyClient
    <2> QED BY <1>3, <2>1 DEF DestroyClient, callVars, topicVars, serviceVars
<1>4. CASE CancelPending(k)
    <2>1. /\ fut' \in [Calls -> Calls \cup {"pending", "cancelled", "error"}]
          /\ ending' \in [Clients -> Calls \cup {None}]
        BY <1>4 DEF CancelPending, Settle
    <2> QED BY <1>4, <2>1 DEF CancelPending, topicVars, serviceVars
<1>5. CASE LoseReply(k)
    <2>1. replies' \in [Clients -> Seq(Calls)]
        BY <1>5 DEF LoseReply
    <2> QED BY <1>5, <2>1 DEF LoseReply, callVars, clientVars, serviceVars
<1> QED BY <1>1, <1>2, <1>3, <1>4, <1>5 DEF ClientStep

\* And those of the service and its topics.
LEMMA ServiceTypes ==
    ASSUME TypeOK, ServiceStep \/ DestroyService \/ LoseRequest
    PROVE  TypeOK'
<1> USE DEF TypeOK
<1>1. CASE TakeRequest
    BY <1>1 DEF TakeRequest, callVars, clientVars
<1>2. CASE PublishResponse
    <2>1. serving \in Calls
        BY <1>2 DEF PublishResponse
    <2>2. replies' \in [Clients -> Seq(Calls)]
        BY <1>2, <2>1 DEF PublishResponse
    <2> QED BY <1>2, <2>2 DEF PublishResponse, callVars, clientVars
<1>3. CASE DestroyService
    BY <1>3 DEF DestroyService, callVars, clientVars
<1>4. CASE LoseRequest
    <2>1. requests \in Seq(Calls) /\ requests # <<>> /\ requests' = Tail(requests)
        BY <1>4 DEF LoseRequest
    <2>2. requests' \in Seq(Calls)
        BY <2>1
    <2> QED BY <1>4, <2>2 DEF LoseRequest, callVars, clientVars, serviceVars
<1> QED BY <1>1, <1>2, <1>3, <1>4 DEF ServiceStep

\* The type invariant of clients, calls, topics and service.
THEOREM TypeCorrect == Spec => []TypeOK
<1>1. Init => TypeOK
    BY DEF Init, TypeOK
<1>2. TypeOK /\ [Next]_vars => TypeOK'
    <2> SUFFICES ASSUME TypeOK, [Next]_vars PROVE TypeOK'
        OBVIOUS
    <2>1. CASE UNCHANGED vars
        BY <2>1 DEF vars, callVars, clientVars, topicVars, serviceVars, TypeOK
    <2> QED BY <2>1, CallTypes, ClientTypes, ServiceTypes DEF Next
<1> QED BY <1>1, <1>2, PTL DEF Spec

-----------------------------------------------------------------------------
(* The slot                                                                  *)

\* A call that has not begun is nowhere.
NewIsNowhere ==
    \A c \in Calls : callPc[c] = "new" =>
        /\ fut[c] = "pending"
        /\ \A k \in Clients :
              /\ slot[k] # c /\ ending[k] # c
              /\ resolving[k] # <<>> => resolving[k][1] # c

\* A call is in the slot of its own client, and while it is there nobody who
\* settles futures has it.
SlotAlone ==
    \A k \in Clients : slot[k] # None =>
        /\ ClientOf[slot[k]] = k
        /\ callPc[slot[k]] \in {"publish", "wait", "returned"}
        /\ \A j \in Clients :
              /\ ending[j] # slot[k]
              /\ resolving[j] # <<>> => resolving[j][1] # slot[k]

\* destroy() takes from the slot once.
EndingOnce == \A k \in Clients : ending[k] # None => k \in destroyed

HeldInv == TypeOK /\ NewIsNowhere /\ SlotAlone /\ EndingOnce /\ PendingIsHeld

\* Who has taken future c out of the slot, or abandons it, settles it.
Settled(c) ==
    /\ callPc[c] # "new" /\ slot' = slot /\ destroyed' = destroyed
    /\ fut'[c] # "pending" /\ \A d \in Calls : d # c => fut'[d] = fut[d]
    /\ \A k \in Clients : slot[k] = c => c \in Abandonable
    /\ callPc'[c] = callPc[c] \/ callPc'[c] = "returned"
    /\ \A d \in Calls : d # c => callPc'[d] = callPc[d]
    /\ \A k \in Clients : \/ ending'[k] = ending[k]
                          \/ /\ ending[k] = c /\ ending'[k] = None
    /\ \A k \in Clients : \/ resolving'[k] = resolving[k]
                          \/ /\ resolving[k] # <<>> /\ resolving[k][1] = c
                             /\ resolving'[k] = <<>>

\* That keeps the invariant.
LEMMA SettleKeepsHeld ==
    ASSUME HeldInv, TypeOK', NEW c \in Calls, Settled(c)
    PROVE  HeldInv'
<1>1. fut'[c] # "pending" /\ \A d \in Calls : d # c => fut'[d] = fut[d]
    BY DEF Settled
<1>2. \A k \in Clients : slot[k] \in Calls \cup {None}
    BY DEF HeldInv, TypeOK
<1>3. NewIsNowhere'
    BY <1>1 DEF HeldInv, Settled, NewIsNowhere
<1>4. SlotAlone'
    BY <1>2 DEF HeldInv, Settled, SlotAlone
<1>5. EndingOnce'
    BY DEF HeldInv, Settled, EndingOnce
<1>6. PendingIsHeld'
    BY <1>1, <1>2 DEF HeldInv, Settled, PendingIsHeld
<1> QED BY <1>3, <1>4, <1>5, <1>6 DEF HeldInv

\* The steps of a call: it enters the slot, and whoever fails it or gives it
\* up takes it out before it settles it.
LEMMA CallKeepsHeld ==
    ASSUME HeldInv, NEW c \in Calls, CallAsync(c) \/ CallStep(c) \/ Abandon(c)
    PROVE  HeldInv'
<1>0. TypeOK /\ TypeOK' /\ UNCHANGED <<resolving, destroyed, ending>>
    <2>1. TypeOK'
        BY CallTypes DEF HeldInv
    <2> QED BY <2>1 DEF HeldInv, CallAsync, CallStep, Abandon, Publish, PublishFails, SetException,
                 Answered, Timeout, CancelTimedOut, clientVars
<1> DEFINE k == ClientOf[c]
<1>1. CASE CallAsync(c)
    <2>1. CASE k \in destroyed
        <3>1. /\ fut'[c] # "pending" /\ \A d \in Calls : d # c => fut'[d] = fut[d] /\ callPc'[d] = callPc[d]
              /\ callPc[c] = "new" /\ callPc'[c] = "returned" /\ slot' = slot
            BY <1>0, <1>1, <2>1 DEF CallAsync, Advance, Settle, TypeOK
        <3>2. \A j \in Clients : slot[j] \in Calls \cup {None} /\ slot[j] # c
            BY <1>0, <3>1, Types DEF HeldInv, NewIsNowhere
        <3>3. NewIsNowhere'
            BY <1>0, <3>1 DEF HeldInv, NewIsNowhere
        <3>4. SlotAlone' /\ EndingOnce'
            BY <1>0, <3>1, <3>2 DEF HeldInv, SlotAlone, EndingOnce
        <3>5. PendingIsHeld'
            BY <1>0, <3>1, <3>2 DEF HeldInv, PendingIsHeld
        <3> QED BY <1>0, <3>3, <3>4, <3>5 DEF HeldInv
    <2>2. CASE k \notin destroyed /\ slot[k] # None
        <3>1. /\ fut' = fut /\ slot' = slot /\ \A d \in Calls : d # c => callPc'[d] = callPc[d]
              /\ callPc[c] = "new" /\ callPc'[c] = "raised"
            BY <1>0, <1>1, <2>2 DEF CallAsync, Advance, TypeOK
        <3>2. \A j \in Clients : slot[j] \in Calls \cup {None} /\ slot[j] # c
            BY <1>0, <3>1, Types DEF HeldInv, NewIsNowhere
        <3>3. NewIsNowhere'
            BY <1>0, <3>1 DEF HeldInv, NewIsNowhere
        <3>4. SlotAlone' /\ EndingOnce'
            BY <1>0, <3>1, <3>2 DEF HeldInv, SlotAlone, EndingOnce
        <3>5. PendingIsHeld'
            BY <1>0, <3>1, <3>2 DEF HeldInv, PendingIsHeld
        <3> QED BY <1>0, <3>3, <3>4, <3>5 DEF HeldInv
    <2>3. CASE k \notin destroyed /\ slot[k] = None
        <3>1. /\ fut' = fut /\ \A d \in Calls : d # c => callPc'[d] = callPc[d]
              /\ callPc[c] = "new" /\ callPc'[c] = "publish"
              /\ slot'[k] = c /\ \A j \in Clients : j # k => slot'[j] = slot[j]
            BY <1>0, <1>1, <2>3 DEF CallAsync, Advance, TypeOK
        <3>2. k \in Clients /\ \A j \in Clients : slot[j] \in Calls \cup {None}
            BY <1>0 DEF TypeOK
        <3> QED BY <1>0, <2>3, <3>1, <3>2
                DEF HeldInv, NewIsNowhere, SlotAlone, EndingOnce, PendingIsHeld
    <2> QED BY <2>1, <2>2, <2>3
<1>2. CASE Publish(c)
    BY <1>0, <1>2 DEF Publish, Advance, Sent, clientVars, HeldInv, TypeOK, NewIsNowhere, SlotAlone,
                      EndingOnce, PendingIsHeld
<1>3. CASE PublishFails(c)
    BY <1>0, <1>3 DEF PublishFails, Advance, HeldInv, TypeOK, NewIsNowhere, SlotAlone,
                      EndingOnce, PendingIsHeld
<1>4. CASE SetException(c)
    <2>1. callPc[c] = "fail" /\ \A j \in Clients : slot[j] # c
        BY <1>0, <1>4 DEF SetException, Advance, HeldInv, SlotAlone
    <2>2. callPc \in [Calls -> Places] /\ callPc' = [callPc EXCEPT ![c] = "returned"]
        BY <1>0, <1>4, Types DEF SetException, Advance
    <2>3. callPc'[c] = "returned" /\ \A d \in Calls : d # c => callPc'[d] = callPc[d]
        BY <2>2
    <2>4. slot' = slot /\ destroyed' = destroyed /\ ending' = ending /\ resolving' = resolving
        BY <1>0, <1>4 DEF SetException, clientVars
    <2>5. fut'[c] # "pending" /\ \A d \in Calls : d # c => fut'[d] = fut[d]
        BY <1>0, <1>4, Types DEF SetException, Settle
    <2>6. Settled(c)
        BY <2>1, <2>3, <2>4, <2>5 DEF Settled
    <2> QED BY <1>0, <2>6, SettleKeepsHeld
<1>5. CASE Answered(c)
    BY <1>0, <1>5 DEF Answered, Advance, clientVars, HeldInv, TypeOK, NewIsNowhere, SlotAlone,
                      EndingOnce, PendingIsHeld
<1>6. CASE Timeout(c)
    BY <1>0, <1>6 DEF Timeout, Advance, HeldInv, TypeOK, NewIsNowhere, SlotAlone,
                      EndingOnce, PendingIsHeld
<1>7. CASE CancelTimedOut(c)
    <2>1. callPc[c] = "cancel" /\ \A j \in Clients : slot[j] # c
        BY <1>0, <1>7 DEF CancelTimedOut, Advance, HeldInv, SlotAlone
    <2>2. callPc \in [Calls -> Places] /\ callPc' = [callPc EXCEPT ![c] = "returned"]
        BY <1>0, <1>7, Types DEF CancelTimedOut, Advance
    <2>3. callPc'[c] = "returned" /\ \A d \in Calls : d # c => callPc'[d] = callPc[d]
        BY <2>2
    <2>4. slot' = slot /\ destroyed' = destroyed /\ ending' = ending /\ resolving' = resolving
        BY <1>0, <1>7 DEF CancelTimedOut, clientVars
    <2>5. fut'[c] # "pending" /\ \A d \in Calls : d # c => fut'[d] = fut[d]
        BY <1>0, <1>7, Types DEF CancelTimedOut, Settle
    <2>6. Settled(c)
        BY <2>1, <2>3, <2>4, <2>5 DEF Settled
    <2> QED BY <1>0, <2>6, SettleKeepsHeld
<1>8. CASE Abandon(c)
    <2>1. /\ callPc[c] # "new" /\ c \in Abandonable /\ callPc' = callPc /\ Settle(c, "cancelled")
          /\ slot' = slot /\ destroyed' = destroyed /\ ending' = ending /\ resolving' = resolving
        BY <1>8 DEF Abandon, clientVars
    <2>2. fut'[c] # "pending" /\ \A d \in Calls : d # c => fut'[d] = fut[d]
        BY <1>0, <2>1, Types DEF Settle
    <2>3. Settled(c)
        BY <2>1, <2>2 DEF Settled
    <2> QED BY <1>0, <2>3, SettleKeepsHeld
<1> QED BY <1>1, <1>2, <1>3, <1>4, <1>5, <1>6, <1>7, <1>8 DEF CallStep

\* The steps of a client: a response or destroy() takes the future out of the
\* slot, then settles it.
LEMMA ClientKeepsHeld ==
    ASSUME HeldInv, NEW k \in Clients, ClientStep(k) \/ DestroyClient(k) \/ LoseReply(k)
    PROVE  HeldInv'
<1>0. TypeOK /\ TypeOK' /\ callPc' = callPc
    <2>1. TypeOK'
        BY ClientTypes DEF HeldInv
    <2> QED BY <2>1 DEF HeldInv, ClientStep, OnResponse, Resolve, CancelPending, DestroyClient,
                 LoseReply, callVars
<1>1. CASE OnResponse(k)
    <2>1. fut' = fut /\ UNCHANGED <<destroyed, ending>> /\ resolving[k] = <<>>
        BY <1>1 DEF OnResponse, callVars
    <2>2. CASE k \in destroyed \/ slot[k] = None
        <3>1. UNCHANGED <<slot, resolving>>
            BY <1>1, <2>2 DEF OnResponse
        <3> QED BY <1>0, <2>1, <3>1 DEF HeldInv, NewIsNowhere, SlotAlone, EndingOnce, PendingIsHeld
    <2>3. CASE k \notin destroyed /\ slot[k] # None
        <3>1. /\ resolving'[k] = <<slot[k], Head(replies[k])>> /\ slot'[k] = None
              /\ \A j \in Clients : j # k => slot'[j] = slot[j] /\ resolving'[j] = resolving[j]
            BY <1>0, <1>1, <2>3 DEF OnResponse, TypeOK
        <3>2. resolving'[k] # <<>> /\ resolving'[k][1] = slot[k] /\ slot[k] \in Calls
            BY <1>0, <2>3, <3>1 DEF TypeOK
        <3>3. \A j \in Clients : slot[j] \in Calls \cup {None}
            BY <1>0 DEF TypeOK
        <3> HIDE DEF TypeOK
        <3>4. NewIsNowhere'
            BY <1>0, <2>1, <3>1, <3>2 DEF HeldInv, NewIsNowhere, SlotAlone
        <3>5. SlotAlone' /\ EndingOnce'
            BY <1>0, <2>1, <3>1, <3>2, <3>3 DEF HeldInv, SlotAlone, EndingOnce
        <3>6. PendingIsHeld'
            BY <1>0, <2>1, <3>1, <3>2, <3>3 DEF HeldInv, PendingIsHeld
        <3> QED BY <1>0, <3>4, <3>5, <3>6 DEF HeldInv
    <2> QED BY <2>2, <2>3
<1>2. CASE Resolve(k)
    <2>1. resolving[k] \in Calls \X Calls
        BY <1>0, <1>2 DEF Resolve, TypeOK
    <2>2. PICK c, r \in Calls : resolving[k] = <<c, r>>
        BY <2>1
    <2>3. Settle(c, r) /\ r # "pending" /\ resolving[k] # <<>> /\ resolving[k][1] = c
        BY <1>2, <2>2 DEF Resolve
    <2>4. callPc[c] # "new" /\ \A j \in Clients : slot[j] # c
        BY <2>3 DEF HeldInv, NewIsNowhere, SlotAlone
    <2>5. /\ slot' = slot /\ destroyed' = destroyed /\ ending' = ending
          /\ resolving' = [resolving EXCEPT ![k] = <<>>]
        BY <1>2 DEF Resolve
    <2>6. resolving \in [Clients -> {<<>>} \cup (Calls \X Calls)]
        BY <1>0, Types
    <2>7. resolving'[k] = <<>> /\ \A j \in Clients : j # k => resolving'[j] = resolving[j]
        BY <2>5, <2>6, Zenon
    <2>8. \A j \in Clients : \/ resolving'[j] = resolving[j]
                             \/ /\ resolving[j] # <<>> /\ resolving[j][1] = c
                                /\ resolving'[j] = <<>>
        BY <2>3, <2>7
    <2>9. fut'[c] # "pending" /\ \A d \in Calls : d # c => fut'[d] = fut[d]
        BY <1>0, <2>3, Types DEF Settle
    <2>10. Settled(c)
        BY <1>0, <2>4, <2>5, <2>8, <2>9 DEF Settled
    <2> QED BY <1>0, <2>10, SettleKeepsHeld
<1>3. CASE DestroyClient(k)
    <2>1. /\ fut' = fut /\ resolving' = resolving /\ destroyed' = destroyed \cup {k}
          /\ ending'[k] = slot[k] /\ slot'[k] = None
          /\ \A j \in Clients : j # k => slot'[j] = slot[j] /\ ending'[j] = ending[j]
        BY <1>0, <1>3, Types DEF DestroyClient, callVars
    <2>2. ending[k] = None
        BY <1>3 DEF DestroyClient, HeldInv, EndingOnce
    <2>3. \A j \in Clients : slot[j] \in Calls \cup {None}
        BY <1>0, Types
    <2>4. NewIsNowhere'
        BY <1>0, <2>1, <2>3 DEF HeldInv, NewIsNowhere
    <2>5. SlotAlone' /\ EndingOnce'
        BY <1>0, <2>1, <2>2, <2>3 DEF HeldInv, SlotAlone, EndingOnce
    <2>6. PendingIsHeld'
        BY <1>0, <2>1, <2>2, <2>3 DEF HeldInv, PendingIsHeld
    <2> QED BY <1>0, <2>4, <2>5, <2>6 DEF HeldInv
<1>4. CASE CancelPending(k)
    <2>1. ending[k] \in Calls /\ Settle(ending[k], "cancelled")
        BY <1>0, <1>4 DEF CancelPending, TypeOK
    <2>2. callPc[ending[k]] # "new" /\ \A j \in Clients : slot[j] # ending[k]
        BY <2>1 DEF HeldInv, NewIsNowhere, SlotAlone
    <2>3. /\ slot' = slot /\ destroyed' = destroyed /\ resolving' = resolving
          /\ ending' = [ending EXCEPT ![k] = None]
        BY <1>4 DEF CancelPending
    <2>4. ending \in [Clients -> Calls \cup {None}]
        BY <1>0, Types
    <2>5. ending'[k] = None /\ \A j \in Clients : j # k => ending'[j] = ending[j]
        BY <2>3, <2>4
    <2>6. \A j \in Clients : \/ ending'[j] = ending[j]
                             \/ /\ ending[j] = ending[k] /\ ending'[j] = None
        BY <2>5
    <2>7. fut'[ending[k]] # "pending" /\ \A d \in Calls : d # ending[k] => fut'[d] = fut[d]
        BY <1>0, <2>1, Types DEF Settle
    <2>8. Settled(ending[k])
        BY <1>0, <2>2, <2>3, <2>6, <2>7 DEF Settled
    <2> QED BY <1>0, <2>1, <2>8, SettleKeepsHeld
<1>5. CASE LoseReply(k)
    BY <1>0, <1>5 DEF LoseReply, callVars, clientVars, HeldInv, NewIsNowhere, SlotAlone,
                      EndingOnce, PendingIsHeld
<1> QED BY <1>1, <1>2, <1>3, <1>4, <1>5 DEF ClientStep

\* For any clients and calls, whatever is lost, fails or is destroyed: the slot
\* holds a pending future or a thread that is about to settle it does, and the
\* slot holds none that is done.
THEOREM HeldHolds == Spec => []PendingIsHeld
<1>1. Init => HeldInv
    <2> SUFFICES ASSUME Init PROVE HeldInv
        OBVIOUS
    <2>1. TypeOK
        BY DEF Init, TypeOK
    <2> QED BY <2>1 DEF Init, HeldInv, NewIsNowhere, SlotAlone, EndingOnce, PendingIsHeld
<1>2. HeldInv /\ [Next]_vars => HeldInv'
    <2> SUFFICES ASSUME HeldInv, [Next]_vars PROVE HeldInv'
        OBVIOUS
    <2>1. ASSUME ServiceStep \/ DestroyService \/ LoseRequest PROVE HeldInv'
        <3>1. TypeOK'
            BY <2>1, ServiceTypes DEF HeldInv
        <3>2. UNCHANGED <<callVars, clientVars>>
            BY <2>1 DEF ServiceStep, TakeRequest, PublishResponse, DestroyService, LoseRequest
        <3> QED BY <3>1, <3>2 DEF callVars, clientVars, HeldInv, NewIsNowhere, SlotAlone,
                                  EndingOnce, PendingIsHeld
    <2>2. CASE UNCHANGED vars
        BY <2>2 DEF vars, callVars, clientVars, topicVars, serviceVars, HeldInv, TypeOK,
                    NewIsNowhere, SlotAlone, EndingOnce, PendingIsHeld
    <2> QED BY <2>1, <2>2, CallKeepsHeld, ClientKeepsHeld DEF Next
<1>3. HeldInv => PendingIsHeld
    BY DEF HeldInv
<1> QED BY <1>1, <1>2, <1>3, PTL DEF Spec
=============================================================================
