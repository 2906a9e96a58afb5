------------------------------ MODULE Actions ------------------------------
(***************************************************************************)
(* lwrclpy/action.py: an ActionClient and an ActionServer.  The client      *)
(* keeps a future per goal for each of three requests (accept the goal,     *)
(* give me its result, cancel it) and matches the replies, which carry no   *)
(* goal id, by their order; a cancel reply resolves every cancel future.    *)
(* The server handles requests one at a time (its callbacks are in one      *)
(* exclusive group), executes goals in a thread pool, and keeps a result    *)
(* until it is asked for or expires.  Topics are reliable and in order; a   *)
(* message is known here by its goal, which the client cannot see.          *)
(***************************************************************************)
EXTENDS Naturals, Sequences, FiniteSets, SequencesExt

CONSTANTS Goals,
          Cancelable,  \* goals the program may ask to cancel
          Abandonable, \* <<k, g>>: futures the program may cancel
          Serial,      \* the program calls the client from one thread only
          MayFail,     \* publish() of a request may raise
          PoolSize,    \* LWRCLPY_ACTION_EXECUTOR_THREADS
          Deferred,    \* goals that handle_accepted_callback takes over, which the
                       \* program executes itself
          MaxLost,     \* bound: replies whose publish() raises in a behaviour
          Expiring,    \* what may outlive the retention time: a subset of
                       \* {"results", "requests"}
          MayDestroyClient, MayDestroyServer,
          None         \* no goal

Kinds == {"goal", "result", "cancel"}
Ordered == {"goal", "result"} \* kinds whose replies are matched by order

ASSUME ActionAssumption ==
    /\ Cancelable \subseteq Goals
    /\ Deferred \subseteq Goals
    /\ Abandonable \subseteq Kinds \X Goals
    /\ PoolSize \in Nat \ {0} /\ MaxLost \in Nat
    /\ None \notin Goals /\ Goals \cap {"none", "pending", "cancelled", "error"} = {}
    /\ Expiring \subseteq {"results", "requests"}
    /\ {Serial, MayFail, MayDestroyClient, MayDestroyServer} \subseteq BOOLEAN

VARIABLES
    rpc,       \* rpc[k][g]: where the client's request of kind k for g is
    fut,       \* fut[k][g]: its future: "none" before the call, "pending",
               \* "cancelled", "error", or the goal whose reply resolved it
    registered,\* registered[k]: goals with a future in the client's map for k
    keys,      \* keys[k]: the goals whose replies are awaited, in order
    inHand,    \* <<k, g, reply>>: futures a reply handler is about to resolve
    gone,      \* ActionClient._destroyed
    ending,    \* <<k, g>>: futures destroy() is about to cancel
    requests,  \* requests[k]: the request topic, oldest first
    replies,   \* replies[k]: the reply topic as the client reads it
    serving,   \* <<step, goal>>: what the server's callback does next
    refused,   \* goals the goal callback rejected
    handles,   \* goals in ActionServer._goal_handles
    asked,     \* ... in _pending_result_requests
    results,   \* ... in _results
    status,    \* status[g]: the entry of g in _status_entries
    xpc,       \* xpc[g]: where the thread pool's job for g is
    expired,   \* goals whose result, or the request for it, was pruned
    lost,      \* <<k, g>>: replies of kind k that could not be published
    down       \* ActionServer._destroyed

callVars   == <<rpc, fut, registered, keys>>
replyVars  == <<inHand, ending, gone>>
topicVars  == <<requests, replies, lost>>
goalVars   == <<refused, handles>>
resultVars == <<asked, results, expired>>
clientVars == <<callVars, replyVars>>
serverVars == <<serving, goalVars, resultVars, status, xpc, down>>
vars == <<clientVars, topicVars, serverVars>>

PerRequest(x) == [k \in Kinds |-> [g \in Goals |-> x]]

Init ==
    /\ rpc = PerRequest("new")
    /\ fut = PerRequest("none")
    /\ registered = [k \in Kinds |-> {}]
    /\ keys = [k \in Ordered |-> <<>>]
    /\ inHand = {} /\ ending = {} /\ gone = FALSE
    /\ requests = [k \in Kinds |-> <<>>]
    /\ replies = [k \in Kinds |-> <<>>]
    /\ lost = {}
    /\ serving = <<"idle", None>>
    /\ refused = {} /\ handles = {}
    /\ asked = {} /\ results = {} /\ expired = {}
    /\ status = [g \in Goals |-> "none"]
    /\ xpc = [g \in Goals |-> "none"]
    /\ down = FALSE

\* A done future keeps its outcome (module Future).
Settled(f, k, g, outcome) ==
    [f EXCEPT ![k][g] = IF @ = "pending" THEN outcome ELSE @]

-----------------------------------------------------------------------------
(* The client: send_goal_async, _request_result, _request_cancel            *)

Goto(k, g, from, to) ==
    /\ rpc[k][g] = from
    /\ rpc' = [rpc EXCEPT ![k][g] = to]

\* The program asks about a goal once it has a handle that says it is accepted,
\* as send_goal does for the result.
MayAsk(k, g) ==
    /\ k # "goal" => fut["goal"][g] \in Goals \ refused
    /\ k = "cancel" => g \in Cancelable
    /\ Serial => \A q \in Kinds, h \in Goals : rpc[q][h] \notin {"publish", "fail"}

\* The lock section that records the future; a destroyed client cancels it.
Register(k, g) ==
    /\ MayAsk(k, g)
    /\ \/ /\ ~gone
          /\ Goto(k, g, "new", "publish")
          /\ fut' = [fut EXCEPT ![k][g] = "pending"]
          /\ registered' = [registered EXCEPT ![k] = @ \cup {g}]
          /\ keys' = IF k \in Ordered THEN [keys EXCEPT ![k] = Append(@, g)] ELSE keys
       \/ /\ gone
          /\ Goto(k, g, "new", "done")
          /\ fut' = [fut EXCEPT ![k][g] = "cancelled"]
          /\ UNCHANGED <<registered, keys>>
    /\ UNCHANGED <<replyVars, topicVars, serverVars>>

\* publish(); destroy() may come first and not have got to the publisher yet.
Publish(k, g) ==
    /\ Goto(k, g, "publish", "done")
    /\ requests' = [requests EXCEPT ![k] = IF down THEN @ ELSE Append(@, g)]
    /\ UNCHANGED <<fut, registered, keys, replyVars, replies, lost, serverVars>>

\* publish() raises: the future and its key are taken back, ...
PublishFails(k, g) ==
    /\ MayFail \/ gone
    /\ Goto(k, g, "publish", "fail")
    /\ registered' = [registered EXCEPT ![k] = @ \ {g}]
    /\ keys' = IF k \in Ordered THEN [keys EXCEPT ![k] = RemoveFirst(@, g)] ELSE keys
    /\ UNCHANGED <<fut, replyVars, topicVars, serverVars>>

\* ... then the future gets the exception.
SetException(k, g) ==
    /\ Goto(k, g, "fail", "done")
    /\ fut' = Settled(fut, k, g, "error")
    /\ UNCHANGED <<registered, keys, replyVars, topicVars, serverVars>>

\* The program cancels a future; ...
Abandon(k, g) ==
    /\ <<k, g>> \in Abandonable /\ rpc[k][g] = "done" /\ fut[k][g] = "pending"
    /\ fut' = Settled(fut, k, g, "cancelled")
    /\ UNCHANGED <<rpc, registered, keys, replyVars, topicVars, serverVars>>

\* (faulty: the awaited reply is forgotten along with the future)
CleanupKey(k, g) ==
    /\ g \in registered[k] /\ fut[k][g] = "cancelled"
    /\ registered' = [registered EXCEPT ![k] = @ \ {g}]
    /\ keys' = IF k \in Ordered THEN [keys EXCEPT ![k] = RemoveFirst(@, g)] ELSE keys
    /\ UNCHANGED <<rpc, fut, replyVars, topicVars, serverVars>>

\* ... its done callback takes it off the map and leaves its key: the reply
\* still comes.
Cleanup(k, g) ==
    /\ g \in registered[k] /\ fut[k][g] = "cancelled"
    /\ registered' = [registered EXCEPT ![k] = @ \ {g}]
    /\ UNCHANGED <<rpc, fut, keys, replyVars, topicVars, serverVars>>

-----------------------------------------------------------------------------
(* The client: replies and destroy()                                        *)

\* _on_send_goal_response, _on_result_response: the oldest key is answered.
TakeReply(k) ==
    /\ k \in Ordered /\ replies[k] # <<>> /\ inHand = {}
    /\ replies' = [replies EXCEPT ![k] = Tail(@)]
    /\ \/ /\ keys[k] = <<>>
          /\ UNCHANGED <<registered, keys, inHand>>
       \/ /\ keys[k] # <<>>
          /\ keys' = [keys EXCEPT ![k] = Tail(@)]
          /\ registered' = [registered EXCEPT ![k] = @ \ {Head(keys[k])}]
          /\ inHand' = IF Head(keys[k]) \in registered[k]
                       THEN {<<k, Head(keys[k]), Head(replies[k])>>} ELSE {}
    /\ UNCHANGED <<rpc, fut, ending, gone, requests, lost, serverVars>>

\* _on_cancel_response: every cancel future is answered.
TakeCancelReply ==
    /\ replies["cancel"] # <<>> /\ inHand = {}
    /\ replies' = [replies EXCEPT !["cancel"] = Tail(@)]
    /\ inHand' = {<<"cancel", g, Head(replies["cancel"])>> : g \in registered["cancel"]}
    /\ registered' = [registered EXCEPT !["cancel"] = {}]
    /\ UNCHANGED <<rpc, fut, keys, ending, gone, requests, lost, serverVars>>

Resolve ==
    \E p \in inHand :
        /\ fut' = Settled(fut, p[1], p[2], p[3])
        /\ inHand' = inHand \ {p}
        /\ UNCHANGED <<rpc, registered, keys, ending, gone, topicVars, serverVars>>

DestroyClient ==
    /\ MayDestroyClient /\ ~gone
    /\ gone' = TRUE
    /\ ending' = {p \in Kinds \X Goals : p[2] \in registered[p[1]]}
    /\ registered' = [k \in Kinds |-> {}]
    /\ keys' = [k \in Ordered |-> <<>>]
    /\ UNCHANGED <<rpc, fut, inHand, topicVars, serverVars>>

CancelRegistered ==
    \E p \in ending :
        /\ fut' = Settled(fut, p[1], p[2], "cancelled")
        /\ ending' = ending \ {p}
        /\ UNCHANGED <<rpc, registered, keys, inHand, gone, topicVars, serverVars>>

-----------------------------------------------------------------------------
(* The server: the callbacks of its three request topics, one at a time     *)

Idle == <<"idle", None>>
Doing(step) == serving[1] = step
Goal == serving[2]

\* A request comes; a destroyed server ignores it.
TakeRequest(k) ==
    /\ Doing("idle") /\ requests[k] # <<>>
    /\ requests' = [requests EXCEPT ![k] = Tail(@)]
    /\ serving' = IF down THEN Idle ELSE <<k, Head(requests[k])>>
    /\ UNCHANGED <<clientVars, replies, lost, goalVars, resultVars, status, xpc, down>>

\* _publish_if_alive: the reply of kind k to goal g goes out, or it does not,
\* since the server is destroyed or publish() raises, which is not reported.
Send(k, g, sent, unsent) ==
    \/ /\ ~down
       /\ replies' = [replies EXCEPT ![k] = IF gone THEN @ ELSE Append(@, g)]
       /\ lost' = lost
       /\ sent
    \/ /\ down
       /\ UNCHANGED <<replies, lost>>
       /\ unsent
    \/ /\ ~down /\ Cardinality(lost) < MaxLost
       /\ lost' = lost \cup {<<k, g>>}
       /\ replies' = replies
       /\ unsent

\* _on_send_goal: the goal callback rejects, or a handle is recorded.
Reject ==
    /\ Doing("goal")
    /\ refused' = refused \cup {Goal}
    /\ serving' = <<"reply", Goal>>
    /\ UNCHANGED <<clientVars, topicVars, handles, resultVars, status, xpc, down>>

Accept ==
    /\ Doing("goal")
    /\ \/ /\ down
          /\ serving' = Idle
          /\ UNCHANGED handles
       \/ /\ ~down
          /\ serving' = <<"accepted", Goal>>
          /\ handles' = handles \cup {Goal}
    /\ UNCHANGED <<clientVars, topicVars, refused, resultVars, status, xpc, down>>

SetStatus(g, s) == status' = IF down THEN status ELSE [status EXCEPT ![g] = s]

\* _set_status(ACCEPTED); then handle_accepted_callback gets the handle, or the
\* server calls execute(): _set_status(EXECUTING), ...
MarkAccepted ==
    /\ Doing("accepted")
    /\ SetStatus(Goal, "accepted")
    /\ \/ /\ Goal \in Deferred
          /\ xpc' = [xpc EXCEPT ![Goal] = "handed"]
          /\ serving' = <<"reply", Goal>>
       \/ /\ Goal \notin Deferred
          /\ xpc' = xpc
          /\ serving' = <<"execute", Goal>>
    /\ UNCHANGED <<clientVars, topicVars, goalVars, resultVars, down>>

MarkExecuting ==
    /\ Doing("execute")
    /\ SetStatus(Goal, "executing")
    /\ serving' = <<"submit", Goal>>
    /\ UNCHANGED <<clientVars, topicVars, goalVars, resultVars, xpc, down>>

\* ... and _start_execute.
Submit ==
    /\ Doing("submit")
    /\ xpc' = IF down THEN xpc ELSE [xpc EXCEPT ![Goal] = "submitted"]
    /\ serving' = <<"reply", Goal>>
    /\ UNCHANGED <<clientVars, topicVars, goalVars, resultVars, status, down>>

\* (faulty: the status is set when the job may be running already)
ReplyMarksExecuting ==
    /\ Doing("reply")
    /\ serving' = Idle
    /\ Send("goal", Goal, TRUE, TRUE)
    /\ SetStatus(Goal, "executing")
    /\ UNCHANGED <<clientVars, requests, goalVars, resultVars, xpc, down>>

ReplyGoal ==
    /\ Doing("reply")
    /\ serving' = Idle
    /\ Send("goal", Goal, TRUE, TRUE)
    /\ UNCHANGED <<clientVars, requests, goalVars, resultVars, status, xpc, down>>

\* _prune_results_locked: results that are too old (or too many) go with their
\* requests and status entries, requests that have waited too long go alone.
Stale(what, s) == IF what \in Expiring THEN SUBSET s ELSE {{}}
Pruned(res, req) ==
    /\ expired' = expired \cup res \cup req
    /\ status' = [g \in Goals |-> IF g \in res THEN "none" ELSE status[g]]

\* (faulty: the request is forgotten when there is no result yet)
RequestForgotten ==
    /\ Doing("result")
    /\ \E res \in Stale("results", results), req \in Stale("requests", asked) :
          /\ Pruned(res, req)
          /\ results' = results \ res
          /\ asked' = asked \ (res \cup req)
          /\ serving' = IF Goal \in results' THEN <<"publish", Goal>> ELSE Idle
    /\ UNCHANGED <<clientVars, topicVars, goalVars, xpc, down>>

\* _on_get_result: publish the result now, or when the goal completes.
RequestResult ==
    /\ Doing("result")
    /\ \/ /\ down
          /\ serving' = Idle
          /\ UNCHANGED <<resultVars, status>>
       \/ /\ ~down
          /\ \E res \in Stale("results", results), req \in Stale("requests", asked) :
                /\ Pruned(res, req)
                /\ results' = results \ res
                /\ IF Goal \in results'
                   THEN serving' = <<"publish", Goal>> /\ asked' = asked \ (res \cup req)
                   ELSE serving' = Idle /\ asked' = (asked \ (res \cup req)) \cup {Goal}
    /\ UNCHANGED <<clientVars, topicVars, goalVars, xpc, down>>

\* _on_cancel: a live goal whose cancel callback agrees is marked CANCELING,
\* which is done after the lock is released.
LookUpHandle ==
    /\ Doing("cancel")
    /\ \/ /\ ~down /\ Goal \in handles
          /\ serving' = <<"canceling", Goal>>
       \/ serving' = IF down THEN Idle ELSE <<"replyCancel", Goal>>
    /\ UNCHANGED <<clientVars, topicVars, goalVars, resultVars, status, xpc, down>>

MarkCanceling ==
    /\ Doing("canceling")
    /\ SetStatus(Goal, "canceling")
    /\ serving' = <<"replyCancel", Goal>>
    /\ UNCHANGED <<clientVars, topicVars, goalVars, resultVars, xpc, down>>

ReplyCancel ==
    /\ Doing("replyCancel")
    /\ serving' = Idle
    /\ Send("cancel", Goal, TRUE, TRUE)
    /\ UNCHANGED <<clientVars, requests, goalVars, resultVars, status, xpc, down>>

-----------------------------------------------------------------------------
(* The server: _publish_result_for_goal, by its callback or by a job        *)

\* The lock section takes the result, which only one of them gets.
TakeResult(g, got, none) ==
    \/ /\ down
       /\ none
       /\ UNCHANGED <<resultVars, status>>
    \/ /\ ~down
       /\ \E res \in Stale("results", results), req \in Stale("requests", asked) :
             LET waiting == asked \ (res \cup req) IN
             /\ Pruned(res, req)
             /\ results' = (results \ res) \ {g}
             /\ \/ g \in results \ res /\ asked' = waiting \ {g} /\ got
                \/ g \notin results \ res /\ asked' = waiting /\ none

Serve(step) == serving' = <<step, Goal>>

TakeResultHere ==
    /\ Doing("publish")
    /\ TakeResult(Goal, Serve("send"), serving' = Idle)
    /\ UNCHANGED <<clientVars, topicVars, goalVars, xpc, down>>

SendResultHere ==
    /\ Doing("send")
    /\ Send("result", Goal, Serve("clear"), serving' = Idle)
    /\ UNCHANGED <<clientVars, requests, goalVars, resultVars, status, xpc, down>>

ClearStatusHere ==
    /\ Doing("clear")
    /\ SetStatus(Goal, "none")
    /\ serving' = Idle
    /\ UNCHANGED <<clientVars, topicVars, goalVars, resultVars, xpc, down>>

-----------------------------------------------------------------------------
(* The server: jobs of its thread pool, and destroy()                       *)

Job(g, from, to) ==
    /\ xpc[g] = from
    /\ xpc' = [xpc EXCEPT ![g] = to]

Waiting == {"none", "handed", "executing", "submitted", "over"}
Busy == {g \in Goals : xpc[g] \notin Waiting}

\* A thread of the program calls execute() of a handle it was given.
MarkHanded(g) ==
    /\ Job(g, "handed", "executing")
    /\ SetStatus(g, "executing")
    /\ UNCHANGED <<clientVars, topicVars, serving, goalVars, resultVars, down>>

SubmitHanded(g) ==
    /\ Job(g, "executing", IF down THEN "over" ELSE "submitted")
    /\ UNCHANGED <<clientVars, topicVars, serving, goalVars, resultVars, status, down>>

StartJob(g) ==
    /\ Cardinality(Busy) < PoolSize
    /\ Job(g, "submitted", IF down THEN "over" ELSE "running")
    /\ UNCHANGED <<clientVars, topicVars, serving, goalVars, resultVars, status, down>>

\* The execute callback returns or raises; _complete_goal's lock section.
Complete(g) ==
    /\ \/ /\ down
          /\ Job(g, "running", "over")
          /\ UNCHANGED <<handles, resultVars, status>>
       \/ /\ ~down
          /\ handles' = handles \ {g}
          /\ \E res \in Stale("results", results), req \in Stale("requests", asked) :
                /\ Pruned(res, req)
                /\ results' = (results \ res) \cup {g}
                /\ asked' = asked \ (res \cup req)
                /\ Job(g, "running", IF g \in asked' THEN "mark and publish" ELSE "mark")
    /\ UNCHANGED <<clientVars, topicVars, serving, refused, down>>

\* The goal's final status: one of SUCCEEDED, ABORTED, CANCELED.
MarkDone(g) ==
    /\ \/ Job(g, "mark", "over")
       \/ Job(g, "mark and publish", "publish")
    /\ SetStatus(g, "done")
    /\ UNCHANGED <<clientVars, topicVars, serving, goalVars, resultVars, down>>

TakeResultInJob(g) ==
    /\ xpc[g] = "publish"
    /\ TakeResult(g, Job(g, "publish", "send"), Job(g, "publish", "over"))
    /\ UNCHANGED <<clientVars, topicVars, serving, goalVars, down>>

SendResultInJob(g) ==
    /\ xpc[g] = "send"
    /\ Send("result", g, Job(g, "send", "clear"), Job(g, "send", "over"))
    /\ UNCHANGED <<clientVars, requests, serving, goalVars, resultVars, status, down>>

ClearStatusInJob(g) ==
    /\ Job(g, "clear", "over")
    /\ SetStatus(g, "none")
    /\ UNCHANGED <<clientVars, topicVars, serving, goalVars, resultVars, down>>

\* The tables are emptied and jobs that have not begun are dropped.
DestroyServer ==
    /\ MayDestroyServer /\ ~down
    /\ down' = TRUE
    /\ handles' = {} /\ asked' = {} /\ results' = {}
    /\ status' = [g \in Goals |-> "none"]
    /\ xpc' = [g \in Goals |-> IF xpc[g] = "submitted" THEN "over" ELSE xpc[g]]
    /\ UNCHANGED <<clientVars, topicVars, serving, refused, expired>>

-----------------------------------------------------------------------------

CallStep(k, g) ==
    Publish(k, g) \/ PublishFails(k, g) \/ SetException(k, g) \/ Cleanup(k, g)
ClientStep ==
    \/ \E k \in Ordered : TakeReply(k)
    \/ TakeCancelReply \/ Resolve
ServerStep ==
    \/ \E k \in Kinds : TakeRequest(k)
    \/ Reject \/ Accept \/ MarkAccepted \/ MarkExecuting \/ Submit \/ ReplyGoal
    \/ RequestResult \/ TakeResultHere \/ SendResultHere \/ ClearStatusHere
    \/ LookUpHandle \/ MarkCanceling \/ ReplyCancel
JobStep(g) ==
    \/ MarkHanded(g) \/ SubmitHanded(g)
    \/ StartJob(g) \/ Complete(g) \/ MarkDone(g)
    \/ TakeResultInJob(g) \/ SendResultInJob(g) \/ ClearStatusInJob(g)

Next ==
    \/ \E k \in Kinds, g \in Goals : Register(k, g) \/ CallStep(k, g) \/ Abandon(k, g)
    \/ ClientStep \/ DestroyClient \/ CancelRegistered
    \/ ServerStep \/ DestroyServer
    \/ \E g \in Goals : JobStep(g)

Spec == Init /\ [][Next]_vars

\* While a call of the client, an executor's callback, a job of the pool or
\* destroy() can go on, one of them does: weaker than fairness of each thread,
\* and enough, since each has finitely many steps.  A program that takes a goal
\* over executes it; nobody has to call, cancel or destroy.
Working == \E k \in Kinds, g \in Goals : CallStep(k, g) \/ JobStep(g)
Fairness == WF_vars(Working \/ ClientStep \/ ServerStep \/ CancelRegistered)

FairSpec == Spec /\ Fairness

-----------------------------------------------------------------------------
(* Properties                                                               *)

Steps == Kinds \cup {"idle", "reply", "accepted", "execute", "submit", "publish",
                     "send", "clear", "canceling", "replyCancel"}

\* Every variable stays in its domain.
TypeOK ==
    /\ rpc \in [Kinds -> [Goals -> {"new", "publish", "fail", "done"}]]
    /\ fut \in [Kinds -> [Goals -> Goals \cup {"none", "pending", "cancelled", "error"}]]
    /\ registered \in [Kinds -> SUBSET Goals]
    /\ keys \in [Ordered -> Seq(Goals)]
    /\ inHand \subseteq Kinds \X Goals \X Goals
    /\ ending \subseteq Kinds \X Goals
    /\ requests \in [Kinds -> Seq(Goals)] /\ replies \in [Kinds -> Seq(Goals)]
    /\ serving = Idle \/ serving \in (Steps \ {"idle"}) \X Goals
    /\ {handles, refused, asked, results, expired} \subseteq SUBSET Goals
    /\ status \in [Goals -> {"none", "accepted", "executing", "canceling", "done"}]
    /\ xpc \in [Goals -> {"none", "handed", "executing", "submitted", "running", "mark",
                          "mark and publish", "publish", "send", "clear", "over"}]
    /\ lost \subseteq Kinds \X Goals
    /\ gone \in BOOLEAN /\ down \in BOOLEAN

\* The reply that a goal future is resolved with, matched by order, is the reply
\* to that goal.
OwnGoalResponse == \A g \in Goals : fut["goal"][g] \in Goals => fut["goal"][g] = g

\* A result future gets the result of its own goal (_on_result_response matches
\* results by the order in which they were asked for; they come in the order in
\* which the goals complete).
OwnResult == \A g \in Goals : fut["result"][g] \in Goals => fut["result"][g] = g

\* A pending future is never forgotten: it is in its map, in the hand of a reply
\* handler or of destroy(), or its caller is about to set an exception.
PendingIsHeld ==
    \A k \in Kinds, g \in Goals :
        fut[k][g] = "pending" =>
            \/ g \in registered[k]
            \/ <<k, g>> \in ending
            \/ \E p \in inHand : p[1] = k /\ p[2] = g
            \/ rpc[k][g] = "fail"

\* Result and request meet: when both are there, somebody is about to publish
\* the result, whichever of the two came first.
ResultMeetsRequest ==
    \A g \in asked \cap results :
        serving = <<"publish", g>> \/ xpc[g] \in {"mark and publish", "publish"}

\* Replies and requests stay in step, through everything that takes a future or a
\* key out of the tables: futures that are cancelled, requests that cannot be
\* published, destroys.  Only a goal reply that the server could not publish puts
\* the later ones out of step (code: _publish_if_alive, _on_send_goal_response).
InLineSoFar == \A g \in Goals : <<"goal", g>> \notin lost
InStep == (InLineSoFar => OwnGoalResponse) /\ PendingIsHeld /\ ResultMeetsRequest

\* Why a pending future is held: only destroy() takes futures out of the maps
\* that it does not resolve at once, and it does so once.
HeldInv == PendingIsHeld /\ (~gone => ending = {})

\* Why request and result meet: a destroyed server has neither.
MeetInv == ResultMeetsRequest /\ (down => asked = {} /\ results = {})

\* Why the replies match: the keys are the goals whose replies are there, then
\* the goal that is being served, those whose requests wait, and the one that is
\* about to be published.  A destroyed server answers no more; a destroyed client
\* has no keys.
AtGoal == serving[1] \in {"goal", "accepted", "execute", "submit", "reply"}
One(condition) == IF condition THEN 1 ELSE 0

InLine(call, line, answers, waiting, serves, goal, dead) ==
    LET reached == Len(answers) + One(serves)
        calling == \E g \in Goals : call[g] = "publish" IN
    /\ \A i \in 1..Len(answers) :
          i <= Len(line) /\ line[i] = answers[i] /\ call[answers[i]] = "done"
    /\ \A i \in 1..Len(line) :
          call[line[i]] = "done" \/ (i = Len(line) /\ call[line[i]] = "publish")
    /\ \A g \in Goals : call[g] = "publish" => line # <<>> /\ line[Len(line)] = g
    /\ ~dead => /\ Len(line) = reached + Len(waiting) + One(calling)
                /\ serves => line[reached] = goal
                /\ \A i \in 1..Len(waiting) : line[reached + i] = waiting[i]

LineMeets ==
    /\ OwnGoalResponse
    /\ \A p \in inHand : p[1] = "goal" => p[2] = p[3]
    /\ gone => keys["goal"] = <<>>
    /\ ~gone => InLine(rpc["goal"], keys["goal"], replies["goal"], requests["goal"],
                       AtGoal, Goal, down)
LineInv == InLineSoFar => LineMeets

\* A goal that reached a final status keeps it until its entry is cleared,
\* unless somebody asked to cancel it.
FinalStatusStays ==
    [][\A g \in Goals : status[g] = "done" /\ rpc["cancel"][g] = "new"
           => status'[g] \in {"done", "none"}]_vars

\* Why: a goal is requested once, and has no job until its request was served; it
\* has no final status before it has a job.
Asks(k)    == {requests[k][i] : i \in DOMAIN requests[k]}
Begins(g)  == \E s \in {"goal", "accepted", "execute", "submit"} : serving = <<s, g>>
Cancels(g) == \E s \in {"cancel", "canceling", "replyCancel"} : serving = <<s, g>>

OnceInv ==
    /\ \A i, j \in DOMAIN requests["goal"] : requests["goal"][i] = requests["goal"][j] => i = j
    /\ \A g \in Goals :
        /\ rpc["goal"][g] # "done" => g \notin Asks("goal") /\ ~Begins(g) /\ xpc[g] = "none"
        /\ g \in Asks("goal") => ~Begins(g)
        /\ g \in Asks("goal") \/ Begins(g) => xpc[g] = "none"
        /\ status[g] = "done" => xpc[g] \notin {"none", "handed"}
        /\ g \in Asks("cancel") \/ Cancels(g) => rpc["cancel"][g] # "new"

\* Requests that wait without a reply lost to blame for it: a lost reply leaves
\* one future of its kind behind, and the result of a goal that the client took
\* for accepted by another's reply never comes.
Blamed(k) == IF k = "result" THEN {"goal", "result"} ELSE {k}
Waits(k) == {g \in Goals : fut[k][g] = "pending"}
Starving ==
    \E k \in Kinds : Cardinality(Waits(k)) > Cardinality({p \in lost : p[1] \in Blamed(k)})

\* Every request ends: the futures are resolved with a reply or an error or
\* cancelled in the end, but for as many as replies could not be published,
\* unless the server is destroyed or pruned something.
EveryRequestEnds == Starving ~> ~Starving \/ down \/ expired # {}

\* A result that was asked for comes, however long the goal takes (send_goal
\* and get_result wait for it without a limit).
ResultComes ==
    \A g \in Goals : fut["result"][g] = "pending" ~> fut["result"][g] # "pending"
=============================================================================
