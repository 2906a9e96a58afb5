-------------------------------- MODULE Types --------------------------------
(* From the type that the program passes to a create call to the classes of a   *)
(* generated module and a type registered with DDS (resolve_generated_type and  *)
(* its like in lwrclpy/utils.py, RegisteredType, the service aliases): over     *)
(* shutdown and init, with nodes that outlive their participant and remember    *)
(* the types they have registered.                                              *)
EXTENDS Naturals, Sequences, FiniteSets, SequencesExt

CONSTANTS
  Dir,              \* module -> its classes in the order of dir(): records
                    \* [base, half, under, pubsub]: <base>[_][Request]PubSubType
  Actions,          \* what may be passed for an action: [module, base, flat, nested], the
                    \* module itself (flat), or a wrapper class that has the parts nested
  CancelGoal,       \* the module of action_msgs' CancelGoal
  Nodes,            \* nodes, created once each
  MaxParticipants,  \* bounds: calls of init,
  MaxOpened         \* endpoints asked for before one more entity is made

VARIABLES
  aliases,          \* pairs <<module, base>> that _patch_module has made a wrapper for
  patched,          \* _PATCHED_MODULES
  cache,            \* _resolve_service_type_cache: pairs <<what was passed, answer>>
  participant,      \* the number of the participant there is, 0 if there is none
  inits,
  registeredTypes,  \* pairs <<participant, type name>> that DDS knows, which are those
                    \* of _registered_type_supports: a retired participant keeps them
  home,             \* node -> its _participant, 0 before it is made
  known,            \* node -> its _type_cache: pairs <<class, the participant that was
                    \* told>>; the cache itself has the class only
  opened            \* every endpoint that DDS has been asked for: [class, the participant
                    \* asked (on), the one that was told of the type for it (by)]

resolutionVars == <<aliases, patched, cache>>
registry == <<participant, inits, registeredTypes>>
typeVars == <<resolutionVars, registry, home, known, opened>>

Modules == DOMAIN Dir

ASSUME TypesAssumption == \A m \in Modules : Dir[m] \in Seq(ToSet(Dir[m]))

Class(m, name) == [module |-> m, name |-> name]
NoClass == <<>>
Message(base) == [base |-> base, half |-> "", under |-> FALSE, pubsub |-> FALSE]

TypesInit ==
  /\ aliases = {} /\ patched = {} /\ cache = {}
  /\ participant = 0 /\ inits = 0 /\ registeredTypes = {}
  /\ home = [n \in Nodes |-> 0] /\ known = [n \in Nodes |-> {}] /\ opened = {}

------------------------------------------------------------------------------
(* Messages.                                                                   *)

Has(m, name) == Contains(Dir[m], name)
PubSub(name) == [name EXCEPT !.pubsub = TRUE]

\* The first of dir() that is a PubSubType, or is none, and ends in half.
First(m, half, pubsub) ==
  LET found == {i \in DOMAIN Dir[m] :
                 Dir[m][i].pubsub = pubsub /\ half \in {"", Dir[m][i].half}}
  IN IF found = {} THEN NoClass ELSE Class(m, Dir[m][Min(found)])

\* _find_first_pubsub
FindFirstPubSub(m, prefer) ==
  IF Has(m, PubSub(prefer)) THEN Class(m, PubSub(prefer)) ELSE First(m, "", TRUE)

\* resolve_generated_type, given a class: the PubSubType of its module that goes
\* with it.
ResolveGeneratedType(class) == FindFirstPubSub(class.module, class.name)

\* The same given a module, which has one message as a rule: the class that goes
\* with the first PubSubType (_pair_from_module).
PairFromModule(m) ==
  LET found == First(m, "", TRUE)
      own == [found.name EXCEPT !.pubsub = FALSE]
  IN IF found = NoClass THEN NoClass
     ELSE IF Has(m, own) THEN Class(m, own)
     ELSE First(m, "", FALSE)

\* What the program may pass for a message: a class, or a module, but for the
\* classes that services and actions are made of.
PlainModules == {m \in Modules : m # CancelGoal /\ \A a \in Actions : a.module # m}
Messages ==
  UNION {{Class(m, name) : name \in {x \in ToSet(Dir[m]) : ~x.pubsub}} : m \in PlainModules}
    \cup {PairFromModule(m) : m \in {x \in PlainModules : PairFromModule(x) # NoClass}}

------------------------------------------------------------------------------
(* Services.                                                                   *)

\* What the program may pass: a wrapper with Request and Response, or a class of
\* that name without.
Services ==
  aliases \cup
    UNION {{<<m, n.base>> : n \in {x \in ToSet(Dir[m]) : x = Message(x.base)}} : m \in Modules}

\* _patch_module, once for each module: every pair of _Request and _Response that
\* has no class of its own name gets a wrapper.
PatchModule(m) ==
  /\ m \notin patched /\ patched' = patched \cup {m}
  /\ aliases' = aliases \cup
       {<<m, name.base>> : name \in
          {n \in ToSet(Dir[m]) : /\ n.half = "Request" /\ n.under /\ ~n.pubsub
                                 /\ Has(m, [n EXCEPT !.half = "Response"])
                                 /\ ~Has(m, Message(n.base))}}
  /\ UNCHANGED <<cache, registry, home, known, opened>>

\* A half of the service: nested, or a class of the module that has its name (the
\* name without the underscore), or the first that ends in it.
Half(service, half) ==
  LET m == service[1]
      flat == [Message(service[2]) EXCEPT !.half = half]
  IN IF service \in aliases THEN Class(m, [flat EXCEPT !.under = TRUE])
     ELSE IF Has(m, flat) THEN Class(m, flat)
     ELSE First(m, half, FALSE)

\* resolve_service_type, from the cache if it is there.
ResolveServiceType(service) ==
  IF \E c \in cache : c[1] = service THEN (CHOOSE c \in cache : c[1] = service)[2]
  ELSE <<Half(service, "Request"), Half(service, "Response")>>
Resolves(service) == \A i \in 1..2 : ResolveServiceType(service)[i] # NoClass

------------------------------------------------------------------------------
(* Actions.                                                                    *)

Sent == {"SendGoalRequest", "SendGoalResponse", "GetResultRequest", "GetResultResponse",
         "FeedbackMessage"}
ActionParts == Sent \cup {"Goal", "Result", "Feedback"}
Part(base, part) == [Message(base) EXCEPT !.half = part, !.under = TRUE]

\* _get_cancel_goal_types: a wrapper's halves and the flat classes are the same.
CancelGoalTypes == {Class(CancelGoal, Part("CancelGoal", half)) : half \in {"Request", "Response"}}

\* resolve_action_type: all parts of a wrapper, or all classes of the module that
\* have its name, and the classes that cancel a goal; the classes that go over
\* topics.
ResolvesAction(a) ==
  /\ IF a.flat THEN \A part \in ActionParts : Has(a.module, Part(a.base, part))
     ELSE a.nested = ActionParts
  /\ CancelGoal \in Modules /\ \A class \in CancelGoalTypes : Has(CancelGoal, class.name)
ResolveActionType(a) == {Class(a.module, Part(a.base, part)) : part \in Sent} \cup CancelGoalTypes

------------------------------------------------------------------------------
(* Participants, nodes and registered types.                                   *)

InitParticipant ==
  /\ participant = 0 /\ inits < MaxParticipants
  /\ inits' = inits + 1 /\ participant' = inits + 1
  /\ UNCHANGED <<resolutionVars, registeredTypes, home, known, opened>>

\* The participant is retired, not deleted, and no node goes with it.
Shutdown ==
  /\ participant # 0 /\ participant' = 0
  /\ UNCHANGED <<resolutionVars, inits, registeredTypes, home, known, opened>>

CreateNode(n) ==
  /\ participant # 0 /\ home[n] = 0 /\ home' = [home EXCEPT ![n] = participant]
  /\ UNCHANGED <<resolutionVars, registry, known, opened>>

\* (faulty: a type that has been registered once counts as registered)
RegisterOnce(types) ==
  registeredTypes' = registeredTypes \cup
    ({participant} \X {t \in types : ~ \E r \in registeredTypes : r[2] = t})

\* RegisteredType.register, under its lock: with the participant there is now.
Register(types) ==
  /\ participant # 0
  /\ registeredTypes' = registeredTypes \cup ({participant} \X types)

OpenedFor(classes, on, by) == {[class |-> class, on |-> on, by |-> by] : class \in classes}

\* create_publisher, create_subscription: on the node's own participant, and what
\* the node has in its _type_cache is not registered again.
CreateTopicEntity(n, class) ==
  /\ home[n] # 0 /\ Cardinality(opened) < MaxOpened
  /\ ResolveGeneratedType(class) # NoClass
  /\ \/ \E entry \in known[n] :
          /\ entry[1] = class /\ opened' = opened \cup OpenedFor({class}, home[n], entry[2])
          /\ UNCHANGED <<registeredTypes, known>>
     \/ /\ \A entry \in known[n] : entry[1] # class
        /\ Register({ResolveGeneratedType(class)})
        /\ known' = [known EXCEPT ![n] = @ \cup {<<class, participant>>}]
        /\ opened' = opened \cup OpenedFor({class}, home[n], participant)
  /\ UNCHANGED <<resolutionVars, participant, inits, home>>

\* create_client, create_service: on the participant there is, with both halves
\* registered every time.
CreateServiceEntity(n, service) ==
  /\ home[n] # 0 /\ Cardinality(opened) < MaxOpened
  /\ Resolves(service)
  /\ LET pair == ResolveServiceType(service)
     IN /\ Register({ResolveGeneratedType(pair[1]), ResolveGeneratedType(pair[2])})
        /\ cache' = cache \cup {<<service, pair>>}
        /\ opened' = opened \cup OpenedFor({pair[1], pair[2]}, participant, participant)
  /\ UNCHANGED <<aliases, patched, participant, inits, home, known>>

\* ActionClient, ActionServer: likewise.
CreateActionEntity(n, action) ==
  /\ home[n] # 0 /\ Cardinality(opened) < MaxOpened
  /\ ResolvesAction(action)
  /\ LET classes == ResolveActionType(action)
     IN /\ Register({ResolveGeneratedType(class) : class \in classes})
        /\ opened' = opened \cup OpenedFor(classes, participant, participant)
  /\ UNCHANGED <<resolutionVars, participant, inits, home, known>>

TypesNext ==
  \/ \E m \in Modules : PatchModule(m)
  \/ InitParticipant \/ Shutdown
  \/ \E n \in Nodes :
       \/ CreateNode(n)
       \/ \E class \in Messages : CreateTopicEntity(n, class)
       \/ \E service \in Services : CreateServiceEntity(n, service)
       \/ \E action \in Actions : CreateActionEntity(n, action)

TypesSpec == TypesInit /\ [][TypesNext]_typeVars

------------------------------------------------------------------------------

\* The services that a module has the halves of.
BasesOf(m) == {n.base : n \in {x \in ToSet(Dir[m]) : x.half # ""}}

\* The participant that is asked to open an endpoint knows its type, whatever the
\* caches remember, unless the endpoint is on the participant of a node that was
\* older than an init when it first used the class: that type has gone to the newer
\* participant, and by the _type_cache the node never repairs it.  Both halves of a
\* service are its own, if it has a wrapper or is the only one of its module
\* (RegisteredType.register, Node.create_publisher, resolve_service_type).
TypesKnown ==
  /\ \A e \in opened : <<e.on, ResolveGeneratedType(e.class)>> \in registeredTypes \/ e.on < e.by
  /\ \A c \in cache :
       c[1] \in aliases \/ BasesOf(c[1][1]) = {c[1][2]} =>
         \A i \in 1..2 : c[2][i].module = c[1][1] /\ c[2][i].name.base = c[1][2]
=============================================================================
