-------------------------------- MODULE Names --------------------------------
(* The names of a node's entities: how a name of the program becomes those of   *)
(* DDS topics (resolve_name, Node._resolve_topic_name, service_topics, the      *)
(* constructors of actions), and what the graph queries of the node make of     *)
(* them again.  A name is a sequence of parts between slashes, a part is a      *)
(* sequence of words: <<"a", "b">> is a_b.                                      *)
EXTENDS Naturals, Sequences, FiniteSets

CONSTANTS
  Paths,       \* the parts of names that the program uses
  Namespaces,  \* those a node may have
  NodePart,    \* the node's own name
  MaxEntities  \* a bound: how many live at a time

ASSUME NamesAssumption ==
  /\ Paths \subseteq Seq(Seq(STRING)) \ {<<>>}
  /\ Namespaces \subseteq Seq(Seq(STRING)) /\ NodePart \in Seq(STRING)

VARIABLES
  namespace,  \* the node's
  named       \* its live entities: [id, kind, type, asked, raw, topics]

nameVars == <<namespace, named>>

Forms == {"absolute", "relative", "private"}
Askable == [form : Forms, path : Paths]
EntityKinds == {"publisher", "subscription", "client", "service", "action server", "action client"}
OnTopic == {"publisher", "subscription"}
EntityTypes == {"T", "U"}

Rt == <<"rt">>
Rq == <<"rq">>
Rr == <<"rr">>
Ra == <<"ra">>

------------------------------------------------------------------------------
(* From the program to DDS.                                                    *)

\* resolve_name, without the slash it puts in front.
ResolveName(n) ==
  CASE n.form = "absolute" -> n.path
    [] n.form = "relative" -> namespace \o n.path
    [] n.form = "private" -> namespace \o <<NodePart>> \o n.path

\* A name that has the prefix, and something behind it, is taken to be a DDS name.
StartsWith(prefix, path) == Len(path) > 1 /\ path[1] = prefix
Prefixed(prefix, path) == IF StartsWith(prefix, path) THEN path ELSE <<prefix>> \o path

\* (faulty: a name given with its slash is not resolved)
ResolveUnlessAbsolute(n, raw) ==
  IF raw \/ n.form = "absolute" THEN ResolveName(n) ELSE Prefixed(Rt, ResolveName(n))

\* Node._resolve_topic_name; raw is avoid_ros_namespace_conventions of the profile.
ResolveTopicName(n, raw) ==
  IF raw THEN ResolveName(n) ELSE Prefixed(Rt, ResolveName(n))

\* The last part gets a suffix.
Suffixed(path, suffix) == [path EXCEPT ![Len(path)] = Append(@, suffix)]
RequestAndReply(req, res) == {Suffixed(req, "Request"), Suffixed(res, "Reply")}

\* service_topics
ServiceTopics(path) == RequestAndReply(<<Rq>> \o path, <<Rr>> \o path)

\* The nine topics of an action, by the constructors of its server and client.
ActionTopics(path) ==
  LET of(what) == Append(Append(Prefixed(Ra, path), <<"_action">>), what)
  IN {of(<<"feedback">>), of(<<"status">>)}
       \cup UNION {RequestAndReply(of(s), of(s)) :
                     s \in {<<"send", "goal">>, <<"get", "result">>, <<"cancel", "goal">>}}

TopicsOf(kind, n, raw) ==
  IF kind \in OnTopic THEN {ResolveTopicName(n, raw)}
  ELSE IF kind \in {"client", "service"} THEN ServiceTopics(ResolveName(n))
  ELSE ActionTopics(ResolveName(n))

------------------------------------------------------------------------------

NamesInit == namespace \in Namespaces /\ named = {}

\* The create_* calls of the node: the queries know the topic of an entity, or
\* its resolved service name.
Create(id, kind, type, n, raw) ==
  /\ (\A e \in named : e.id # id) /\ (raw => kind \in OnTopic)
  /\ named' = named \cup
       {[id |-> id, kind |-> kind, type |-> type, asked |-> n, raw |-> raw,
         topics |-> TopicsOf(kind, n, raw)]}
  /\ UNCHANGED namespace

\* destroy_publisher and its like: what is destroyed leaves its list.
Destroy(e) == e \in named /\ named' = named \ {e} /\ UNCHANGED namespace

NamesNext ==
  \/ \E id \in 1..MaxEntities, kind \in EntityKinds, type \in EntityTypes,
          n \in Askable, raw \in BOOLEAN : Create(id, kind, type, n, raw)
  \/ \E e \in named : Destroy(e)

NamesSpec == NamesInit /\ [][NamesNext]_nameVars

------------------------------------------------------------------------------
(* The queries.                                                                *)

Of(kind) == {e \in named : e.kind = kind}
TopicOf(e) == CHOOSE t \in e.topics : TRUE

\* _ros_topic_name_from_dds
RosTopicName(path) == IF StartsWith(Rt, path) THEN Tail(path) ELSE path

\* _matching_entities_for_topic: the name of a query is resolved as that of a
\* publisher would be, or is that of the DDS topic (which has no slash in front).
Matching(kind, n, noMangle) ==
  {e \in Of(kind) :
    IF noMangle THEN n.form = "relative" /\ TopicOf(e) = n.path
    ELSE TopicOf(e) = ResolveTopicName(n, FALSE)}

\* count_publishers, count_subscribers, get_publishers_info_by_topic and so on.
Count(kind, n) == Cardinality(Matching(kind, n, FALSE))

\* get_topic_names_and_types, get_publisher_names_and_types_by_node and so on.
NamesAndTypes(kinds, noDemangle) ==
  {<<IF noDemangle THEN TopicOf(e) ELSE RosTopicName(TopicOf(e)), e.type>> :
     e \in UNION {Of(k) : k \in kinds}}

\* _service_names_and_types
ServiceNamesAndTypes(kind) == {<<ResolveName(e.asked), e.type>> : e \in Of(kind)}

\* _node_matches: with or without slashes around the namespace.
NodeMatches(part, path) == part = NodePart /\ path = namespace

------------------------------------------------------------------------------

\* Names that look like DDS names, and profiles without the conventions, have
\* rules of their own (README, known limits).
Regular(e) == ~e.raw /\ ResolveName(e.asked)[1] \notin {Rt, Ra}
PlainEntities == {e \in named : Regular(e)}

Family(kind) ==
  CASE kind \in OnTopic -> "topic"
    [] kind \in {"client", "service"} -> "service"
    [] OTHER -> "action"

\* Two entities share a DDS topic exactly when both are of one family and their
\* names mean the same, whichever way each was written; and what the queries say
\* of an entity agrees: it is found under the name it was made with and under the
\* one it is listed as, mangled or not (the Graph introspection of Node).
NamesAgree ==
  /\ \A e, f \in PlainEntities :
       (e.topics \cap f.topics # {})
         <=> (Family(e.kind) = Family(f.kind) /\ ResolveName(e.asked) = ResolveName(f.asked))
  /\ \A kind \in OnTopic : \A e \in Of(kind) \cap PlainEntities :
       LET ros == [form |-> "absolute", path |-> RosTopicName(TopicOf(e))]
           dds == [form |-> "relative", path |-> TopicOf(e)]
       IN /\ e \in Matching(kind, e.asked, FALSE) /\ e \in Matching(kind, dds, TRUE)
          /\ Matching(kind, ros, FALSE) = Matching(kind, dds, TRUE)
          /\ <<ros.path, e.type>> \in NamesAndTypes(OnTopic, FALSE)
          /\ <<dds.path, e.type>> \in NamesAndTypes({kind}, TRUE)
          /\ Count(kind, e.asked) = Count(kind, ros)
=============================================================================
