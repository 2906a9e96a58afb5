------------------------------ MODULE NodeLogger ------------------------------
(* The *_throttle, *_once and *_skipfirst methods of a node's logger            *)
(* (_NodeLogger of lwrclpy/node.py).  What they remember belongs to the class:  *)
(* all the loggers of a program share it, without a lock, and each of the three *)
(* memories holds _LOGGER_STATE_MAX keys (logger, level and text) at most.      *)
EXTENDS Naturals, SequencesExt

CONSTANTS
  Threads,
  Keys,
  Period,                \* what every throttled call asks for
  StateMax,              \* _LOGGER_STATE_MAX
  MaxTime, MaxLogCalls,  \* bounds: the system's clock; calls in a behaviour
  Nobody                 \* no key, no time

ASSUME LoggerAssumption == {Period, StateMax, MaxTime, MaxLogCalls} \subseteq Nat

VARIABLES
  time,        \* time.time(), which is not set back here
  calls,
  throttled,   \* keys of _throttle_last, in the order of their insertion
  last,        \* key -> its time there
  once, done,  \* _once_logged, _skipfirst_done
  pc,          \* thread -> "idle", or the memory it has looked its key up in
  key, seen,   \* thread -> that key; the time it read
  logged,      \* key -> when a throttled call last logged it (history)
  uttered,     \* keys that a call of *_once has logged (history)
  forgot,      \* pairs <<memory, key>> that had to make room (history)
  raced,       \* pairs <<memory, key>> that two threads looked up at a time
  again        \* pairs <<memory, key>> logged though it should not have been

loggerVars == <<time, calls, throttled, last, once, done, pc, key, seen, logged, uttered,
          forgot, raced, again>>
shared == <<throttled, last, once, done>>

Memories == {"throttle", "once", "skipfirst"}

LoggerTypeOK ==
  /\ time \in 0..MaxTime /\ calls \in 0..MaxLogCalls
  /\ throttled \in Seq(Keys) /\ once \subseteq Keys /\ done \subseteq Keys
  /\ last \in [Keys -> 0..MaxTime \cup {Nobody}]
  /\ pc \in [Threads -> Memories \cup {"idle"}]
  /\ key \in [Threads -> Keys \cup {Nobody}] /\ seen \in [Threads -> 0..MaxTime]
  /\ forgot \cup raced \cup again \subseteq Memories \X Keys

LoggerInit ==
  /\ time = 0 /\ calls = 0 /\ throttled = <<>> /\ last = [k \in Keys |-> Nobody]
  /\ once = {} /\ done = {}
  /\ pc = [t \in Threads |-> "idle"] /\ key = [t \in Threads |-> Nobody]
  /\ seen = [t \in Threads |-> 0]
  /\ logged = [k \in Keys |-> Nobody] /\ uttered = {}
  /\ forgot = {} /\ raced = {} /\ again = {}

------------------------------------------------------------------------------

\* A throttled key that has been logged for less than the period.
Fresh(k, from, now) == from[k] # Nobody /\ now < from[k] + Period

\* The key is one that the call lets pass.
Passes(memory, k) ==
  CASE memory = "throttle" -> ~Fresh(k, last, time)
    [] memory = "once" -> k \notin once
    [] memory = "skipfirst" -> k \notin done

\* The first half of a call: the look.  A skipfirst call that knows its key logs
\* and is over, and so are the others when the key does not pass.
Look(t, memory, k) ==
  /\ pc[t] = "idle" /\ calls < MaxLogCalls /\ calls' = calls + 1
  /\ IF Passes(memory, k)
       THEN /\ pc' = [pc EXCEPT ![t] = memory] /\ key' = [key EXCEPT ![t] = k]
            /\ seen' = [seen EXCEPT ![t] = time]
            /\ raced' = IF \E u \in Threads : pc[u] = memory /\ key[u] = k
                          THEN raced \cup {<<memory, k>>} ELSE raced
       ELSE UNCHANGED <<pc, key, seen, raced>>
  /\ UNCHANGED <<time, shared, logged, uttered, forgot, again>>

\* The second half: the key is remembered, others may have to go, and the text is
\* logged (not by skipfirst).
Ends(t, memory) ==
  /\ pc[t] = memory /\ pc' = [pc EXCEPT ![t] = "idle"]
  /\ key' = [key EXCEPT ![t] = Nobody] /\ seen' = [seen EXCEPT ![t] = 0]
  /\ UNCHANGED <<time, calls, raced>>

\* (faulty: the period starts with the first call, not with the last one logged)
RememberFirst(t) ==
  LET k == key[t]
      keys == IF Contains(throttled, k) THEN throttled ELSE Append(throttled, k)
  IN /\ Ends(t, "throttle")
     /\ throttled' = keys
     /\ last' = [last EXCEPT ![k] = IF @ = Nobody THEN seen[t] ELSE @]
     /\ logged' = [logged EXCEPT ![k] = seen[t]]
     /\ again' = IF Fresh(k, logged, seen[t]) THEN again \cup {<<"throttle", k>>} ELSE again
     /\ UNCHANGED <<once, done, uttered, forgot>>

\* _should_log_throttle, _prune_mapping: a dict keeps the place of a key that is
\* set again, so that the one that goes is the one that came first.
RememberTime(t) ==
  LET k == key[t]
      keys == IF Contains(throttled, k) THEN throttled ELSE Append(throttled, k)
      goes == IF Len(keys) > StateMax THEN {Head(keys)} ELSE {}
  IN /\ Ends(t, "throttle")
     /\ throttled' = IF goes = {} THEN keys ELSE Tail(keys)
     /\ last' = [x \in Keys |-> IF x \in goes THEN Nobody ELSE IF x = k THEN seen[t] ELSE last[x]]
     /\ forgot' = forgot \cup ({"throttle"} \X goes)
     /\ logged' = [logged EXCEPT ![k] = seen[t]]
     /\ again' = IF Fresh(k, logged, seen[t]) THEN again \cup {<<"throttle", k>>} ELSE again
     /\ UNCHANGED <<once, done, uttered>>

\* _add_bounded: pop() takes any key, the new one included.
AddBounded(state, k) ==
  LET full == state \cup {k}
  IN IF Cardinality(full) > StateMax THEN {full \ {x} : x \in full} ELSE {full}

RememberOnce(t) ==
  LET k == key[t]
  IN /\ Ends(t, "once")
     /\ once' \in AddBounded(once, k)
     /\ forgot' = forgot \cup ({"once"} \X ((once \cup {k}) \ once'))
     /\ uttered' = uttered \cup {k}
     /\ again' = IF k \in uttered THEN again \cup {<<"once", k>>} ELSE again
     /\ UNCHANGED <<throttled, last, done, logged>>

\* The call that remembers a key logs nothing.
RememberSkipped(t) ==
  /\ Ends(t, "skipfirst")
  /\ done' \in AddBounded(done, key[t])
  /\ UNCHANGED <<throttled, last, once, forgot, logged, uttered, again>>

Tick ==
  /\ time < MaxTime
  /\ time' = time + 1
  /\ UNCHANGED <<calls, shared, pc, key, seen, logged, uttered, forgot, raced, again>>

LoggerNext ==
  \/ \E t \in Threads :
       \/ \E m \in Memories : \E k \in Keys : Look(t, m, k)
       \/ RememberTime(t) \/ RememberOnce(t) \/ RememberSkipped(t)
  \/ Tick

LoggerSpec == LoggerInit /\ [][LoggerNext]_loggerVars

------------------------------------------------------------------------------

\* A throttled text is logged once a period, and one for *_once once: unless two
\* threads looked at a time, or too many texts came and its key had to go.
RepeatsExplained == again \subseteq forgot \cup raced
=============================================================================
