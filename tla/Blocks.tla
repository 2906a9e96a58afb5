-------------------------------- MODULE Blocks --------------------------------
(* The blocks of shared memory behind the side channel: made, announced, kept   *)
(* and closed by a publisher (publish_shared_memory, Publisher.destroy), opened *)
(* by readers in its process, in a child or in another process, and removed by  *)
(* Python's resource trackers when processes end.  What goes over the topics is *)
(* in SideChannel; multiprocessing.shared_memory is external.                   *)
EXTENDS Naturals, Sequences, SequencesExt

CONSTANTS
  Exporting,  \* threads that publish with the one publisher
  Readers,
  Limit,      \* LWRCLPY_SHM_KEEPALIVE
  MaxBlocks,  \* a bound
  Nothing

Blocks == 1..MaxBlocks
Pub == "publisher"
ASSUME BlocksAssumption == MaxBlocks \in Nat /\ Nothing \notin Blocks /\ Pub \notin Readers

VARIABLES
  where,      \* reader -> its process: "same", "child" (one resource tracker), "other"
  untracked,  \* SharedMemory has a parameter track (Python 3.13)
  made,       \* how many blocks have been made
  names,      \* blocks whose name is there
  tracked,    \* resource tracker -> blocks it knows of
  owned,      \* _owned_shm_names in the publisher's process
  alive,      \* processes
  kept,       \* _shm_keepalive, oldest first
  ppc, mine,  \* thread -> where it is, its block
  announced,  \* blocks that readers may hear of
  gone,       \* the publisher: "live", "destroying", "destroyed", "collected"
  mapping,    \* reader -> its SharedMemoryBuffer: [block, pc, view]
  overdue,    \* blocks kept after destroy had emptied the table (history)
  taken,      \* blocks that a tracker removed for a reader (history)
  forgotten   \* blocks that a reader took from the tracker it shares (history)

blockVars ==
  <<where, untracked, made, names, tracked, owned, alive, kept, ppc, mine, announced, gone,
    mapping, overdue, taken, forgotten>>
publisher == <<made, kept, ppc, mine, announced, gone, overdue>>

Process(r) == IF where[r] = "same" THEN Pub ELSE r
Tracker(r) == IF where[r] = "other" THEN r ELSE Pub
Programs == {Pub} \cup {Process(r) : r \in Readers}
Users(t) == {Process(r) : r \in {x \in Readers : Tracker(x) = t}} \cup ({t} \cap {Pub})
NoBuffer == [block |-> Nothing, pc |-> "none", view |-> FALSE]

BlocksTypeOK ==
  /\ where \in [Readers -> {"same", "child", "other"}]
  /\ untracked \in BOOLEAN /\ made \in 0..MaxBlocks /\ alive \subseteq Programs
  /\ names \cup owned \cup announced \cup overdue \cup taken \cup forgotten \subseteq Blocks
  /\ tracked \in [{Pub} \cup Readers -> SUBSET Blocks] /\ kept \in Seq(Blocks)
  /\ ppc \in [Exporting -> {"idle", "announce", "keep", "send"}]
  /\ mine \in [Exporting -> Blocks \cup {Nothing}]
  /\ gone \in {"live", "destroying", "destroyed", "collected"}
  /\ mapping \in [Readers -> [block : Blocks \cup {Nothing}, view : BOOLEAN,
                             pc : {"none", "described", "opened", "mapped", "broken"}]]

BlocksInit ==
  /\ where \in [Readers -> {"same", "child", "other"}]
  /\ untracked \in BOOLEAN /\ made = 0 /\ names = {} /\ owned = {}
  /\ tracked = [t \in {Pub} \cup Readers |-> {}] /\ alive = Programs
  /\ kept = <<>> /\ announced = {} /\ gone = "live"
  /\ ppc = [t \in Exporting |-> "idle"] /\ mine = [t \in Exporting |-> Nothing]
  /\ mapping = [r \in Readers |-> NoBuffer]
  /\ overdue = {} /\ taken = {} /\ forgotten = {}

------------------------------------------------------------------------------
(* Publishing.                                                                 *)

ThreadGoto(t, from, to, block) ==
  /\ Pub \in alive /\ ppc[t] = from
  /\ ppc' = [ppc EXCEPT ![t] = to] /\ mine' = [mine EXCEPT ![t] = block]

\* SharedMemoryAllocation.close: the name goes, the tracker and the process that
\* owned it forget it.
Close(blocks) ==
  /\ names' = names \ blocks /\ owned' = owned \ blocks
  /\ tracked' = [tracked EXCEPT ![Pub] = @ \ blocks]

\* export_shared_memory_metadata makes a block, or there is none.
ExportBlock(t) ==
  /\ gone # "collected"
  /\ \/ /\ made < MaxBlocks /\ made' = made + 1 /\ ThreadGoto(t, "idle", "announce", made')
        /\ names' = names \cup {made'} /\ owned' = owned \cup {made'}
        /\ tracked' = [tracked EXCEPT ![Pub] = @ \cup {made'}]
     \/ ThreadGoto(t, "idle", "send", Nothing) /\ UNCHANGED <<made, names, owned, tracked>>
  /\ UNCHANGED <<where, untracked, alive, kept, announced, gone, mapping, overdue, taken, forgotten>>

\* The metadata goes into a file and is published; when that fails the block is
\* closed again.
AnnounceBlock(t) ==
  /\ announced' = announced \cup {mine[t]}
  /\ \/ ThreadGoto(t, "announce", "keep", mine[t]) /\ UNCHANGED <<names, owned, tracked>>
     \/ ThreadGoto(t, "announce", "send", Nothing) /\ Close({mine[t]})
  /\ UNCHANGED <<where, untracked, made, alive, kept, gone, mapping, overdue, taken, forgotten>>

\* In _shm_lock: the oldest make room.
Keep(t) ==
  LET grown == Append(kept, mine[t])
      over == IF Len(grown) > Limit THEN {Head(grown)} ELSE {}
  IN /\ ThreadGoto(t, "keep", "send", mine[t]) /\ Close(over)
     /\ kept' = IF over = {} THEN grown ELSE Tail(grown)
     /\ overdue' = IF gone = "destroyed" THEN overdue \cup {mine[t]} ELSE overdue
     /\ UNCHANGED <<where, untracked, made, alive, announced, gone, mapping, taken, forgotten>>

\* The message itself; a destroyed publisher raises.
Send(t) ==
  /\ ThreadGoto(t, "send", "idle", Nothing)
  /\ UNCHANGED <<where, untracked, made, names, tracked, owned, alive, kept, announced, gone, mapping,
                 overdue, taken, forgotten>>

\* Publisher.destroy: its wait for writers and loans may time out, and the block of
\* a publish_shared_memory under way is not waited for.
\* After a time-out it may be called again.
BeginDestroy ==
  /\ Pub \in alive /\ gone \in {"live", "destroyed"} /\ gone' = "destroying"
  /\ UNCHANGED <<where, untracked, made, names, tracked, owned, alive, kept, ppc, mine, announced,
                 mapping, overdue, taken, forgotten>>

ClearKept(to) ==
  /\ Close(ToSet(kept)) /\ kept' = <<>> /\ gone' = to
  /\ UNCHANGED <<where, untracked, made, alive, ppc, mine, announced, mapping, overdue, taken,
                 forgotten>>

EndDestroy == Pub \in alive /\ gone = "destroying" /\ ClearKept("destroyed")

\* Nobody has the publisher any more: the allocations close themselves (__del__).
Collect ==
  /\ Pub \in alive /\ gone = "destroyed" /\ \A t \in Exporting : ppc[t] = "idle"
  /\ ClearKept("collected")

------------------------------------------------------------------------------
(* Reading.                                                                    *)

Becomes(r, pc, view) == mapping' = [mapping EXCEPT ![r].pc = pc, ![r].view = view]

\* attach_shared_memory_buffer: a new SharedMemoryBuffer for the message; that of
\* the message before may live on with its view, which is not followed.
Attach(r, b) ==
  /\ Process(r) \in alive /\ mapping[r].pc \in {"none", "described", "mapped", "broken"}
  /\ ~mapping[r].view
  /\ b \in announced /\ mapping[r].block # b
  /\ mapping' = [mapping EXCEPT ![r] = [block |-> b, pc |-> "described", view |-> FALSE]]
  /\ UNCHANGED <<where, untracked, names, tracked, owned, alive, publisher, taken, forgotten>>

\* open_memoryview: a name that is gone cannot be opened.  Without the parameter
\* track the tracker of the process is told (a set: twice is once).
Open(r) ==
  /\ Process(r) \in alive /\ mapping[r].pc = "described" /\ mapping[r].block \in names
  /\ IF untracked THEN Becomes(r, "mapped", TRUE) /\ UNCHANGED tracked
     ELSE /\ Becomes(r, "opened", FALSE)
          /\ tracked' = [tracked EXCEPT ![Tracker(r)] = @ \cup {mapping[r].block}]
  /\ UNCHANGED <<where, untracked, names, owned, alive, publisher, taken, forgotten>>

\* (faulty: also in the process that owns the block)
UnregisterAlways(r) ==
  /\ Process(r) \in alive /\ mapping[r].pc = "opened" /\ Becomes(r, "mapped", TRUE)
  /\ tracked' = [tracked EXCEPT ![Tracker(r)] = @ \ {mapping[r].block}]
  /\ UNCHANGED <<where, untracked, names, owned, alive, publisher, taken, forgotten>>

\* _shared_memory_open: an open that does not own the block is taken from the
\* tracker again, except where the same process owns it.
UnregisterBlock(r) ==
  LET b == mapping[r].block
      skip == where[r] = "same" /\ b \in owned
  IN /\ Process(r) \in alive /\ mapping[r].pc = "opened" /\ Becomes(r, "mapped", TRUE)
     /\ tracked' = [tracked EXCEPT ![Tracker(r)] = IF skip THEN @ ELSE @ \ {b}]
     /\ forgotten' = IF where[r] = "child" THEN forgotten \cup {b} ELSE forgotten
     /\ UNCHANGED <<where, untracked, names, owned, alive, publisher, taken>>

\* A view is let go of, and taken again.
DropView(r) ==
  /\ Process(r) \in alive /\ mapping[r].view /\ Becomes(r, mapping[r].pc, FALSE)
  /\ UNCHANGED <<where, untracked, names, tracked, owned, alive, publisher, taken, forgotten>>
TakeView(r) ==
  /\ Process(r) \in alive /\ mapping[r].pc = "mapped" /\ Becomes(r, "mapped", TRUE)
  /\ UNCHANGED <<where, untracked, names, tracked, owned, alive, publisher, taken, forgotten>>

\* SharedMemoryBuffer.close (release): with a view about SharedMemory.close raises,
\* but has let go of its own by then, and the buffer opens no more.
ReleaseBuffer(r) ==
  /\ Process(r) \in alive /\ mapping[r].pc = "mapped"
  /\ Becomes(r, IF mapping[r].view THEN "broken" ELSE "described", mapping[r].view)
  /\ UNCHANGED <<where, untracked, names, tracked, owned, alive, publisher, taken, forgotten>>

------------------------------------------------------------------------------
(* Processes end, with or without notice: what they have open is closed, and    *)
(* a resource tracker that has lost the last of its processes removes what it   *)
(* knows of.                                                                    *)

EndProcess(p) ==
  LET left == alive \ {p}
      ended == {t \in {Pub} \cup Readers : Users(t) # {} /\ Users(t) \cap left = {}}
      removed == UNION {tracked[t] : t \in ended}
  IN /\ p \in alive /\ alive' = left
     /\ names' = names \ removed
     /\ taken' = taken \cup (IF Pub \in left THEN removed ELSE {})
     /\ tracked' = [t \in {Pub} \cup Readers |-> IF t \in ended THEN {} ELSE tracked[t]]
     /\ mapping' = [r \in Readers |-> IF Process(r) = p THEN NoBuffer ELSE mapping[r]]
     /\ UNCHANGED <<where, untracked, owned, publisher, forgotten>>

BlocksNext ==
  \/ \E t \in Exporting : ExportBlock(t) \/ AnnounceBlock(t) \/ Keep(t) \/ Send(t)
  \/ BeginDestroy \/ EndDestroy \/ Collect
  \/ \E r \in Readers :
       \/ \E b \in Blocks : Attach(r, b)
       \/ Open(r) \/ UnregisterBlock(r) \/ DropView(r) \/ TakeView(r) \/ ReleaseBuffer(r)
  \/ \E p \in Programs : EndProcess(p)

BlocksSpec == BlocksInit /\ [][BlocksNext]_blockVars

------------------------------------------------------------------------------

Busy == {mine[t] : t \in {x \in Exporting : ppc[x] # "idle"}}

\* A block that the publisher keeps can be opened, whatever the processes that
\* have opened it do and whenever they end (but for one that ends between the
\* open and the unregistering); a publisher that is destroyed leaves none, but
\* for those announced meanwhile, and those go with the object; and when all
\* processes have ended none is left (but for those that a child process has
\* taken from the tracker it shares).
BlocksKept ==
  /\ Pub \in alive =>
       /\ ToSet(kept) \subseteq names \cup taken
       /\ gone \in {"destroyed", "collected"} => names \subseteq overdue \cup Busy
       /\ gone = "collected" => names = {}
  /\ alive = {} => names \subseteq forgotten

\* Why: a block is in the table once, or in the hand of the one thread that has made
\* it and not yet put it there; nobody else closes it.
Making == {t \in Exporting : ppc[t] \in {"announce", "keep"}}
Held == ToSet(kept) \cup {mine[t] : t \in Making}
HandsInv ==
  /\ ToSet(kept) \subseteq 1..made /\ \A i, j \in DOMAIN kept : kept[i] = kept[j] => i = j
  /\ \A t \in Making : mine[t] \in 1..made /\ mine[t] \notin ToSet(kept)
  /\ \A s, t \in Making : mine[s] = mine[t] => s = t
  /\ \A r \in Readers : mapping[r].pc # "none" => mapping[r].block \in Blocks

\* What has a name is owned, what is owned is held, and what is held has a name.
NamesInv ==
  /\ names \subseteq owned /\ owned \subseteq Held
  /\ Pub \in alive => Held \subseteq names \cup taken
  /\ gone = "destroyed" => ToSet(kept) \subseteq overdue
  /\ gone = "collected" => kept = <<>> /\ \A t \in Exporting : ppc[t] = "idle"

\* The publisher's tracker knows every name, as long as one of its processes lives.
TrackedInv ==
  names \subseteq forgotten \cup (IF Users(Pub) \cap alive = {} THEN {} ELSE tracked[Pub])
=============================================================================
