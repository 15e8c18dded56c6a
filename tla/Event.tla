------------------------------- MODULE Event --------------------------------
(***************************************************************************)
(* wuy_event.c: the status of a file descriptor, kept by its user, against *)
(* the interest list of the kernel (epoll, edge triggered), and the loop   *)
(* that calls the handler for a batch of events at a time.  A call of the  *)
(* user comes from the handler or between two runs of the loop.            *)
(***************************************************************************)
EXTENDS Naturals, SequencesExt

CONSTANTS
  Fds,
  Listeners,  \* of Fds, added by wuy_event_add_listen(), without a status
  Happenings, \* what can be the case at a descriptor
  MaxEvents   \* of a batch; 100 in the code

ASSUME EventAssumption ==
  /\ Listeners \subseteq Fds /\ MaxEvents \in Nat \ {0}
  /\ Happenings \subseteq {"read", "write", "error"}

VARIABLES
  status,    \* set_read and set_write of each
  interest,  \* what the kernel watches each for; {} for what it does not have
  refused,    \* the kernel has refused a call since the status was last clear
  happens,   \* what is the case at each: it can be read, be written, has failed
  queue,     \* the kernel's ready list
  batch,     \* events of this run that are still to be handled
  told       \* what the handler was told since the kernel was last asked

eventVars == <<status, interest, refused, happens, queue, batch, told>>

Flags == {"read", "write"}

EventInit ==
  /\ status = [f \in Fds |-> {}] /\ interest = [f \in Fds |-> {}]
  /\ refused = [f \in Fds |-> FALSE]
  /\ happens = [f \in Fds |-> {}] /\ told = [f \in Fds |-> {}]
  /\ queue = <<>> /\ batch = <<>>

-----------------------------------------------------------------------------
(* The kernel.                                                             *)

\* What there is to report of f when it is watched for w and c is the case:
\* errors always.
Reports(w, c) == IF w = {} THEN {} ELSE c \cap (w \cup {"error"})

Queued(q, f) == IF f \in ToSet(q) THEN q ELSE Append(q, f)
Dequeued(q, f) == SelectSeq(q, LAMBDA g : g # f)

\* epoll_ctl() takes w for f, and reports at once what is the case.
Watch(f, w) ==
  /\ interest' = [interest EXCEPT ![f] = w]
  /\ queue' = IF Reports(w, happens[f]) = {} THEN Dequeued(queue, f) ELSE Queued(queue, f)
  /\ told' = [told EXCEPT ![f] = {}]

NotTaken == UNCHANGED <<interest, queue, told>>

\* EPOLL_CTL_ADD fails for what is there, and for want of memory.
Add(f, w) == (interest[f] = {} /\ Watch(f, w)) \/ NotTaken
Mod(f, w) == IF interest[f] # {} THEN Watch(f, w) ELSE NotTaken
Del(f) == IF interest[f] # {} THEN Watch(f, {}) ELSE NotTaken

-----------------------------------------------------------------------------
(* The user.                                                               *)

User(f) == f \in Fds \ Listeners /\ UNCHANGED <<happens, batch>>

\* The status is set before the kernel is asked, and stays when it refuses.
Sets(f, s) ==
  /\ status' = [status EXCEPT ![f] = s]
  /\ refused' = [refused EXCEPT ![f] = s # {} /\ (@ \/ interest'[f] = interest[f])]

\* Mutant: what the other flag has is not asked for again.
AddFlagAlone(f, flag) ==
  /\ User(f) /\ flag \notin status[f]
  /\ IF status[f] = {} THEN Add(f, {flag}) ELSE Mod(f, {flag})
  /\ Sets(f, status[f] \cup {flag})

\* wuy_event_add_read() and wuy_event_add_write().
AddFlag(f, flag) ==
  /\ User(f) /\ flag \notin status[f]
  /\ IF status[f] = {} THEN Add(f, {flag}) ELSE Mod(f, Flags)
  /\ Sets(f, status[f] \cup {flag})

AddBoth(f) ==
  /\ User(f) /\ status[f] # Flags
  /\ IF status[f] = {} THEN Add(f, Flags) ELSE Mod(f, Flags)
  /\ Sets(f, Flags)

\* wuy_event_del_read() and wuy_event_del_write().
DelFlag(f, flag) ==
  /\ User(f) /\ flag \in status[f]
  /\ IF status[f] = {flag} THEN Del(f) ELSE Mod(f, status[f] \ {flag})
  /\ Sets(f, status[f] \ {flag})

DelBoth(f) == User(f) /\ status[f] # {} /\ Del(f) /\ Sets(f, {})

AddListen(f) ==
  /\ f \in Listeners /\ interest[f] = {} /\ Watch(f, {"read"})
  /\ UNCHANGED <<status, refused, happens, batch>>

\* What is the case at f comes and goes; the user reads and writes all it can.
Happens(f, c) ==
  /\ c \notin happens[f]
  /\ happens' = [happens EXCEPT ![f] = @ \cup {c}]
  /\ IF c \in Reports(interest[f], {c})
     THEN /\ queue' = Queued(queue, f)
          /\ told' = [told EXCEPT ![f] = @ \ {IF c = "write" THEN "write" ELSE "read"}]
     ELSE UNCHANGED <<queue, told>>
  /\ UNCHANGED <<status, interest, refused, batch>>

Over(f, c) ==
  /\ c \in happens[f] \ {"error"}
  /\ happens' = [happens EXCEPT ![f] = @ \ {c}]
  /\ queue' = IF Reports(interest[f], happens'[f]) = {} THEN Dequeued(queue, f) ELSE queue
  /\ UNCHANGED <<status, interest, refused, batch, told>>

-----------------------------------------------------------------------------
(* wuy_event_run().                                                        *)

Event(f) == [fd |-> f, events |-> Reports(interest[f], happens[f])]

\* Mutant: an error of a descriptor without EPOLLIN is no reading.
HandleReadOnly(e) ==
  told' = [told EXCEPT ![e.fd] = @ \cup (e.events \cap Flags)]

\* The handler's arguments: anything but EPOLLOUT is reading.
Handle(e) ==
  told' = [told EXCEPT ![e.fd] = @ \cup (e.events \cap {"write"})
                                   \cup (IF e.events \subseteq {"write"} THEN {} ELSE {"read"})]

\* epoll_wait() gives what is ready, and the handler is called for the first.
Run ==
  /\ batch = <<>> /\ queue # <<>>
  /\ LET n == IF Len(queue) < MaxEvents THEN Len(queue) ELSE MaxEvents IN
     /\ batch' = [k \in 1 .. n - 1 |-> Event(queue[k + 1])]
     /\ queue' = SubSeq(queue, n + 1, Len(queue))
     /\ Handle(Event(queue[1]))
  /\ UNCHANGED <<status, interest, refused, happens>>

HandleNext ==
  /\ batch # <<>> /\ batch' = Tail(batch) /\ Handle(batch[1])
  /\ UNCHANGED <<status, interest, refused, happens, queue>>

-----------------------------------------------------------------------------
EventNext ==
  \/ \E f \in Fds, flag \in Flags : AddFlag(f, flag) \/ DelFlag(f, flag)
  \/ \E f \in Fds : AddBoth(f) \/ DelBoth(f) \/ AddListen(f)
  \/ \E f \in Fds, c \in Happenings : Happens(f, c) \/ Over(f, c)
  \/ Run \/ HandleNext

\* The program runs its loop again and again, and each run comes to its end.
Loop == WF_eventVars(Run \/ HandleNext)

EventSpec == EventInit /\ [][EventNext]_eventVars /\ Loop

-----------------------------------------------------------------------------
\* The kernel watches a descriptor for what its status says, whatever calls led
\* there; after a refused one for nothing, until the status is clear again.
StatusIsInterest ==
  \A f \in Fds \ Listeners : interest[f] = IF refused[f] THEN {} ELSE status[f]

\* What the user asked to be told of comes to the handler, each time the kernel
\* is asked and each time it happens, or it is no more the case or asked for.
Asked(f) == IF f \in Listeners THEN interest[f] ELSE IF refused[f] THEN {} ELSE status[f]

Owed(f, flag) ==
  /\ flag \notin told[f]
  /\ \/ flag \in happens[f] \cap Asked(f)
     \/ flag = "read" /\ "error" \in happens[f] /\ Asked(f) # {}

Served == \A f \in Fds, flag \in Flags : Owed(f, flag) ~> ~Owed(f, flag)
=============================================================================
