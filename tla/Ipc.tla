-------------------------------- MODULE Ipc --------------------------------
(***************************************************************************)
(* The IPC objects that block without ownership: a semaphore, an event     *)
(* group and a channel, each with its threads, handlers and timeouts.  A   *)
(* thread waits for one object at a time and the objects share nothing but *)
(* the kernel, so a behaviour has one of them.                             *)
(***************************************************************************)
EXTENDS Semaphore, Event, Channel

CONSTANTS
    User,     \* the threads that use each of the objects looked at
    Pausers   \* who calls Thread::suspend: threads, and None for handlers

ASSUME IpcAssumption ==
    /\ {Sem, Flags} \cap {Senders, Receivers} = {}
    /\ DOMAIN User \subseteq {"semaphore", "event", "channel"}
    /\ \A o \in DOMAIN User : User[o] \subseteq Thread
    /\ Pausers \subseteq Caller

VARIABLE object   \* the object of this behaviour

vars == <<kvars, svars, evars, cvars, object>>

Init ==
    /\ object \in DOMAIN User
    /\ BlockingInit /\ SemaphoreInit /\ EventInit /\ ChannelInit

ObjectNext ==
    /\ \/ object = "semaphore" /\ SemaphoreNext(User[object]) /\ UNCHANGED <<evars, cvars>>
       \/ object = "event" /\ EventNext(User[object]) /\ UNCHANGED <<svars, cvars>>
       \/ object = "channel" /\ ChannelNext(User[object]) /\ UNCHANGED <<svars, evars>>
    /\ UNCHANGED object

KernelNext ==
    /\ Scheduling \/ Timeouts \/ PendSV \/ Resuming \/ Suspending(Pausers)
    /\ UNCHANGED <<svars, evars, cvars, object>>

Next == ObjectNext \/ KernelNext

Spec == Init /\ [][Next]_vars

-----------------------------------------------------------------------------
\* No race of release, timeout and suspend loses or duplicates a token, and nobody waits
\* while one is there to be taken.
TokensConserved == object = "semaphore" => TokensAccounted

TypeOK == BlockingType /\ SemaphoreType /\ EventType /\ ChannelType

\* The queues hold suspended threads, once each, and only waiters have a timer: no
\* order of release, timeout, suspend and resume leaves a thread in two places, nor a
\* counter, a set of flags or a message outside its bounds.  And the buffer is intact: the
\* message queue never loses or shares a block.
QueueSound == WaitersSound(k) /\ TypeOK

\* The doc of Thread::suspend: a suspended thread is made ready by Thread::resume only.
SuspendSticks ==
    [][\A t \in Thread :
         (k.st[t] = "suspend" /\ ~Waits(k, t) /\ k'.st[t] = "ready")
           => \E c \in Caller : ResumeThread(c, t)]_vars
=============================================================================
