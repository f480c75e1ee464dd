---------------------------- MODULE StreamHandler ----------------------------
(***************************************************************************)
(* The handlers of LNUnit.LND that keep one gRPC stream to an LND node open*)
(* and call the user back for every message: interceptors, the channel     *)
(* acceptor, event handlers and monitors.  They share one shape, written   *)
(* out in seven classes, and differ in the points of a kind below.         *)
(*                                                                         *)
(* Three sides work at once: the task that reads the stream (loop), the    *)
(* constructor that waits for it (ctor), and threads that call Cancel or   *)
(* Dispose (Callers).  _task is the task of StartNew, not that of the loop:*)
(* it is complete once the loop has reached its first pending await.       *)
(***************************************************************************)
EXTENDS Naturals

CONSTANTS
  Callers,     \* threads that call Cancel or Dispose, once each
  Kinds,       \* the classes a handler is taken from
  MaxMessages  \* bound: messages LND sends

\* token: what the CancellationToken is passed to; answers: LND waits for the
\* result of the callback; counts: InterceptCount; cancels: there is a Cancel;
\* guarded: Dispose has a flag, cancels the token, waits for the loop and
\* leaves the node alone; lowers: Dispose sets Running; optional: there need
\* be no callback, and a message that finds none is dropped.
HtlcInterceptor == [token |-> "call", answers |-> TRUE, counts |-> TRUE,
                    cancels |-> TRUE, guarded |-> FALSE, lowers |-> FALSE,
                    optional |-> FALSE]
RpcMiddleware   == [HtlcInterceptor EXCEPT !.token = "none"]
GraphEvents     == [RpcMiddleware EXCEPT !.answers = FALSE]
ChannelEvents   == GraphEvents
HtlcMonitor     == [token |-> "none", answers |-> FALSE, counts |-> FALSE,
                    cancels |-> FALSE, guarded |-> FALSE, lowers |-> TRUE,
                    optional |-> FALSE]
StateMonitor    == [HtlcMonitor EXCEPT !.optional = TRUE]
ChannelAcceptor == [token |-> "read", answers |-> TRUE, counts |-> FALSE,
                    cancels |-> TRUE, guarded |-> TRUE, lowers |-> FALSE,
                    optional |-> FALSE]

AllKinds == {HtlcInterceptor, RpcMiddleware, GraphEvents, ChannelEvents,
             HtlcMonitor, StateMonitor, ChannelAcceptor}

ASSUME KindsAssumption == Kinds \subseteq AllKinds
ASSUME BoundAssumption == MaxMessages \in Nat

VARIABLES
  kind,      \* the class of this handler
  ctor,      \* where the constructor is
  hooked,    \* the callback is assigned
  loop,      \* where the loop is
  taskDone,  \* _task.IsCompleted
  Running,   \* the property
  source,    \* the CancellationTokenSource
  channel,   \* the GrpcChannel of Node
  call,      \* the stream
  sent,      \* messages LND has sent
  taken,     \* messages MoveNext has returned
  dealt,     \* messages answered or handed to the callback
  dropped,   \* messages for which there was no callback
  count,     \* InterceptCount
  disposed,  \* _disposed, which only the acceptor ever sets
  at,        \* where the callers are
  how        \* history: what they called

node    == <<channel, call, sent>>
reading == <<loop, taken, dealt, dropped, count>>
calling == <<source, disposed, at, how>>
vars    == <<kind, ctor, hooked, taskDone, Running, node, reading, calling>>

Init ==
  /\ kind \in Kinds
  /\ ctor = "assign" /\ hooked = FALSE
  /\ loop = "open" /\ taskDone = FALSE /\ Running = FALSE
  /\ source = "live" /\ channel = "open" /\ call = "none" /\ disposed = FALSE
  /\ sent = 0 /\ taken = 0 /\ dealt = 0 /\ dropped = 0 /\ count = 0
  /\ at = [c \in Callers |-> "idle"] /\ how = [c \in Callers |-> "none"]

\* Cancelling or disposing a call also loses what it has received unread.
Cut == IF call = "none" THEN "none" ELSE "broken"

-----------------------------------------------------------------------------
(* The constructor, from StartNew on.                                      *)

Assign ==
  /\ ctor = "assign"
  /\ hooked' \in IF kind.optional THEN BOOLEAN ELSE {TRUE}
  /\ ctor' = "poll"
  /\ UNCHANGED <<kind, taskDone, Running, node, reading, calling>>

\* The constructor does not wait.
PollOnce ==
  /\ ctor = "poll"
  /\ ctor' = "returned"
  /\ UNCHANGED <<kind, hooked, taskDone, Running, node, reading, calling>>

\* Running is looked at every 100 ms: the flag may rise and fall unseen.
Poll ==
  /\ ctor = "poll"
  /\ Running
  /\ ctor' = "returned"
  /\ UNCHANGED <<kind, hooked, taskDone, Running, node, reading, calling>>

-----------------------------------------------------------------------------
(* The loop.                                                               *)

\* Running is raised by the first message.
OpenUnseen ==
  /\ loop = "open" /\ channel = "open"
  /\ call' = "live" /\ loop' = "read"
  /\ UNCHANGED <<kind, ctor, hooked, taskDone, Running, channel, sent, taken,
                 dealt, count, dropped, calling>>

Open ==
  /\ loop = "open"
  /\ channel = "open"
  /\ call' = "live"
  /\ Running' = TRUE
  /\ loop' = "read"
  /\ UNCHANGED <<kind, ctor, hooked, taskDone, channel, sent, taken, dealt,
                 count, dropped, calling>>

\* Somebody else has disposed the connection.
OpenFails ==
  /\ loop = "open"
  /\ channel = "disposed"
  /\ loop' = "leave"
  /\ UNCHANGED <<kind, ctor, hooked, taskDone, Running, node, taken, dealt,
                 count, dropped, calling>>

\* An await that is not complete gives the thread back to StartNew.
Yield ==
  /\ loop \in {"read", "handle", "answer"}
  /\ ~taskDone
  /\ taskDone' = TRUE
  /\ UNCHANGED <<kind, ctor, hooked, Running, node, reading, calling>>

\* A token passed to MoveNext makes it throw.
TokenThrows == kind.token = "read" /\ source # "live"

\* What was received before the stream broke is still delivered.
TakeBuffered ==
  /\ loop = "read" /\ taken < sent /\ ~TokenThrows
  /\ taken' = taken + 1
  /\ loop' = "handle"
  /\ UNCHANGED <<kind, ctor, hooked, taskDone, Running, node, dealt, count,
                 dropped, calling>>

Take ==
  /\ loop = "read"
  /\ call \in {"live", "ended"}
  /\ taken < sent
  /\ ~TokenThrows
  /\ taken' = taken + 1
  /\ loop' = "handle"
  /\ UNCHANGED <<kind, ctor, hooked, taskDone, Running, node, dealt, count,
                 dropped, calling>>

\* MoveNext returns false, or throws.
StreamOver ==
  /\ loop = "read"
  /\ \/ call = "ended" /\ taken = sent
     \/ call = "broken"
     \/ TokenThrows
  /\ loop' = "leave"
  /\ UNCHANGED <<kind, ctor, hooked, taskDone, Running, node, taken, dealt,
                 count, dropped, calling>>

\* The callback returns.  LND is answered next if it waits for an answer.
Handle ==
  /\ loop = "handle"
  /\ hooked
  /\ IF kind.answers
     THEN loop' = "answer" /\ UNCHANGED dealt
     ELSE loop' = "count" /\ dealt' = dealt + 1
  /\ UNCHANGED <<kind, ctor, hooked, taskDone, Running, node, taken, count,
                 dropped, calling>>

\* An exception is caught for the message, not for the stream.
HandleThrowsOnce ==
  /\ loop = "handle"
  /\ loop' = "read"
  /\ UNCHANGED <<kind, ctor, hooked, taskDone, Running, node, taken, dealt,
                 count, dropped, calling>>

\* There is no callback, or none yet: the null-conditional call does nothing
\* and the loop goes on.
Drop ==
  /\ loop = "handle"
  /\ kind.optional /\ ~hooked
  /\ dropped' = dropped + 1
  /\ loop' = "count"
  /\ UNCHANGED <<kind, ctor, hooked, taskDone, Running, node, taken, dealt,
                 count, calling>>

\* The callback throws, or there is none yet.
HandleThrows ==
  /\ loop = "handle"
  /\ hooked \/ ~kind.optional
  /\ loop' = "leave"
  /\ UNCHANGED <<kind, ctor, hooked, taskDone, Running, node, taken, dealt,
                 count, dropped, calling>>

\* WriteAsync on a stream that is over throws.
Answer ==
  /\ loop = "answer"
  /\ IF call = "live" THEN loop' = "count" /\ dealt' = dealt + 1
     ELSE loop' = "leave" /\ UNCHANGED dealt
  /\ UNCHANGED <<kind, ctor, hooked, taskDone, Running, node, taken, count,
                 dropped, calling>>

\* Every message counts twice.
CountTwice ==
  /\ loop = "count"
  /\ count' = IF kind.counts THEN count + 2 ELSE count
  /\ loop' = "read"
  /\ UNCHANGED <<kind, ctor, hooked, taskDone, Running, node, taken, dealt,
                 dropped, calling>>

Count ==
  /\ loop = "count"
  /\ count' = IF kind.counts THEN count + 1 ELSE count
  /\ loop' = "read"
  /\ UNCHANGED <<kind, ctor, hooked, taskDone, Running, node, taken, dealt,
                 dropped, calling>>

\* The end of the using block.
Leave ==
  /\ loop = "leave"
  /\ call' = Cut
  /\ loop' = "lower"
  /\ UNCHANGED <<kind, ctor, hooked, taskDone, Running, channel, sent, taken,
                 dealt, count, dropped, calling>>

Lower ==
  /\ loop = "lower"
  /\ Running' = FALSE
  /\ taskDone' = TRUE
  /\ loop' = "done"
  /\ UNCHANGED <<kind, ctor, hooked, node, taken, dealt, count, dropped,
                 calling>>

Loop == \/ Open \/ OpenFails \/ Yield \/ Take \/ StreamOver \/ Handle
        \/ Drop \/ HandleThrows \/ Answer \/ Count \/ Leave \/ Lower

-----------------------------------------------------------------------------
(* Cancel and Dispose.                                                     *)

Goto(c, label) == at' = [at EXCEPT ![c] = label]

\* The object is there once the constructor has returned.
Begin(c) ==
  /\ ctor = "returned"
  /\ at[c] = "idle"
  /\ \/ kind.cancels /\ how' = [how EXCEPT ![c] = "Cancel"] /\ Goto(c, "cancel")
     \/ how' = [how EXCEPT ![c] = "Dispose"] /\ Goto(c, "check")
  /\ UNCHANGED <<kind, ctor, hooked, taskDone, Running, node, reading, source,
                 disposed>>

\* A disposed source cannot be cancelled; a token of the call cuts it.
CancelToken(c, next) ==
  IF source = "disposed"
  THEN Goto(c, "threw") /\ UNCHANGED <<source, call>>
  ELSE /\ Goto(c, next)
       /\ source' = "cancelled"
       /\ call' = IF kind.token = "call" THEN Cut ELSE call

Cancel(c) ==
  /\ at[c] = "cancel"
  /\ CancelToken(c, "wait")
  /\ UNCHANGED <<kind, ctor, hooked, taskDone, Running, channel, sent, reading,
                 disposed, how>>

\* Cancel waits for the loop itself.
WaitLoop(c) ==
  /\ at[c] = "wait" /\ loop = "done"
  /\ Goto(c, "lower")
  /\ UNCHANGED <<kind, ctor, hooked, taskDone, Running, node, reading, source,
                 disposed, how>>

Wait(c) ==
  /\ at[c] = "wait"
  /\ taskDone
  /\ Goto(c, "lower")
  /\ UNCHANGED <<kind, ctor, hooked, taskDone, Running, node, reading, source,
                 disposed, how>>

CancelLowers(c) ==
  /\ at[c] = "lower"
  /\ Running' = FALSE
  /\ Goto(c, "check")
  /\ UNCHANGED <<kind, ctor, hooked, taskDone, node, reading, source, disposed,
                 how>>

\* Every class checks and sets the flag.
CheckAlways(c) ==
  /\ at[c] = "check"
  /\ Goto(c, IF disposed THEN "returned"
             ELSE IF kind.guarded THEN "token" ELSE "source")
  /\ disposed' = TRUE
  /\ UNCHANGED <<kind, ctor, hooked, taskDone, Running, node, reading, source,
                 how>>

\* Dispose.  The readonly flag of the other classes is never set.
Check(c) ==
  /\ at[c] = "check"
  /\ Goto(c, IF ~kind.guarded THEN "source"
             ELSE IF disposed THEN "skipped" ELSE "mark")
  /\ UNCHANGED <<kind, ctor, hooked, taskDone, Running, node, reading, source,
                 disposed, how>>

Mark(c) ==
  /\ at[c] = "mark"
  /\ disposed' = TRUE
  /\ Goto(c, "token")
  /\ UNCHANGED <<kind, ctor, hooked, taskDone, Running, node, reading, source,
                 how>>

DisposeCancels(c) ==
  /\ at[c] = "token"
  /\ CancelToken(c, "source")
  /\ UNCHANGED <<kind, ctor, hooked, taskDone, Running, channel, sent, reading,
                 disposed, how>>

DisposeSource(c) ==
  /\ at[c] = "source"
  /\ source' = "disposed"
  /\ Goto(c, "task")
  /\ UNCHANGED <<kind, ctor, hooked, taskDone, Running, node, reading, disposed,
                 how>>

\* A task that is not complete cannot be disposed.
DisposeTask(c) ==
  /\ at[c] = "task"
  /\ Goto(c, IF ~taskDone THEN "threw"
             ELSE IF kind.guarded THEN "spin" ELSE "node")
  /\ UNCHANGED <<kind, ctor, hooked, taskDone, Running, node, reading, source,
                 disposed, how>>

\* The connection is kept open, as the acceptor does.
DisposeNodeKeeps(c) ==
  /\ at[c] = "node"
  /\ Goto(c, IF kind.lowers THEN "flag" ELSE "returned")
  /\ UNCHANGED <<kind, ctor, hooked, taskDone, Running, node, reading, source,
                 disposed, how>>

\* Disposing the channel cuts its calls.
DisposeNode(c) ==
  /\ at[c] = "node"
  /\ channel' = "disposed"
  /\ call' = Cut
  /\ Goto(c, IF kind.lowers THEN "flag" ELSE "returned")
  /\ UNCHANGED <<kind, ctor, hooked, taskDone, Running, sent, reading, source,
                 disposed, how>>

DisposeLowers(c) ==
  /\ at[c] = "flag"
  /\ Running' = FALSE
  /\ Goto(c, "returned")
  /\ UNCHANGED <<kind, ctor, hooked, taskDone, node, reading, source, disposed,
                 how>>

\* The loop is not waited for.
SpinNot(c) ==
  /\ at[c] = "spin"
  /\ Goto(c, "returned")
  /\ UNCHANGED <<kind, ctor, hooked, taskDone, Running, node, reading, source,
                 disposed, how>>

Spin(c) ==
  /\ at[c] = "spin"
  /\ ~Running
  /\ Goto(c, "returned")
  /\ UNCHANGED <<kind, ctor, hooked, taskDone, Running, node, reading, source,
                 disposed, how>>

Caller(c) == \/ Cancel(c) \/ Wait(c) \/ CancelLowers(c) \/ Check(c) \/ Mark(c)
             \/ DisposeCancels(c) \/ DisposeSource(c) \/ DisposeTask(c)
             \/ DisposeNode(c) \/ DisposeLowers(c) \/ Spin(c)

-----------------------------------------------------------------------------
(* The environment: LND, and others that use the same connection.          *)

Send ==
  /\ call = "live"
  /\ sent < MaxMessages
  /\ sent' = sent + 1
  /\ UNCHANGED <<kind, ctor, hooked, taskDone, Running, channel, call, reading,
                 calling>>

\* LND completes the stream, or it breaks: LND stops, restarts or refuses it.
CallEnds ==
  /\ call = "live"
  /\ call' \in {"ended", "broken"}
  /\ UNCHANGED <<kind, ctor, hooked, taskDone, Running, channel, sent, reading,
                 calling>>

\* The pool, or another handler, disposes the connection.
OthersDispose ==
  /\ channel = "open"
  /\ channel' = "disposed"
  /\ call' = Cut
  /\ UNCHANGED <<kind, ctor, hooked, taskDone, Running, sent, reading, calling>>

\* The callback is a public event: who gave none may still subscribe.
Hook ==
  /\ ctor = "returned"
  /\ kind.optional /\ ~hooked
  /\ hooked' = TRUE
  /\ UNCHANGED <<kind, ctor, taskDone, Running, node, reading, calling>>

Environment == Send \/ CallEnds \/ OthersDispose \/ Hook

Next == \/ Assign \/ Poll \/ Loop \/ Environment
        \/ \E c \in Callers : Begin(c) \/ Caller(c)

Spec == Init /\ [][Next]_vars

\* The runtime runs every thread that can go on, and callbacks end; LND owes
\* nothing and nobody is obliged to call Cancel or Dispose.
FairSpec ==
  /\ Spec
  /\ WF_vars(Assign) /\ WF_vars(Poll) /\ WF_vars(Loop)
  /\ \A c \in Callers : WF_vars(Caller(c))

-----------------------------------------------------------------------------
(* Properties.                                                             *)

TypeOK ==
  /\ kind \in Kinds
  /\ ctor \in {"assign", "poll", "returned"}
  /\ loop \in {"open", "read", "handle", "answer", "count", "leave", "lower", "done"}
  /\ {hooked, taskDone, Running, disposed} \subseteq BOOLEAN
  /\ source \in {"live", "cancelled", "disposed"}
  /\ channel \in {"open", "disposed"}
  /\ call \in {"none", "live", "ended", "broken"}
  /\ sent \in 0..MaxMessages /\ taken \in 0..sent
  /\ dealt \in 0..taken /\ dropped \in 0..(taken - dealt)
  /\ count \in 0..dealt
  /\ at \in [Callers -> {"idle", "cancel", "wait", "lower", "check", "mark",
                         "token", "source", "task", "node", "flag", "spin",
                         "returned", "skipped", "threw"}]
  /\ how \in [Callers -> {"none", "Cancel", "Dispose"}]

\* Some Cancel or Dispose has returned.  A Dispose that finds _disposed set
\* returns at once; that counts from when the one that set the flag, which
\* comes first, has cancelled the token.
Released ==
  \/ \E c \in Callers : at[c] = "returned"
  \/ /\ \E c \in Callers : at[c] = "skipped"
     /\ \A c \in Callers : at[c] # "token"

\* Whichever calls of Cancel and Dispose overlap: once one of them has
\* returned, the connection of a handler that owns it is disposed and LND no
\* longer has the stream.
ReleaseEndsStream ==
  Released /\ ~kind.guarded => channel = "disposed" /\ call # "live"

\* After a Cancel or a Dispose has returned no further message is taken,
\* though the one in hand may still be answered or handed over; with the one
\* delay that Released names for a second Dispose of the acceptor.
NothingTakenAfterRelease == [][Released => UNCHANGED taken]_vars

\* A handler that has said it no longer runs never says it runs again, though
\* Cancel and the loop both write the flag without synchronisation.
RunningStaysDown ==
  [][ctor = "returned" /\ ~Running => ~Running']_vars

\* The acceptor keeps its connection, so its Dispose waits for the loop (which
\* a Cancel that has lowered Running would prevent).  A second Dispose is
\* turned away by the flag and does not wait: then the loop is over, or another
\* Dispose is at work on it, or has thrown.
DisposeWaits ==
  kind.guarded /\ (\A c \in Callers : how[c] # "Cancel") =>
    \A c \in Callers :
      /\ at[c] = "returned" => loop = "done"
      /\ at[c] = "skipped" =>
           \/ loop = "done"
           \/ \E d \in Callers :
                at[d] \in {"token", "source", "task", "spin", "threw"}

\* The handler is a subscription, which is over when the loop leaves.
Promise ==
  INSTANCE Subscription WITH
    phase <- CASE loop = "open" -> "new"
               [] loop \in {"leave", "lower", "done"} -> "over"
               [] OTHER -> "open",
    heard <- hooked,
    done  <- dealt,
    lost  <- dropped
Subscribes == Promise!Spec

\* A constructor returns, although LND may send nothing, if the stream stays
\* up; a stream that fails at once, or a message that arrives before the
\* callback is assigned, can make it wait for ever.
ConstructorReturns ==
  <>(ctor = "returned" \/ call \in {"ended", "broken"} \/ channel = "disposed"
       \/ taken > 0)

\* Cancel and Dispose end, by a return or an exception, in whatever state they
\* find the loop and each other.
CallsEnd ==
  \A c \in Callers :
    at[c] # "idle" ~> at[c] \in {"returned", "skipped", "threw"}

\* A stream that is over, by whichever side, is noticed; and once Cancel or
\* Dispose has returned the loop ends, and with it the callbacks.
EndIsNoticed ==
  /\ call \in {"ended", "broken"} ~> ~Running
  /\ Released ~> loop = "done"
=============================================================================
