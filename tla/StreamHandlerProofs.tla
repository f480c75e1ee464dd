------------------------- MODULE StreamHandlerProofs -------------------------
(***************************************************************************)
(* Theorems about StreamHandler, for any number of threads that call Cancel*)
(* or Dispose and any number of messages.                                  *)
(***************************************************************************)
EXTENDS StreamHandler, TLAPS

USE KindsAssumption, BoundAssumption

\* What the classes have in common: a guarded one passes the token to MoveNext,
\* and one whose messages may be dropped does not count them.
KindInv == /\ kind \in AllKinds
           /\ kind.guarded => kind.token = "read"
           /\ kind.optional => ~kind.counts

\* The loop and its stream.
StreamInv ==
  /\ loop = "open" => /\ call = "none" /\ ~Running
                      /\ taken = 0 /\ dealt = 0 /\ dropped = 0
  /\ loop = "done" => ~Running
  /\ channel = "disposed" => call \in {"none", "broken"}
  /\ Running \in BOOLEAN

\* A message is in hand exactly between Take and its answer.
HandInv ==
  /\ taken \in Nat /\ dealt \in Nat /\ dropped \in Nat
  /\ loop \in {"handle", "answer"} => taken = dealt + dropped + 1
  /\ loop \in {"read", "count"} => taken = dealt + dropped
  /\ loop = "answer" => hooked
  /\ ctor = "assign" => hooked = FALSE

\* A Dispose that has set the flag.
AtWork == {"token", "source", "task", "spin", "threw", "returned"}

\* How far Cancel and Dispose are, and what they have done by then.
CallerInv ==
  /\ at = [c \in Callers |-> at[c]]
  /\ \A c \in Callers :
       /\ at[c] # "idle" => ctor = "returned"
       /\ ~kind.guarded => at[c] \notin {"mark", "token", "spin", "skipped"} /\ ~disposed
       /\ kind.guarded => at[c] \notin {"node", "flag"}
       /\ ~kind.guarded /\ at[c] \in {"flag", "returned"} => channel = "disposed"
       /\ at[c] \in {"task", "node", "flag", "spin", "returned"} => source = "disposed"
       /\ at[c] = "skipped" => disposed
  /\ disposed => \E c \in Callers : at[c] \in AtWork
  /\ disposed /\ source = "live" => \E c \in Callers : at[c] = "token"
  /\ ctor = "returned" => loop # "open"

Inv == KindInv /\ StreamInv /\ HandInv /\ CallerInv

LEMMA InitInv == Init => Inv
<1>. SUFFICES ASSUME Init PROVE Inv
  OBVIOUS
<1>1. KindInv
  <2>1. kind \in AllKinds
    BY DEF Init
  <2>2. \A k \in AllKinds : k.guarded => k.token = "read"
    <3>1. ~HtlcInterceptor.guarded /\ ~HtlcMonitor.guarded
      BY DEF HtlcInterceptor, HtlcMonitor
    <3>2. ~RpcMiddleware.guarded /\ ~GraphEvents.guarded /\ ~StateMonitor.guarded
      BY DEF HtlcInterceptor, RpcMiddleware, GraphEvents, HtlcMonitor, StateMonitor
    <3>3. ChannelAcceptor.token = "read"
      BY DEF ChannelAcceptor
    <3>. QED
      BY <3>1, <3>2, <3>3, Zenon DEF AllKinds, ChannelEvents
  <2>3. \A k \in AllKinds : k.optional => ~k.counts
    <3>1. ~HtlcMonitor.counts /\ ~StateMonitor.counts
      BY DEF HtlcMonitor, StateMonitor
    <3>2. ~HtlcInterceptor.optional /\ ~RpcMiddleware.optional /\ ~GraphEvents.optional
      BY DEF HtlcInterceptor, RpcMiddleware, GraphEvents
    <3>3. ~ChannelAcceptor.optional
      BY DEF ChannelAcceptor
    <3>. QED  BY <3>1, <3>2, <3>3, Zenon DEF AllKinds, ChannelEvents
  <2>. QED  BY <2>1, <2>2, <2>3 DEF KindInv
<1>2. StreamInv /\ HandInv /\ CallerInv
  BY DEF Init, StreamInv, HandInv, CallerInv
<1>. QED  BY <1>1, <1>2 DEF Inv

LEMMA LoopInv == Inv /\ Loop => Inv'
<1>. SUFFICES ASSUME Inv, Loop PROVE Inv'
  OBVIOUS
<1>. USE DEF node, calling, reading, Cut
<1>1. KindInv' /\ kind' = kind
  BY DEF Inv, KindInv, Loop, Open, OpenFails, Yield, Take, StreamOver, Handle,
         Drop, HandleThrows, Answer, Count, Leave, Lower
<1>2. StreamInv'
  BY DEF Inv, StreamInv, Loop, Open, OpenFails, Yield, Take, StreamOver, Handle,
         Drop, HandleThrows, Answer, Count, Leave, Lower
<1>3. HandInv'
  BY DEF Inv, StreamInv, HandInv, Loop, Open, OpenFails, Yield, Take, StreamOver,
         Handle, Drop, HandleThrows, Answer, Count, Leave, Lower
<1>4. CallerInv'
  BY <1>1 DEF Inv, CallerInv, Loop, Open, OpenFails, Yield, Take, StreamOver,
         Handle, Drop, HandleThrows, Answer, Count, Leave, Lower
<1>. QED  BY <1>1, <1>2, <1>3, <1>4 DEF Inv

\* The callback is assigned once, if at all.
LEMMA AssignHooks ==
  Assign => /\ hooked' \in BOOLEAN /\ ctor = "assign" /\ ctor' = "poll"
            /\ UNCHANGED <<kind, taskDone, Running, node, reading, calling>>
BY Zenon DEF Assign

LEMMA OthersInv == Inv /\ (Assign \/ Poll \/ Environment) => Inv'
<1>. SUFFICES ASSUME Inv, Assign \/ Poll \/ Environment PROVE Inv'
  OBVIOUS
<1>. USE DEF node, calling, reading, Cut
<1>1. KindInv' /\ kind' = kind
  BY AssignHooks DEF Inv, KindInv, Poll, Environment, Send, CallEnds, OthersDispose, Hook
<1>2. StreamInv'
  BY AssignHooks DEF Inv, StreamInv, Poll, Environment, Send, CallEnds, OthersDispose, Hook
<1>3. HandInv'
  <2>1. UNCHANGED reading
    BY AssignHooks DEF Poll, Environment, Send, CallEnds, OthersDispose, Hook
  <2>2. /\ hooked => hooked'
        /\ ctor' = "assign" => hooked' = FALSE
    <3>1. CASE Assign
      BY <3>1 DEF Inv, HandInv, Assign
    <3>2. CASE Poll \/ Environment
      BY <3>2 DEF Inv, HandInv, Poll, Environment, Send, CallEnds, OthersDispose, Hook
    <3>. QED  BY <3>1, <3>2
  <2>. QED  BY <2>1, <2>2 DEF Inv, HandInv
<1>4. CallerInv'
  <2>1. /\ UNCHANGED <<loop, source, disposed, at>>
        /\ channel = "disposed" => channel' = "disposed"
        /\ ctor = "returned" => ctor' = "returned"
        /\ ctor' = "returned" => ctor = "returned" \/ Running
    BY AssignHooks DEF Poll, Environment, Send, CallEnds, OthersDispose, Hook
  <2>. QED  BY <1>1, <2>1 DEF Inv, CallerInv, StreamInv
<1>. QED  BY <1>1, <1>2, <1>3, <1>4 DEF Inv

\* A step of one caller: the others stay where they are, and everything they
\* rely on stays done.
LEMMA CallersInv ==
  ASSUME NEW c \in Callers
  PROVE  Inv /\ (Begin(c) \/ Caller(c)) => Inv'
<1>. SUFFICES ASSUME Inv, Begin(c) \/ Caller(c) PROVE Inv'
  OBVIOUS
<1>. USE DEF node, reading, Cut, Goto, CancelToken
<1>1. KindInv' /\ UNCHANGED <<kind, ctor, hooked, reading>>
  BY DEF Inv, KindInv, Begin, Caller, Cancel, Wait, CancelLowers, Check, Mark,
         DisposeCancels, DisposeSource, DisposeTask, DisposeNode, DisposeLowers, Spin
<1>2. StreamInv'
  <2>1. /\ call' = call \/ call' = Cut
        /\ Running' = Running \/ Running' = FALSE
        /\ channel' = channel \/ call' = Cut
    BY DEF Begin, Caller, Cancel, Wait, CancelLowers, Check, Mark, DisposeCancels,
           DisposeSource, DisposeTask, DisposeNode, DisposeLowers, Spin
  <2>2. UNCHANGED <<loop, taken, dealt, dropped>>
    BY <1>1
  <2>3. Cut \in {"none", "broken"} /\ (call = "none" => Cut = "none")
    OBVIOUS
  <2>. HIDE DEF Cut, Goto, CancelToken
  <2>4. /\ loop = "open" => /\ call = "none" /\ ~Running
                            /\ taken = 0 /\ dealt = 0 /\ dropped = 0
        /\ loop = "done" => ~Running
        /\ channel = "disposed" => call \in {"none", "broken"}
        /\ Running \in BOOLEAN
    BY DEF Inv, StreamInv
  <2>5. Running' \in BOOLEAN /\ (~Running => ~Running')
    <3>1. CASE Running' = Running
      BY <2>4, <3>1
    <3>2. CASE Running' = FALSE
      BY <3>2
    <3>. QED  BY <2>1, <3>1, <3>2
  <2>6. channel' = "disposed" => call' \in {"none", "broken"}
    BY <2>1, <2>3, <2>4
  <2>. QED  BY <2>1, <2>2, <2>3, <2>4, <2>5, <2>6 DEF StreamInv
<1>3. HandInv'
  BY <1>1 DEF Inv, HandInv
<1>4. CallerInv'
  <2>1. /\ at' = [d \in Callers |-> at'[d]]
        /\ \A d \in Callers \ {c} : at'[d] = at[d]
    BY DEF Inv, CallerInv, Begin, Caller, Cancel, Wait, CancelLowers, Check, Mark,
           DisposeCancels, DisposeSource, DisposeTask, DisposeNode, DisposeLowers, Spin
  <2>2. /\ channel = "disposed" => channel' = "disposed"
        /\ source = "disposed" => source' = "disposed"
        /\ disposed => disposed'
        /\ source' = "live" => source = "live"
    BY DEF Begin, Caller, Cancel, Wait, CancelLowers, Check, Mark,
           DisposeCancels, DisposeSource, DisposeTask, DisposeNode, DisposeLowers, Spin
  <2>3. /\ at'[c] # "idle" => ctor = "returned"
        /\ ~kind.guarded => at'[c] \notin {"mark", "token", "spin", "skipped"} /\ ~disposed'
        /\ kind.guarded => at'[c] \notin {"node", "flag"}
        /\ ~kind.guarded /\ at'[c] \in {"flag", "returned"} => channel' = "disposed"
        /\ at'[c] \in {"task", "node", "flag", "spin", "returned"} => source' = "disposed"
        /\ at'[c] = "skipped" => disposed'
    BY DEF Inv, CallerInv, Begin, Caller, Cancel, Wait, CancelLowers, Check, Mark,
           DisposeCancels, DisposeSource, DisposeTask, DisposeNode, DisposeLowers, Spin
  \* The flag is set on the way to the token, and never left behind.
  <2>4. disposed' => \E d \in Callers : at'[d] \in AtWork
    <3>1. at[c] \in AtWork => at'[c] \in AtWork \cup {"node"}
      BY DEF Begin, Caller, Cancel, Wait, CancelLowers, Check, Mark, DisposeCancels,
             DisposeSource, DisposeTask, DisposeNode, DisposeLowers, Spin, AtWork, Inv, CallerInv
    <3>2. disposed' = disposed \/ at'[c] = "token"
      BY DEF Begin, Caller, Cancel, Wait, CancelLowers, Check, Mark, DisposeCancels,
             DisposeSource, DisposeTask, DisposeNode, DisposeLowers, Spin, Inv, CallerInv
    <3>3. kind.guarded \/ ~disposed
      BY DEF Inv, CallerInv
    <3>. QED  BY <1>1, <2>1, <2>3, <3>1, <3>2, <3>3 DEF Inv, CallerInv, AtWork
  <2>5. disposed' /\ source' = "live" => \E d \in Callers : at'[d] = "token"
    <3>1. at[c] = "token" => source' # "live"
      BY DEF Begin, Caller, Cancel, Wait, CancelLowers, Check, Mark, DisposeCancels,
             DisposeSource, DisposeTask, DisposeNode, DisposeLowers, Spin, Inv, CallerInv
    <3>2. disposed' = disposed \/ at'[c] = "token"
      BY DEF Begin, Caller, Cancel, Wait, CancelLowers, Check, Mark, DisposeCancels,
             DisposeSource, DisposeTask, DisposeNode, DisposeLowers, Spin, Inv, CallerInv
    <3>. QED  BY <2>1, <2>2, <3>1, <3>2 DEF Inv, CallerInv
  <2>. QED  BY <1>1, <2>1, <2>2, <2>3, <2>4, <2>5 DEF Inv, CallerInv
<1>. QED  BY <1>1, <1>2, <1>3, <1>4 DEF Inv

LEMMA NextInv == Inv /\ [Next]_vars => Inv'
<1>. SUFFICES ASSUME Inv, [Next]_vars PROVE Inv'
  OBVIOUS
<1>1. CASE UNCHANGED vars
  BY <1>1 DEF vars, node, reading, calling, Inv, KindInv, StreamInv, HandInv, CallerInv
<1>. QED  BY <1>1, LoopInv, OthersInv, CallersInv DEF Next

LEMMA Invariance == Spec => []Inv
BY InitInv, NextInv, PTL DEF Spec

-----------------------------------------------------------------------------
\* Once one of any number of overlapping calls of Cancel and Dispose has
\* returned, LND no longer has the stream of a handler that owns its
\* connection.
THEOREM Releases == Spec => []ReleaseEndsStream
<1>1. Inv => ReleaseEndsStream
  BY DEF Inv, StreamInv, CallerInv, ReleaseEndsStream, Released
<1>. QED  BY <1>1, Invariance, PTL

\* From then on, and once the token is cancelled if it was turned away, the
\* loop takes no message.
THEOREM TakesNothing == Spec => NothingTakenAfterRelease
<1>1. Inv /\ [Next]_vars => [Released => UNCHANGED taken]_vars
  <2>. SUFFICES ASSUME Inv, Next, Released PROVE UNCHANGED taken
    BY DEF vars, reading
  <2>1. ~Take
    BY DEF Inv, KindInv, StreamInv, CallerInv, Released, Take, TokenThrows
  <2>. QED
    BY <2>1 DEF Next, Loop, Environment, Assign, Poll, Open, OpenFails, Yield,
       StreamOver, Handle, Drop, HandleThrows, Answer, Count, Leave, Lower, Send,
       CallEnds, OthersDispose, Hook, Begin, Caller, Cancel, Wait, CancelLowers, Check,
       Mark, DisposeCancels, DisposeSource, DisposeTask, DisposeNode,
       DisposeLowers, Spin, reading
<1>. QED  BY <1>1, Invariance, PTL DEF Spec, NothingTakenAfterRelease

\* A handler that has stopped running never reports that it runs.
THEOREM NeverRunsAgain == Spec => RunningStaysDown
<1>1. Inv /\ [Next]_vars => [ctor = "returned" /\ ~Running => ~Running']_vars
  <2>. SUFFICES ASSUME Inv, Next, ctor = "returned", ~Running PROVE ~Running'
    BY DEF vars
  <2>1. ~Open
    BY DEF Inv, CallerInv, Open
  <2>. QED
    BY <2>1 DEF Next, Loop, Environment, Assign, Poll, OpenFails, Yield, Take,
       StreamOver, Handle, Drop, HandleThrows, Answer, Count, Leave, Lower, Send,
       CallEnds, OthersDispose, Hook, Begin, Caller, Cancel, Wait, CancelLowers, Check,
       Mark, DisposeCancels, DisposeSource, DisposeTask, DisposeNode,
       DisposeLowers, Spin
<1>. QED  BY <1>1, Invariance, PTL DEF Spec, RunningStaysDown

\* Every handler is a subscription: messages are dealt with one at a time,
\* in the order they come, none before the stream is open or after it is over.
THEOREM Implements == Spec => Subscribes
<1>. DEFINE phase == CASE loop = "open" -> "new"
                       [] loop \in {"leave", "lower", "done"} -> "over"
                       [] OTHER -> "open"
<1>1. Init => Promise!Init
  BY DEF Init, Promise!Init
<1>2. Inv /\ [Next]_vars => [Promise!Next]_(Promise!vars)
  <2>. SUFFICES ASSUME Inv, [Next]_vars
                PROVE  Promise!Next \/ UNCHANGED <<phase, hooked, taken, dealt, dropped>>
    BY DEF Promise!vars
  <2>. USE DEF Promise!Next, Promise!Hear, Promise!Open, Promise!Take, Promise!Finish,
               Promise!Lose, Promise!Close
  <2>1. CASE Loop
    BY <2>1 DEF Inv, HandInv, Loop, Open, OpenFails, Yield, Take, StreamOver,
       Handle, Drop, HandleThrows, Answer, Count, Leave, Lower, reading
  <2>2. CASE UNCHANGED <<reading, hooked>>
    BY <2>2 DEF reading
  <2>3. CASE Assign
    <3>1. UNCHANGED reading /\ (hooked' = TRUE \/ hooked' = FALSE)
      BY <2>3, AssignHooks, Zenon
    <3>2. hooked = FALSE
      BY <2>3 DEF Assign, Inv, HandInv
    <3>3. UNCHANGED <<loop, taken, dealt, dropped>>
      BY <3>1 DEF reading
    <3>4. CASE hooked' = TRUE
      BY <3>3, <3>4, Zenon
    <3>5. CASE hooked' = FALSE
      BY <3>2, <3>3, <3>5, Zenon
    <3>. QED  BY <3>1, <3>4, <3>5, Zenon
  <2>4. CASE Hook
    BY <2>4 DEF Hook, reading
  <2>5. CASE Next /\ ~Loop /\ ~Assign /\ ~Hook
    <3>1. UNCHANGED <<reading, hooked>>
      BY <2>5 DEF Next, Environment, Poll, Send, CallEnds, OthersDispose, Hook,
         Begin, Caller, Cancel, Wait, CancelLowers, Check, Mark, DisposeCancels,
         DisposeSource, DisposeTask, DisposeNode, DisposeLowers, Spin
    <3>. QED  BY <2>2, <3>1
  <2>. QED  BY <2>1, <2>2, <2>3, <2>4, <2>5 DEF vars
<1>. QED  BY <1>1, <1>2, Invariance, PTL DEF Spec, Subscribes, Promise!Spec

-----------------------------------------------------------------------------
(* The types, and what the acceptor waits for.                             *)

\* A message is counted after it was dealt with.
CountInv ==
  /\ count \in Nat /\ count <= dealt
  /\ loop = "count" /\ kind.counts => count < dealt

LEMMA InitTypes == Init => TypeOK /\ CountInv
<1>. SUFFICES ASSUME Init PROVE TypeOK /\ CountInv
  OBVIOUS
<1>1. {hooked, taskDone, Running, disposed} \subseteq BOOLEAN
  BY Zenon DEF Init
<1>2. /\ sent \in 0..MaxMessages /\ taken \in 0..sent /\ dealt \in 0..taken
      /\ dropped \in 0..(taken - dealt) /\ count \in 0..dealt
  BY DEF Init
<1>. QED  BY <1>1, <1>2 DEF Init, TypeOK, CountInv

LEMMA LoopTypes == Inv /\ TypeOK /\ CountInv /\ Loop => TypeOK' /\ CountInv'
<1>. SUFFICES ASSUME Inv, TypeOK, CountInv, Loop PROVE TypeOK' /\ CountInv'
  OBVIOUS
<1>. USE DEF node, calling, reading, Cut
<1>1. UNCHANGED <<kind, ctor, hooked, channel, sent, source, disposed, at, how>>
  BY DEF Loop, Open, OpenFails, Yield, Take, StreamOver, Handle, Drop, HandleThrows, Answer, Count,
         Leave, Lower
<1>2. {hooked', taskDone', Running', disposed'} \subseteq BOOLEAN
  <2>1. /\ taskDone' = taskDone \/ taskDone' = TRUE
        /\ Running' = Running \/ Running' = TRUE \/ Running' = FALSE
    BY DEF Loop, Open, OpenFails, Yield, Take, StreamOver, Handle, Drop, HandleThrows, Answer, Count,
           Leave, Lower
  <2>. QED  BY <1>1, <2>1, Zenon DEF TypeOK
<1>3. /\ loop' \in {"open", "read", "handle", "answer", "count", "leave", "lower", "done"}
      /\ call' \in {"none", "live", "ended", "broken"}
  BY DEF TypeOK, Loop, Open, OpenFails, Yield, Take, StreamOver, Handle, Drop, HandleThrows, Answer,
         Count, Leave, Lower
<1>4. /\ taken' \in 0..sent' /\ dealt' \in 0..taken'
      /\ dropped' \in 0..(taken' - dealt') /\ CountInv'
  BY DEF Inv, KindInv, HandInv, TypeOK, CountInv, Loop, Open, OpenFails, Yield, Take, StreamOver, Handle,
         Drop, HandleThrows, Answer, Count, Leave, Lower
<1>5. count' \in 0..dealt'
  BY <1>4 DEF CountInv
<1>. QED  BY <1>1, <1>2, <1>3, <1>4, <1>5 DEF TypeOK

LEMMA OtherTypes ==
  ASSUME TypeOK, CountInv,
         \/ Assign \/ Poll \/ Environment \/ UNCHANGED vars
         \/ \E c \in Callers : Begin(c) \/ Caller(c)
  PROVE  TypeOK' /\ CountInv'
<1>. USE DEF node, calling, reading, Cut
<1>1. UNCHANGED <<kind, loop, taken, dealt, dropped, count>>
  BY AssignHooks DEF Poll, Environment, Send, CallEnds, OthersDispose, Hook, vars, Begin, Caller, Cancel,
         Wait, CancelLowers, Check, Mark, DisposeCancels, DisposeSource, DisposeTask, DisposeNode,
         DisposeLowers, Spin
<1>2. CASE Assign \/ Poll \/ Environment \/ UNCHANGED vars
  <2>1. /\ UNCHANGED <<taskDone, Running, source, disposed, at, how>>
        /\ ctor' \in {"assign", "poll", "returned"}
        /\ channel' \in {"open", "disposed"}
        /\ call' \in {"none", "live", "ended", "broken"}
        /\ sent' \in 0..MaxMessages /\ sent <= sent'
    BY <1>2, AssignHooks DEF TypeOK, Poll, Environment, Send, CallEnds, OthersDispose, Hook, vars
  <2>2. {hooked', taskDone', Running', disposed'} \subseteq BOOLEAN
    <3>1. hooked' = hooked \/ hooked' \in BOOLEAN
      BY <1>2, AssignHooks DEF Poll, Environment, Send, CallEnds, OthersDispose, Hook, vars
    <3>. QED  BY <2>1, <3>1, Zenon DEF TypeOK
  <2>. QED  BY <1>1, <2>1, <2>2 DEF TypeOK, CountInv
<1>3. ASSUME NEW c \in Callers, Begin(c) \/ Caller(c) PROVE TypeOK' /\ CountInv'
  <2>. USE DEF Goto, CancelToken
  <2>1. UNCHANGED <<ctor, hooked, taskDone, sent>>
    BY <1>3 DEF Begin, Caller, Cancel, Wait, CancelLowers, Check, Mark, DisposeCancels,
                DisposeSource, DisposeTask, DisposeNode, DisposeLowers, Spin
  <2>2. {hooked', taskDone', Running', disposed'} \subseteq BOOLEAN
    <3>1. /\ Running' = Running \/ Running' = FALSE
          /\ disposed' = disposed \/ disposed' = TRUE
      BY <1>3 DEF Begin, Caller, Cancel, Wait, CancelLowers, Check, Mark, DisposeCancels,
                  DisposeSource, DisposeTask, DisposeNode, DisposeLowers, Spin
    <3>. QED  BY <2>1, <3>1, Zenon DEF TypeOK
  <2>3. /\ source' \in {"live", "cancelled", "disposed"}
        /\ channel' \in {"open", "disposed"}
        /\ call' \in {"none", "live", "ended", "broken"}
    BY <1>3 DEF TypeOK, Begin, Caller, Cancel, Wait, CancelLowers, Check, Mark, DisposeCancels,
                DisposeSource, DisposeTask, DisposeNode, DisposeLowers, Spin
  <2>4. /\ at' \in [Callers -> {"idle", "cancel", "wait", "lower", "check", "mark",
                         "token", "source", "task", "node", "flag", "spin",
                         "returned", "skipped", "threw"}]
        /\ how' \in [Callers -> {"none", "Cancel", "Dispose"}]
    BY <1>3 DEF TypeOK, Begin, Caller, Cancel, Wait, CancelLowers, Check, Mark, DisposeCancels,
                DisposeSource, DisposeTask, DisposeNode, DisposeLowers, Spin
  <2>. QED  BY <1>1, <2>1, <2>2, <2>3, <2>4 DEF TypeOK, CountInv
<1>. QED  BY <1>2, <1>3

LEMMA TypesInvariant == Spec => [](TypeOK /\ CountInv)
<1>1. Inv /\ TypeOK /\ CountInv /\ [Next]_vars => TypeOK' /\ CountInv'
  BY LoopTypes, OtherTypes DEF Next
<1>. QED  BY InitTypes, <1>1, Invariance, PTL DEF Spec

\* Every variable has its type; no message is answered that was not taken, or
\* counted that was not dealt with.
THEOREM TypeCorrect == Spec => []TypeOK
  BY TypesInvariant, PTL

\* As long as nobody calls Cancel, only the end of the loop lowers Running once
\* the constructor has seen it.
NobodyCancels == \A c \in Callers : how[c] # "Cancel"
WaitInv ==
  /\ \A c \in Callers : /\ at[c] = "idle" => how[c] = "none"
                        /\ at[c] \in {"cancel", "wait", "lower"} => how[c] = "Cancel"
  /\ kind.guarded /\ NobodyCancels =>
       /\ ctor = "returned" => Running \/ loop = "done"
       /\ \A c \in Callers : at[c] = "returned" => loop = "done"

LEMMA NextWait == Inv /\ TypeOK /\ WaitInv /\ [Next]_vars => WaitInv'
<1>. SUFFICES ASSUME Inv, TypeOK, WaitInv, [Next]_vars PROVE WaitInv'
  OBVIOUS
<1>. USE DEF node, calling, reading, Cut, NobodyCancels
<1>1. CASE Loop \/ Assign \/ Poll \/ Environment \/ UNCHANGED vars
  <2>1. UNCHANGED <<kind, at, how>> /\ (loop = "done" => loop' = "done")
    BY <1>1, AssignHooks DEF Loop, Open, OpenFails, Yield, Take, StreamOver, Handle, Drop,
                HandleThrows, Answer, Count, Leave, Lower, Poll, Environment, Send, CallEnds, OthersDispose, Hook, vars
  <2>2. (ctor = "returned" => Running \/ loop = "done") =>
          (ctor' = "returned" => Running' \/ loop' = "done")
    BY <1>1, AssignHooks DEF Inv, CallerInv, Loop, Open, OpenFails, Yield, Take, StreamOver, Handle,
                Drop, HandleThrows, Answer, Count, Leave, Lower, Poll, Environment, Send,
                CallEnds, OthersDispose, Hook, vars
  <2>. QED  BY <2>1, <2>2 DEF WaitInv
<1>2. ASSUME NEW c \in Callers, Begin(c) \/ Caller(c) PROVE WaitInv'
  <2>. USE DEF Goto, CancelToken
  <2>1. UNCHANGED <<kind, ctor, loop>>
    BY <1>2 DEF Begin, Caller, Cancel, Wait, CancelLowers, Check, Mark, DisposeCancels,
                DisposeSource, DisposeTask, DisposeNode, DisposeLowers, Spin
  <2>2. \A d \in Callers : /\ at[d] = "idle" => how[d] = "none"
                           /\ at[d] \in {"cancel", "wait", "lower"} => how[d] = "Cancel"
    BY DEF WaitInv
  <2>3. at = [d \in Callers |-> at[d]] /\ how = [d \in Callers |-> how[d]]
    BY DEF TypeOK
  <2>4. CASE Begin(c)
    <3>1. UNCHANGED <<Running>> /\ (how'[c] = "Cancel" \/ at'[c] = "check")
      BY <2>3, <2>4 DEF Begin
    <3>2. \A d \in Callers : /\ at'[d] = "idle" => how'[d] = "none"
                             /\ at'[d] \in {"cancel", "wait", "lower"} => how'[d] = "Cancel"
      BY <2>2, <2>3, <2>4 DEF Begin
    <3>3. NobodyCancels' => NobodyCancels
      <4>1. at[c] = "idle"
        BY <2>4 DEF Begin
      <4>2. \A d \in Callers \ {c} : how'[d] = how[d]
        BY <2>3, <2>4 DEF Begin
      <4>. QED  BY <2>2, <4>1, <4>2
    <3>4. \A d \in Callers : at'[d] = "returned" => at[d] = "returned"
      BY <2>3, <2>4 DEF Begin
    <3>. QED  BY <2>1, <3>1, <3>2, <3>3, <3>4 DEF WaitInv
  <2>5. CASE Caller(c)
    <3>1. UNCHANGED how
      BY <2>5 DEF Caller, Cancel, Wait, CancelLowers, Check, Mark, DisposeCancels, DisposeSource,
                  DisposeTask, DisposeNode, DisposeLowers, Spin
    <3>2. /\ \A d \in Callers \ {c} : at'[d] = at[d]
          /\ at'[c] # "idle"
          /\ at'[c] \in {"cancel", "wait", "lower"} => at[c] \in {"cancel", "wait", "lower"}
      BY <2>3, <2>5 DEF Caller, Cancel, Wait, CancelLowers, Check, Mark, DisposeCancels,
                        DisposeSource, DisposeTask, DisposeNode, DisposeLowers, Spin
    <3>3. kind.guarded => at[c] # "flag" /\ at[c] # "node"
      BY DEF Inv, CallerInv
    <3>4. kind.guarded /\ NobodyCancels => UNCHANGED Running
      <4>1. at[c] \in {"lower", "flag"} \/ UNCHANGED Running
        BY <2>5 DEF Caller, Cancel, Wait, CancelLowers, Check, Mark, DisposeCancels,
                    DisposeSource, DisposeTask, DisposeNode, DisposeLowers, Spin
      <4>. QED  BY <2>2, <3>3, <4>1
    <3>5. kind.guarded /\ at'[c] = "returned" => ctor = "returned" /\ ~Running
      BY <2>3, <2>5, <3>3 DEF Inv, CallerInv, Caller, Cancel, Wait, CancelLowers, Check, Mark,
                  DisposeCancels, DisposeSource, DisposeTask, DisposeNode, DisposeLowers, Spin
    <3>6. kind.guarded => \A d \in Callers :
            at'[d] = "returned" => at[d] = "returned" \/ (ctor = "returned" /\ ~Running)
      BY <3>2, <3>5
    <3>7. \A d \in Callers : /\ at'[d] = "idle" => how'[d] = "none"
                             /\ at'[d] \in {"cancel", "wait", "lower"} => how'[d] = "Cancel"
      BY <2>2, <3>1, <3>2
    <3>. QED  BY <2>1, <3>1, <3>4, <3>6, <3>7 DEF WaitInv
  <2>. QED  BY <1>2, <2>4, <2>5
<1>. QED  BY <1>1, <1>2 DEF Next

\* The Dispose of the acceptor that set the flag, or one that overlapped with
\* it, returns only when the loop has ended, unless a Cancel has lowered the
\* flag it waits for; one that is turned away leaves another at work, or one
\* that has thrown.
THEOREM AcceptorWaits == Spec => []DisposeWaits
<1>1. Init => WaitInv
  BY DEF Init, WaitInv
<1>2. Inv /\ WaitInv => DisposeWaits
  <2>. SUFFICES ASSUME Inv, WaitInv, kind.guarded, NobodyCancels, NEW c \in Callers
                PROVE  /\ at[c] = "returned" => loop = "done"
                       /\ at[c] = "skipped" =>
                            \/ loop = "done"
                            \/ \E d \in Callers :
                                 at[d] \in {"token", "source", "task", "spin", "threw"}
    BY Zenon DEF DisposeWaits, NobodyCancels
  <2>1. \A d \in Callers : at[d] = "returned" => loop = "done"
    BY DEF WaitInv
  <2>2. at[c] = "skipped" => \E d \in Callers : at[d] \in AtWork
    BY DEF Inv, CallerInv
  <2>. QED  BY <2>1, <2>2 DEF AtWork
<1>. QED  BY <1>1, <1>2, NextWait, TypesInvariant, Invariance, PTL DEF Spec
=============================================================================
