---------------------------- MODULE Interceptors ----------------------------
(***************************************************************************)
(* The registry of HTLC interceptors of LNUnitBuilder: one handler per     *)
(* alias at most, attached by DelayAllHTLCsOnAlias, looked up by           *)
(* GetInterceptor and IsInterceptorActiveForAlias, cancelled by            *)
(* CancelInterceptorOnAlias and CancelAllInterceptors.                     *)
(*                                                                         *)
(* Calls overlap where the code waits: for a node to come back to the pool,*)
(* for the answer of one to GetInfo, in the constructor of a handler, in   *)
(* Cancel.  Every access of the dictionary is one step.  A handler is what *)
(* StreamHandler leaves of it: a stream and a cancellation source.         *)
(***************************************************************************)
EXTENDS FiniteSets, Naturals

CONSTANTS
  Callers,    \* asynchronous calls that can be under way at once
  Aliases,    \* names of LND nodes
  Handlers,   \* bound: handlers that have not been disposed at any moment
  Leaving,    \* bound: aliases whose nodes the pool may drop; any, in the code
  NoHandler, NoAlias

ASSUME HandlersAssumption == NoHandler \notin Handlers
ASSUME AliasesAssumption == NoAlias \notin Aliases

VARIABLES
  ready,     \* aliases found in ReadyNodes
  registry,  \* InterceptorHandlers
  stream,    \* stream[h]: "none" until the loop opens it, "open", "over"
  source,    \* source[h]: the CancellationTokenSource; "disposed" if unused
  op,        \* op[c]: the operation of a call
  alias,     \* alias[c]: its argument
  at,        \* at[c]: where it is
  hand,      \* hand[c]: the handler it works on
  todo,      \* todo[c]: handlers the foreach of CancelAllInterceptors has left
  stale,     \* stale[c]: something was added since that foreach began
  home,      \* history: the alias a handler that is not disposed was made for
  raced,     \* history: aliases for which a call that adds has met another
  clashed    \* history: a call that cancels has met another, or a user's Cancel

handler == <<stream, source, home>>
calls   == <<op, alias, at, hand, todo, stale>>
history == <<raced, clashed>>
vars    == <<ready, registry, handler, calls, history>>

Operations == {"Delay", "Get", "Cancel", "CancelAll"}

Init ==
  /\ ready = Aliases
  /\ registry = [a \in Aliases |-> NoHandler]
  /\ stream = [h \in Handlers |-> "over"]
  /\ source = [h \in Handlers |-> "disposed"]
  /\ op = [c \in Callers |-> "none"]
  /\ alias = [c \in Callers |-> NoAlias]
  /\ at = [c \in Callers |-> "idle"]
  /\ hand = [c \in Callers |-> NoHandler]
  /\ todo = [c \in Callers |-> {}]
  /\ stale = [c \in Callers |-> FALSE]
  /\ home = [h \in Handlers |-> NoAlias] /\ raced = {} /\ clashed = FALSE

Registered == {registry[a] : a \in Aliases} \ {NoHandler}
Held       == {hand[c] : c \in Callers} \ {NoHandler}

\* Handlers the program has not created, or has created and disposed.
Unused == {h \in Handlers : source[h] = "disposed"} \ (Registered \cup Held)

\* The constructor polls Running, which has fallen: it never returns.
Hung(c) == at[c] = "construct" /\ stream[hand[c]] = "over"

Busy(c) == at[c] # "idle" /\ ~Hung(c)

-----------------------------------------------------------------------------
(* Calls.                                                                  *)

\* A call that adds to the registry for an alias may lose a handler if another
\* adds or removes for that alias meanwhile.
Races(o, a, p, b) ==
  o = "Delay" /\ (p = "CancelAll" \/ (p \in {"Delay", "Cancel"} /\ a = b))

\* Calls that cancel are in each other's way, and CancelAllInterceptors is in
\* the way of one that adds.
Clashes(o, a, p, b) ==
  \/ o = "CancelAll" /\ p # "Get"
  \/ p = "CancelAll" /\ o # "Get"
  \/ o = "Cancel" /\ p = "Cancel" /\ a = b

\* Bound: a handler is left for every DelayAllHTLCsOnAlias that has begun.
Delaying == {c \in Callers : /\ op[c] = "Delay"
                             /\ at[c] \in {"check", "find", "clone", "silent"}}

\* CancelAllInterceptors has no argument.
Begin(c, o, a) ==
  /\ at[c] = "idle"
  /\ o = "CancelAll" <=> a = NoAlias
  /\ o = "Delay" => Cardinality(Delaying) < Cardinality(Unused)
  /\ op' = [op EXCEPT ![c] = o]
  /\ alias' = [alias EXCEPT ![c] = a]
  /\ at' = [at EXCEPT ![c] = CASE o = "Cancel" -> "index"
                               [] o = "CancelAll" -> "next"
                               [] OTHER -> "check"]
  /\ todo' = [todo EXCEPT ![c] = IF o = "CancelAll" THEN Registered ELSE {}]
  /\ stale' = [stale EXCEPT ![c] = FALSE]
  /\ raced' = raced
       \cup {x \in {a} : \E d \in Callers : Busy(d) /\ Races(o, a, op[d], alias[d])}
       \cup {alias[d] : d \in {e \in Callers : Busy(e) /\ Races(op[e], alias[e], o, a)}}
  /\ clashed' = (clashed \/ \E d \in Callers : Busy(d) /\ Clashes(o, a, op[d], alias[d]))
  /\ UNCHANGED <<ready, registry, handler, hand>>

Goto(c, label) ==
  /\ at' = [at EXCEPT ![c] = label]
  /\ UNCHANGED <<op, alias, todo, stale>>

\* The call ends, with or without an exception, and lets go of its handler.
End(c) ==
  /\ at' = [at EXCEPT ![c] = "idle"]
  /\ op' = [op EXCEPT ![c] = "none"]
  /\ alias' = [alias EXCEPT ![c] = NoAlias]
  /\ hand' = [hand EXCEPT ![c] = NoHandler]
  /\ todo' = [todo EXCEPT ![c] = {}]
  /\ stale' = [stale EXCEPT ![c] = FALSE]

\* ContainsKey: an alias that has an interceptor gets no second one, and one
\* without cannot be looked up.
Check(c) ==
  /\ at[c] = "check"
  /\ IF registry[alias[c]] = NoHandler <=> op[c] = "Delay"
     THEN Goto(c, "find") /\ UNCHANGED hand
     ELSE End(c)
  /\ UNCHANGED <<ready, registry, handler, history>>

\* GetNodeFromAlias polls ReadyNodes and has no other way out.
Find(c) ==
  /\ at[c] = "find" /\ alias[c] \in ready
  /\ Goto(c, IF op[c] = "Delay" THEN "clone" ELSE "index")
  /\ UNCHANGED <<ready, registry, handler, history, hand>>

\* The node answers GetInfo and the loop of a new handler is started, or it
\* refuses, or it does not answer, for which there is no deadline.
Clone(c) ==
  /\ at[c] = "clone"
  /\ \/ \E h \in Unused :
          /\ Goto(c, "construct")
          /\ hand' = [hand EXCEPT ![c] = h]
          /\ stream' = [stream EXCEPT ![h] = "none"]
          /\ source' = [source EXCEPT ![h] = "live"]
          /\ home' = [home EXCEPT ![h] = alias[c]]
     \/ End(c) /\ UNCHANGED handler
     \/ Goto(c, "silent") /\ UNCHANGED <<hand, handler>>
  /\ UNCHANGED <<ready, registry, history>>

\* The constructor has seen Running.
Constructed(c) ==
  /\ at[c] = "construct" /\ stream[hand[c]] = "open"
  /\ Goto(c, "add")
  /\ UNCHANGED <<ready, registry, handler, history, hand>>

\* Add throws if the key is there, and the new handler is nobody's; a foreach
\* under way will throw at its next element.
Add(c) ==
  /\ at[c] = "add"
  /\ at' = [at EXCEPT ![c] = "idle"]
  /\ op' = [op EXCEPT ![c] = "none"]
  /\ alias' = [alias EXCEPT ![c] = NoAlias]
  /\ hand' = [hand EXCEPT ![c] = NoHandler]
  /\ IF registry[alias[c]] = NoHandler
     THEN /\ registry' = [registry EXCEPT ![alias[c]] = hand[c]]
          /\ stale' = [d \in Callers |-> op[d] = "CancelAll"]
     ELSE UNCHANGED <<registry, stale>>
  /\ UNCHANGED <<ready, handler, history, todo>>

\* TryGetValue is retried until there is something to cancel.
IndexWaits(c) ==
  /\ at[c] = "index" /\ registry[alias[c]] # NoHandler
  /\ IF op[c] = "Cancel"
     THEN /\ Goto(c, "cancel")
          /\ hand' = [hand EXCEPT ![c] = registry[alias[c]]]
     ELSE End(c)
  /\ UNCHANGED <<ready, registry, handler, history>>

\* GetValueOrDefault instead of the indexer.
IndexDefaults(c) ==
  /\ at[c] = "index"
  /\ IF op[c] = "Cancel"
     THEN /\ Goto(c, "cancel")
          /\ hand' = [hand EXCEPT ![c] = registry[alias[c]]]
     ELSE End(c)
  /\ UNCHANGED <<ready, registry, handler, history>>

\* The indexer throws if the key is absent, which CancelInterceptorOnAlias
\* swallows.  Whoever was given a handler may cancel it himself.
Index(c) ==
  /\ at[c] = "index"
  /\ \/ /\ registry[alias[c]] # NoHandler
        /\ Goto(c, "cancel")
        /\ hand' = [hand EXCEPT ![c] = registry[alias[c]]]
        /\ IF op[c] = "Get" THEN clashed' = TRUE ELSE UNCHANGED clashed
     \/ /\ registry[alias[c]] # NoHandler
        /\ op[c] = "Get"
        /\ End(c) /\ UNCHANGED clashed
     \/ /\ registry[alias[c]] = NoHandler
        /\ End(c) /\ UNCHANGED clashed
  /\ UNCHANGED <<ready, registry, handler, raced>>

-----------------------------------------------------------------------------
(* Cancelling.                                                             *)

\* The token cuts the stream; a source that is disposed cannot be cancelled.
CancelToken(c) ==
  /\ at[c] = "cancel"
  /\ IF source[hand[c]] = "disposed"
     THEN End(c) /\ UNCHANGED handler
     ELSE /\ Goto(c, "wait") /\ UNCHANGED hand
          /\ source' = [source EXCEPT ![hand[c]] = "cancelled"]
          /\ stream' = [stream EXCEPT ![hand[c]] = "over"]
          /\ UNCHANGED home
  /\ UNCHANGED <<ready, registry, history>>

\* The key stays.
DisposeOnly(c) ==
  /\ at[c] = "wait"
  /\ source' = [source EXCEPT ![hand[c]] = "disposed"]
  /\ home' = [home EXCEPT ![hand[c]] = NoAlias]
  /\ IF op[c] = "CancelAll"
     THEN /\ Goto(c, "next")
          /\ hand' = [hand EXCEPT ![c] = NoHandler]
     ELSE End(c)
  /\ UNCHANGED <<ready, registry, stream, history>>

\* The rest of Cancel: the wait for _task, which always ends, and Dispose.
Dispose(c) ==
  /\ at[c] = "wait"
  /\ source' = [source EXCEPT ![hand[c]] = "disposed"]
  /\ home' = [home EXCEPT ![hand[c]] = NoAlias]
  /\ CASE op[c] = "Cancel" -> Goto(c, "remove") /\ UNCHANGED hand
       [] op[c] = "CancelAll" ->
            /\ Goto(c, "next")
            /\ hand' = [hand EXCEPT ![c] = NoHandler]
       [] OTHER -> End(c)
  /\ UNCHANGED <<ready, registry, stream, history>>

\* RemoveKey, whichever handler the key has by now.
Remove(c) ==
  /\ at[c] = "remove"
  /\ registry' = [registry EXCEPT ![alias[c]] = NoHandler]
  /\ End(c)
  /\ UNCHANGED <<ready, handler, history>>

\* The foreach is left at the first element.
ClearAtOnce(c) ==
  /\ at[c] = "next"
  /\ Goto(c, "clear") /\ UNCHANGED hand
  /\ UNCHANGED <<ready, registry, handler, history>>

\* The foreach: it throws after an Add and passes over what was removed.
Enumerate(c) ==
  /\ at[c] = "next"
  /\ \/ stale[c] /\ End(c)
     \/ /\ ~stale[c]
        /\ \E h \in todo[c] \cap Registered :
             /\ hand' = [hand EXCEPT ![c] = h]
             /\ todo' = [todo EXCEPT ![c] = todo[c] \ {h}]
             /\ at' = [at EXCEPT ![c] = "cancel"]
             /\ UNCHANGED <<op, alias, stale>>
     \/ /\ ~stale[c] /\ todo[c] \cap Registered = {}
        /\ Goto(c, "clear") /\ UNCHANGED hand
  /\ UNCHANGED <<ready, registry, handler, history>>

Clear(c) ==
  /\ at[c] = "clear"
  /\ registry' = [a \in Aliases |-> NoHandler]
  /\ End(c)
  /\ UNCHANGED <<ready, handler, history>>

Caller(c) == \/ Check(c) \/ Find(c) \/ Clone(c) \/ Constructed(c) \/ Add(c)
             \/ Index(c) \/ CancelToken(c) \/ Dispose(c) \/ Remove(c)
             \/ Enumerate(c) \/ Clear(c)

-----------------------------------------------------------------------------
(* The loops of the handlers, LND and the pool.                            *)

\* The loop opens the stream and raises Running.
Open(h) ==
  /\ stream[h] = "none"
  /\ stream' = [stream EXCEPT ![h] = "open"]
  /\ UNCHANGED <<ready, registry, source, home, calls, history>>

\* The stream breaks: the node stops, or has an interceptor already.
Break(h) ==
  /\ stream[h] = "open"
  /\ stream' = [stream EXCEPT ![h] = "over"]
  /\ UNCHANGED <<ready, registry, source, home, calls, history>>

\* A node that did not answer does so at last.
Answer(c) ==
  /\ at[c] = "silent"
  /\ Goto(c, "clone")
  /\ UNCHANGED <<ready, registry, handler, history, hand>>

\* The search of ReadyNodes throws as the pool's task changes the list under it.
FindThrows(c) ==
  /\ at[c] = "find"
  /\ End(c)
  /\ UNCHANGED <<ready, registry, handler, history>>

\* A node leaves ReadyNodes, or is found there again.
Membership(a) ==
  /\ a \in Leaving
  /\ ready' = IF a \in ready THEN ready \ {a} ELSE ready \cup {a}
  /\ UNCHANGED <<registry, handler, calls, history>>

Next == \/ \E c \in Callers :
             \/ Caller(c) \/ Answer(c) \/ FindThrows(c)
             \/ \E o \in Operations, a \in Aliases \cup {NoAlias} : Begin(c, o, a)
        \/ \E h \in Handlers : Open(h) \/ Break(h)
        \/ \E a \in Aliases : Membership(a)

Spec == Init /\ [][Next]_vars

\* The runtime runs every thread that can go on; LND and the pool owe nothing
\* and nobody is obliged to make a call.
FairSpec == /\ Spec
            /\ \A c \in Callers : WF_vars(Caller(c))
            /\ \A h \in Handlers : WF_vars(Open(h))

-----------------------------------------------------------------------------
(* Properties.                                                             *)

\* Labels at which a call has a handler in hand.
Holding == {"construct", "add", "cancel", "wait", "remove"}

TypeOK ==
  /\ ready \subseteq Aliases
  /\ registry \in [Aliases -> Handlers \cup {NoHandler}]
  /\ stream \in [Handlers -> {"none", "open", "over"}]
  /\ source \in [Handlers -> {"live", "cancelled", "disposed"}]
  /\ op \in [Callers -> Operations \cup {"none"}]
  /\ alias \in [Callers -> Aliases \cup {NoAlias}]
  /\ at \in [Callers -> {"idle", "check", "find", "clone", "silent", "index",
                         "next", "clear"} \cup Holding]
  /\ hand \in [Callers -> Handlers \cup {NoHandler}]
  /\ \A c \in Callers : hand[c] # NoHandler <=> at[c] \in Holding
  /\ todo \in [Callers -> SUBSET Handlers]
  /\ stale \in [Callers -> BOOLEAN]
  /\ home \in [Handlers -> Aliases \cup {NoAlias}]
  /\ raced \subseteq Aliases /\ clashed \in BOOLEAN

\* A handler that is not disposed keeps a stream and a connection.  However
\* calls overlap, and whatever users cancel themselves, it is in the registry or
\* in the hands of a call, where somebody can still end it, unless two calls of
\* DelayAllHTLCsOnAlias met for its very alias, or one met a call that cancels
\* there: a race on one alias, or between calls that only cancel, loses nothing.
NoneLost ==
  \A h \in Handlers :
    source[h] # "disposed" => h \in Registered \cup Held \/ home[h] \in raced

\* A call that cancels ends without an exception and leaves its alias, or every
\* alias, free for the next interceptor, so that the set-up of a test does not
\* fail because of the tests before it.  Calls may be under way that look up or
\* add for any alias; only a second call that cancels, a user who has cancelled
\* a handler himself and, for CancelAllInterceptors, an Add in its foreach leave
\* aliases registered.
CancelFrees ==
  [][~clashed => \A c \in Callers :
       at[c] # "idle" /\ at'[c] = "idle" =>
         /\ op[c] = "Cancel" => registry'[alias[c]] = NoHandler
         /\ op[c] = "CancelAll" => \A a \in Aliases : registry'[a] = NoHandler]_vars

\* However calls overlap, each one ends, unless its node is out of the pool or
\* does not answer, or its constructor has missed the stream.
CallsEnd ==
  \A c \in Callers :
    at[c] # "idle" ~> \/ at[c] \in {"idle", "silent"} \/ Hung(c)
                      \/ at[c] = "find" /\ alias[c] \notin ready
=============================================================================
