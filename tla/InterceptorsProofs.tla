------------------------- MODULE InterceptorsProofs -------------------------
(***************************************************************************)
(* Theorems about Interceptors, for any number of calls, aliases and       *)
(* handlers, and for whatever calls users make at the same time: the types,*)
(* when a handler can be lost, and when a call that cancels frees its      *)
(* alias.                                                                  *)
(***************************************************************************)
EXTENDS Interceptors, TLAPS

-----------------------------------------------------------------------------
(* The types, with the labels of each operation.                           *)

Labels == {"idle", "check", "find", "clone", "silent", "index", "next", "clear"}

LabelInv ==
  \A c \in Callers :
    /\ at[c] = "idle" <=> op[c] = "none"
    /\ op[c] \in {"Delay", "Get", "Cancel"} => alias[c] \in Aliases
    /\ at[c] \in {"check", "find"} => op[c] \in {"Delay", "Get"}
    /\ at[c] \in {"clone", "silent", "construct", "add"} => op[c] = "Delay"
    /\ at[c] = "index" => op[c] \in {"Get", "Cancel"}
    /\ at[c] = "remove" => op[c] = "Cancel"
    /\ at[c] \in {"next", "clear"} => op[c] = "CancelAll"
    /\ at[c] \in {"cancel", "wait"} => op[c] \in {"Get", "Cancel", "CancelAll"}

CallTypes ==
  /\ op \in [Callers -> Operations \cup {"none"}]
  /\ alias \in [Callers -> Aliases \cup {NoAlias}]
  /\ at \in [Callers -> Labels \cup Holding]
  /\ hand \in [Callers -> Handlers \cup {NoHandler}]
  /\ \A c \in Callers : hand[c] # NoHandler <=> at[c] \in Holding
  /\ todo \in [Callers -> SUBSET Handlers]
  /\ stale \in [Callers -> BOOLEAN]
  /\ LabelInv

RestTypes ==
  /\ ready \subseteq Aliases
  /\ registry \in [Aliases -> Handlers \cup {NoHandler}]
  /\ stream \in [Handlers -> {"none", "open", "over"}]
  /\ source \in [Handlers -> {"live", "cancelled", "disposed"}]
  /\ home \in [Handlers -> Aliases \cup {NoAlias}]
  /\ raced \subseteq Aliases
  /\ clashed \in BOOLEAN

TypeInv == CallTypes /\ RestTypes

-----------------------------------------------------------------------------
(* What holds however calls overlap.                                       *)

\* Calls that are in each other's way have been recorded.
OverlapInv ==
  \A c, d \in Callers :
    c # d /\ Busy(c) /\ Busy(d) =>
      /\ Races(op[c], alias[c], op[d], alias[d]) => alias[c] \in raced
      /\ Clashes(op[c], alias[c], op[d], alias[d]) => clashed

\* No handler has two keys.
OneKey ==
  \A a, b \in Aliases : registry[a] = registry[b] /\ registry[a] # NoHandler => a = b

\* A handler under construction is alive, and only its call knows it.
FreshInv ==
  \A c \in Callers :
    at[c] \in {"construct", "add"} =>
      /\ source[hand[c]] = "live" /\ home[hand[c]] = alias[c]
      /\ \A a \in Aliases : registry[a] # hand[c]
      /\ \A d \in Callers : at[d] \in Holding /\ d # c => hand[d] # hand[c]

\* A handler that is not disposed has no key but that of the alias it is for.
HomeInv ==
  \A a \in Aliases :
    registry[a] # NoHandler /\ source[registry[a]] # "disposed" => home[registry[a]] = a

\* A call that is to add and finds the key taken has met the one that added.
AddInv ==
  \A c \in Callers :
    op[c] = "Delay" /\ at[c] # "check" /\ Busy(c) /\ registry[alias[c]] # NoHandler =>
      alias[c] \in raced

\* A call that is to remove a key and finds another handler there has met the
\* one that added it.
FoundInv ==
  \A c \in Callers :
    /\ at[c] \in {"cancel", "wait", "remove"} /\ op[c] = "Cancel" =>
         registry[alias[c]] \in {hand[c], NoHandler} \/ alias[c] \in raced
    /\ at[c] = "remove" => source[hand[c]] = "disposed"

\* CancelAllInterceptors has every handler that has a key in front of it, in
\* hand or behind it, or has met the call that added it.
ClearInv ==
  \A c \in Callers :
    op[c] = "CancelAll" =>
      \A a \in Aliases :
        registry[a] # NoHandler =>
          \/ registry[a] \in todo[c] /\ at[c] # "clear"
          \/ registry[a] = hand[c]
          \/ source[registry[a]] = "disposed"
          \/ a \in raced

KeyInv == /\ OneKey /\ FreshInv /\ HomeInv /\ AddInv /\ FoundInv /\ ClearInv
          /\ NoneLost

-----------------------------------------------------------------------------
(* What holds as long as calls that cancel have not met.                   *)

\* A handler that is being cancelled has the key it was found under, and is not
\* disposed until the cancelling call has done so.
CancelInv ==
  \A c \in Callers :
    /\ at[c] \in {"cancel", "wait"} => op[c] # "Get"
    /\ at[c] = "cancel" => source[hand[c]] # "disposed"
    /\ at[c] \in {"cancel", "wait", "remove"} /\ op[c] = "Cancel" =>
         registry[alias[c]] = hand[c]
    /\ op[c] = "CancelAll" => ~stale[c] /\ hand[c] \notin todo[c]

\* A handler that is disposed and still has a key is about to lose it.
DisposedInv ==
  \A a \in Aliases :
    registry[a] # NoHandler /\ source[registry[a]] = "disposed" =>
      \E c \in Callers : \/ at[c] = "remove" /\ alias[c] = a
                         \/ op[c] = "CancelAll" /\ registry[a] \notin todo[c]

QuietInv == ~clashed => CancelInv /\ DisposedInv

IInv == TypeInv /\ OverlapInv /\ KeyInv /\ QuietInv

-----------------------------------------------------------------------------
(* The types.                                                              *)

LEMMA InitTypes == Init => TypeInv
<1>. SUFFICES ASSUME Init PROVE TypeInv
  OBVIOUS
<1>1. CallTypes
  <2>1. LabelInv /\ \A c \in Callers : hand[c] # NoHandler <=> at[c] \in Holding
    BY DEF Init, LabelInv, Holding
  <2>. QED  BY <2>1 DEF Init, CallTypes, Operations, Labels
<1>2. clashed \in BOOLEAN
  BY Zenon DEF Init
<1>. QED  BY <1>1, <1>2 DEF Init, TypeInv, RestTypes

\* A call that ends is idle, with nothing in hand.
LEMMA EndTypes ==
  ASSUME CallTypes, NEW c \in Callers, End(c)
  PROVE  CallTypes'
<1>. USE DEF CallTypes, LabelInv, End, Operations, Holding, Labels
<1>1. \A d \in Callers : hand'[d] # NoHandler <=> at'[d] \in Holding
  OBVIOUS
<1>2. LabelInv'
  OBVIOUS
<1>. QED  BY <1>1, <1>2

\* One that goes on to another label keeps its operation and its alias.
LEMMA GotoTypes ==
  ASSUME CallTypes, NEW c \in Callers, NEW l, Goto(c, l),
         l \in {"find", "clone", "silent", "construct", "add", "index", "next", "cancel",
               "wait", "remove", "clear"},
         l = "find" => op[c] \in {"Delay", "Get"},
         l \in {"clone", "silent", "construct", "add"} => op[c] = "Delay",
         l = "index" => op[c] \in {"Get", "Cancel"},
         l = "remove" => op[c] = "Cancel",
         l \in {"next", "clear"} => op[c] = "CancelAll",
         l \in {"cancel", "wait"} => op[c] \in {"Get", "Cancel", "CancelAll"},
         at[c] # "idle",
         hand' \in [Callers -> Handlers \cup {NoHandler}],
         hand'[c] # NoHandler <=> l \in Holding,
         \A d \in Callers \ {c} : hand'[d] = hand[d]
  PROVE  CallTypes'
<1>. USE DEF CallTypes, LabelInv, Goto, Operations, Labels
<1>1. \A d \in Callers : hand'[d] # NoHandler <=> at'[d] \in Holding
  BY DEF Holding
<1>2. LabelInv'
  OBVIOUS
<1>. QED  BY <1>1, <1>2 DEF Holding

LEMMA NextTypes == TypeInv /\ [Next]_vars => TypeInv'
<1>. SUFFICES ASSUME TypeInv, [Next]_vars PROVE TypeInv'
  OBVIOUS
<1>. USE HandlersAssumption, AliasesAssumption, EndTypes DEF TypeInv
<1>1. ASSUME NEW c \in Callers, NEW o \in Operations, NEW a \in Aliases \cup {NoAlias},
             Begin(c, o, a)
      PROVE  TypeInv'
  <2>1. CallTypes'
    BY <1>1 DEF Begin, Registered, LabelInv, Operations, Holding, Labels, CallTypes, RestTypes
  <2>2. raced' \subseteq Aliases
    <3>1. ASSUME NEW d \in Callers, Busy(d), op[d] = "Delay" PROVE alias[d] \in Aliases
      BY <3>1 DEF CallTypes, LabelInv
    <3>2. o = "Delay" => a \in Aliases
      BY <1>1 DEF Begin
    <3>. QED  BY <1>1, <3>1, <3>2 DEF Begin, Races, RestTypes
  <2>3. clashed' \in BOOLEAN
    BY <1>1, Zenon DEF Begin
  <2>. QED  BY <1>1, <2>1, <2>2, <2>3 DEF Begin, handler, RestTypes
<1>2. ASSUME NEW c \in Callers, Check(c) PROVE TypeInv'
  <2>1. CallTypes'
    <3>1. CASE Goto(c, "find") /\ UNCHANGED hand
      BY <1>2, <3>1, GotoTypes DEF Check, CallTypes, LabelInv, Holding
    <3>. QED  BY <1>2, <3>1 DEF Check
  <2>. QED  BY <1>2, <2>1 DEF Check, handler, history, RestTypes
<1>3. ASSUME NEW c \in Callers, Find(c) PROVE TypeInv'
  <2>1. CallTypes'
    BY <1>3 DEF Find, Goto, CallTypes, LabelInv, Operations, Holding, Labels
  <2>. QED  BY <1>3, <2>1 DEF Find, handler, history, RestTypes
<1>4. ASSUME NEW c \in Callers, Clone(c) PROVE TypeInv'
  <2>1. ASSUME NEW h \in Unused, Goto(c, "construct"), hand' = [hand EXCEPT ![c] = h],
               stream' = [stream EXCEPT ![h] = "none"], source' = [source EXCEPT ![h] = "live"],
               home' = [home EXCEPT ![h] = alias[c]]
        PROVE  TypeInv'
    <3>1. CallTypes'
      BY <1>4, <2>1, GotoTypes DEF Clone, Unused, CallTypes, LabelInv, Holding
    <3>. QED  BY <1>4, <2>1, <3>1 DEF Clone, history, CallTypes, RestTypes
  <2>2. CASE End(c) /\ UNCHANGED handler
    BY <1>4, <2>2 DEF Clone, handler, history, RestTypes
  <2>3. CASE Goto(c, "silent") /\ UNCHANGED <<hand, handler>>
    <3>1. CallTypes'
      BY <1>4, <2>3, GotoTypes DEF Clone, CallTypes, LabelInv, Holding
    <3>. QED  BY <1>4, <2>3, <3>1 DEF Clone, handler, history, RestTypes
  <2>. QED  BY <1>4, <2>1, <2>2, <2>3 DEF Clone
<1>5. ASSUME NEW c \in Callers, Constructed(c) PROVE TypeInv'
  <2>1. CallTypes'
    BY <1>5 DEF Constructed, Goto, CallTypes, LabelInv, Operations, Holding, Labels
  <2>. QED  BY <1>5, <2>1 DEF Constructed, handler, history, RestTypes
<1>6. ASSUME NEW c \in Callers, Add(c) PROVE TypeInv'
  <2>1. LabelInv' /\ \A d \in Callers : hand'[d] # NoHandler <=> at'[d] \in Holding
    BY <1>6 DEF Add, LabelInv, Holding, CallTypes, Labels
  <2>2. registry' \in [Aliases -> Handlers \cup {NoHandler}]
    BY <1>6 DEF Add, LabelInv, Holding, CallTypes, RestTypes
  <2>3. stale' \in [Callers -> BOOLEAN]
    <3>1. [d \in Callers |-> op[d] = "CancelAll"] \in [Callers -> BOOLEAN]
      BY Zenon
    <3>. QED  BY <1>6, <3>1 DEF Add, CallTypes
  <2>4. UNCHANGED <<ready, stream, source, home, todo, raced, clashed>>
    BY <1>6 DEF Add, handler, history
  <2>5. /\ op' \in [Callers -> Operations \cup {"none"}]
        /\ alias' \in [Callers -> Aliases \cup {NoAlias}]
        /\ at' \in [Callers -> Labels \cup Holding]
        /\ hand' \in [Callers -> Handlers \cup {NoHandler}]
    BY <1>6 DEF Add, Holding, Operations, Labels, CallTypes
  <2>. QED  BY <2>1, <2>2, <2>3, <2>4, <2>5 DEF CallTypes, RestTypes
<1>7. ASSUME NEW c \in Callers, Index(c) PROVE TypeInv'
  <2>1. CallTypes'
    <3>1. CASE /\ registry[alias[c]] # NoHandler
               /\ Goto(c, "cancel")
               /\ hand' = [hand EXCEPT ![c] = registry[alias[c]]]
      <4>1. registry[alias[c]] \in Handlers
        BY <1>7, <3>1 DEF Index, LabelInv, CallTypes, RestTypes
      <4>. QED  BY <1>7, <3>1, <4>1, GotoTypes DEF Index, LabelInv, Holding, CallTypes
    <3>. QED  BY <1>7, <3>1 DEF Index
  <2>2. clashed' \in BOOLEAN
    <3>1. clashed' = clashed \/ clashed' = TRUE
      BY <1>7 DEF Index
    <3>. QED  BY <3>1, Zenon DEF RestTypes
  <2>. QED  BY <1>7, <2>1, <2>2 DEF Index, handler, RestTypes
<1>8. ASSUME NEW c \in Callers, CancelToken(c) PROVE TypeInv'
  <2>1. CallTypes'
    <3>1. CASE Goto(c, "wait") /\ UNCHANGED hand
      BY <1>8, <3>1, GotoTypes DEF CancelToken, LabelInv, Holding, CallTypes
    <3>. QED  BY <1>8, <3>1 DEF CancelToken
  <2>. QED  BY <1>8, <2>1 DEF CancelToken, handler, history, RestTypes, CallTypes, Holding
<1>9. ASSUME NEW c \in Callers, Dispose(c) PROVE TypeInv'
  <2>1. CallTypes'
    <3>1. CASE op[c] = "Cancel" /\ Goto(c, "remove") /\ UNCHANGED hand
      BY <1>9, <3>1, GotoTypes DEF Dispose, LabelInv, Holding, CallTypes
    <3>2. CASE op[c] = "CancelAll" /\ Goto(c, "next") /\ hand' = [hand EXCEPT ![c] = NoHandler]
      BY <1>9, <3>2, GotoTypes DEF Dispose, LabelInv, Holding, CallTypes
    <3>. QED  BY <1>9, <3>1, <3>2 DEF Dispose
  <2>. QED  BY <1>9, <2>1 DEF Dispose, history, RestTypes, CallTypes, Holding
<1>10. ASSUME NEW c \in Callers, Remove(c) PROVE TypeInv'
  BY <1>10 DEF Remove, handler, history, RestTypes
<1>11. ASSUME NEW c \in Callers, Enumerate(c) PROVE TypeInv'
  <2>1. CallTypes'
    <3>1. ASSUME NEW h \in todo[c] \cap Registered,
                 hand' = [hand EXCEPT ![c] = h], todo' = [todo EXCEPT ![c] = todo[c] \ {h}],
                 at' = [at EXCEPT ![c] = "cancel"], UNCHANGED <<op, alias, stale>>
          PROVE  CallTypes'
      BY <1>11, <3>1 DEF Enumerate, LabelInv, Holding, CallTypes, Labels
    <3>2. CASE Goto(c, "clear") /\ UNCHANGED hand
      BY <1>11, <3>2, GotoTypes DEF Enumerate, LabelInv, Holding, CallTypes
    <3>. QED  BY <1>11, <3>1, <3>2 DEF Enumerate
  <2>. QED  BY <1>11, <2>1 DEF Enumerate, handler, history, RestTypes
<1>12. ASSUME NEW c \in Callers, Clear(c) PROVE TypeInv'
  BY <1>12 DEF Clear, handler, history, RestTypes
<1>13. ASSUME NEW h \in Handlers, Open(h) \/ Break(h) PROVE TypeInv'
  BY <1>13 DEF Open, Break, calls, history, LabelInv, CallTypes, RestTypes
<1>14. ASSUME NEW a \in Aliases, Membership(a) PROVE TypeInv'
  BY <1>14 DEF Membership, handler, calls, history, LabelInv, CallTypes, RestTypes
<1>15. ASSUME NEW c \in Callers, Answer(c) PROVE TypeInv'
  <2>1. CallTypes'
    BY <1>15, GotoTypes DEF Answer, LabelInv, Holding, CallTypes
  <2>. QED  BY <1>15, <2>1 DEF Answer, handler, history, RestTypes
<1>16. ASSUME NEW c \in Callers, FindThrows(c) PROVE TypeInv'
  BY <1>16 DEF FindThrows, handler, history, RestTypes
<1>17. CASE UNCHANGED vars
  BY <1>17 DEF vars, handler, calls, history, LabelInv, CallTypes, RestTypes
<1>. QED
  BY <1>1, <1>2, <1>3, <1>4, <1>5, <1>6, <1>7, <1>8, <1>9, <1>10, <1>11, <1>12, <1>13,
     <1>14, <1>15, <1>16, <1>17 DEF Next, Caller

\* Every variable has its type: whatever a call picks out of the registry or of
\* a foreach under way is a handler, and it has one in hand exactly at the
\* labels where the code holds one.
THEOREM TypeCorrect == Spec => []TypeOK
<1>1. TypeInv => TypeOK
  BY DEF TypeInv, CallTypes, RestTypes, TypeOK, Labels
<1>. QED
  BY InitTypes, NextTypes, <1>1, PTL DEF Spec

-----------------------------------------------------------------------------
(* Calls that are in each other's way have been recorded.                  *)

\* No step but Begin makes a call busy, or changes what a busy call is about.
LEMMA OnlyBeginMakesBusy ==
  ASSUME TypeInv, NEW d \in Callers, Busy(d)',
         \/ \E c \in Callers : Caller(c) \/ Answer(c) \/ FindThrows(c)
         \/ \E h \in Handlers : Open(h) \/ Break(h)
         \/ \E a \in Aliases : Membership(a)
         \/ UNCHANGED vars
  PROVE  Busy(d) /\ op'[d] = op[d] /\ alias'[d] = alias[d]
<1>. USE DEF TypeInv, CallTypes, RestTypes, Busy, Hung, Holding, Labels
<1>1. ASSUME NEW c \in Callers, Check(c)
      PROVE  Busy(d) /\ op'[d] = op[d] /\ alias'[d] = alias[d]
  BY <1>1 DEF Check, Goto, End, handler
<1>2. ASSUME NEW c \in Callers, Find(c)
      PROVE  Busy(d) /\ op'[d] = op[d] /\ alias'[d] = alias[d]
  BY <1>2 DEF Find, Goto, handler
<1>3. ASSUME NEW c \in Callers, Clone(c)
      PROVE  Busy(d) /\ op'[d] = op[d] /\ alias'[d] = alias[d]
  BY <1>3 DEF Clone, Goto, End, handler, Unused, Held, Holding
<1>4. ASSUME NEW c \in Callers, Constructed(c)
      PROVE  Busy(d) /\ op'[d] = op[d] /\ alias'[d] = alias[d]
  BY <1>4 DEF Constructed, Goto, handler
<1>5. ASSUME NEW c \in Callers, Add(c)
      PROVE  Busy(d) /\ op'[d] = op[d] /\ alias'[d] = alias[d]
  BY <1>5 DEF Add, handler
<1>6. ASSUME NEW c \in Callers, Index(c)
      PROVE  Busy(d) /\ op'[d] = op[d] /\ alias'[d] = alias[d]
  BY <1>6 DEF Index, Goto, End, handler
<1>7. ASSUME NEW c \in Callers, CancelToken(c)
      PROVE  Busy(d) /\ op'[d] = op[d] /\ alias'[d] = alias[d]
  BY <1>7 DEF CancelToken, Goto, End, handler
<1>8. ASSUME NEW c \in Callers, Dispose(c)
      PROVE  Busy(d) /\ op'[d] = op[d] /\ alias'[d] = alias[d]
  BY <1>8 DEF Dispose, Goto, End, handler
<1>9. ASSUME NEW c \in Callers, Remove(c)
      PROVE  Busy(d) /\ op'[d] = op[d] /\ alias'[d] = alias[d]
  BY <1>9 DEF Remove, End, handler
<1>10. ASSUME NEW c \in Callers, Enumerate(c)
      PROVE  Busy(d) /\ op'[d] = op[d] /\ alias'[d] = alias[d]
  BY <1>10 DEF Enumerate, Goto, End, handler
<1>11. ASSUME NEW c \in Callers, Clear(c)
      PROVE  Busy(d) /\ op'[d] = op[d] /\ alias'[d] = alias[d]
  BY <1>11 DEF Clear, End, handler
<1>12. ASSUME NEW c \in Callers, Answer(c)
      PROVE  Busy(d) /\ op'[d] = op[d] /\ alias'[d] = alias[d]
  BY <1>12 DEF Answer, Goto, handler
<1>13. ASSUME NEW c \in Callers, FindThrows(c)
      PROVE  Busy(d) /\ op'[d] = op[d] /\ alias'[d] = alias[d]
  BY <1>13 DEF FindThrows, End, handler
<1>14. ASSUME NEW h \in Handlers, Open(h) \/ Break(h)
      PROVE  Busy(d) /\ op'[d] = op[d] /\ alias'[d] = alias[d]
  BY <1>14 DEF Open, Break, calls
<1>15. ASSUME NEW a \in Aliases, Membership(a)
      PROVE  Busy(d) /\ op'[d] = op[d] /\ alias'[d] = alias[d]
  BY <1>15 DEF Membership, handler, calls
<1>16. CASE UNCHANGED vars
  BY <1>16 DEF vars, handler, calls
<1>. QED
  BY <1>1, <1>2, <1>3, <1>4, <1>5, <1>6, <1>7, <1>8, <1>9, <1>10, <1>11, <1>12, <1>13, <1>14, <1>15, <1>16 DEF Caller

\* What has been recorded stays recorded.
LEMMA HistoryGrows == TypeInv /\ [Next]_vars => raced \subseteq raced' /\ (clashed => clashed')
<1>. SUFFICES ASSUME TypeInv, [Next]_vars PROVE raced \subseteq raced' /\ (clashed => clashed')
  OBVIOUS
<1>1. ASSUME NEW c \in Callers, Caller(c) \/ Answer(c) \/ FindThrows(c)
      PROVE  raced' = raced /\ (clashed => clashed')
  <2>1. CASE Index(c)
    BY <2>1 DEF Index
  <2>2. CASE ~Index(c)
    BY <1>1, <2>2 DEF Caller, Check, Find, Clone, Constructed, Add, CancelToken, Dispose, Remove,
       Enumerate, Clear, Answer, FindThrows, history
  <2>. QED  BY <2>1, <2>2
<1>2. CASE \E c \in Callers : \E o \in Operations, a \in Aliases \cup {NoAlias} : Begin(c, o, a)
  BY <1>2 DEF Begin
<1>3. CASE ~(\/ \E c \in Callers : Caller(c) \/ Answer(c) \/ FindThrows(c)
            \/ \E c \in Callers : \E o \in Operations, a \in Aliases \cup {NoAlias} : Begin(c, o, a))
  BY <1>3 DEF Next, Open, Break, Membership, history, vars
<1>. QED  BY <1>1, <1>2, <1>3

LEMMA NextOverlap == TypeInv /\ OverlapInv /\ [Next]_vars => OverlapInv'
<1>. SUFFICES ASSUME TypeInv, OverlapInv, [Next]_vars PROVE OverlapInv'
  OBVIOUS
<1>1. raced \subseteq raced' /\ (clashed => clashed')
  BY HistoryGrows
<1>2. ASSUME NEW c \in Callers, NEW o \in Operations, NEW a \in Aliases \cup {NoAlias}, Begin(c, o, a)
      PROVE  OverlapInv'
  <2>1. \A d \in Callers \ {c} : (Busy(d)' <=> Busy(d)) /\ op'[d] = op[d] /\ alias'[d] = alias[d]
    BY <1>2 DEF Begin, handler, Busy, Hung, TypeInv, CallTypes
  <2>2. op'[c] = o /\ alias'[c] = a
    BY <1>2 DEF Begin, TypeInv, CallTypes
  <2>3. \A d \in Callers : Busy(d) =>
          /\ Races(o, a, op[d], alias[d]) => a \in raced'
          /\ Races(op[d], alias[d], o, a) => alias[d] \in raced'
    BY <1>2 DEF Begin
  <2>4. \A d \in Callers : Busy(d) =>
          /\ Clashes(o, a, op[d], alias[d]) => clashed'
          /\ Clashes(op[d], alias[d], o, a) => clashed'
    <3>1. \A d \in Callers : Busy(d) /\ Clashes(o, a, op[d], alias[d]) => clashed'
      BY <1>2, Zenon DEF Begin
    <3>2. \A d \in Callers : Clashes(op[d], alias[d], o, a) => Clashes(o, a, op[d], alias[d])
      BY DEF Clashes
    <3>. QED  BY <3>1, <3>2
  <2>. QED  BY <1>1, <2>1, <2>2, <2>3, <2>4 DEF OverlapInv
<1>3. CASE ~\E c \in Callers : \E o \in Operations, a \in Aliases \cup {NoAlias} : Begin(c, o, a)
  <2>1. \A d \in Callers : Busy(d)' => Busy(d) /\ op'[d] = op[d] /\ alias'[d] = alias[d]
    BY <1>3, OnlyBeginMakesBusy DEF Next
  <2>. QED  BY <1>1, <2>1 DEF OverlapInv
<1>. QED  BY <1>2, <1>3

-----------------------------------------------------------------------------
(* The keys and the handlers, step by step.                                *)

\* A call that goes on has found its key free, or there.
LEMMA CheckKeeps ==
  ASSUME TypeInv, OverlapInv, KeyInv, NEW c \in Callers, Check(c)
  PROVE  KeyInv'
<1>. USE HandlersAssumption DEF TypeInv, CallTypes, RestTypes, LabelInv, Holding, Busy, Hung
<1>1. OneKey'
  BY DEF KeyInv, Check, Goto, End, handler, history, OneKey
<1>2. FreshInv'
  BY DEF KeyInv, Check, Goto, End, handler, history, FreshInv
<1>3. HomeInv'
  BY DEF KeyInv, Check, Goto, End, handler, history, HomeInv
<1>4. AddInv'
  BY DEF KeyInv, Check, Goto, End, handler, history, AddInv
<1>5. FoundInv'
  BY DEF KeyInv, Check, Goto, End, handler, history, FoundInv
<1>6. ClearInv'
  BY DEF KeyInv, Check, Goto, End, handler, history, ClearInv
<1>7. NoneLost'
  BY DEF KeyInv, Check, Goto, End, handler, history, NoneLost, Held, Registered
<1>. QED  BY <1>1, <1>2, <1>3, <1>4, <1>5, <1>6, <1>7 DEF KeyInv

\* The wait for the node touches nothing.
LEMMA FindKeeps ==
  ASSUME TypeInv, OverlapInv, KeyInv, NEW c \in Callers, Find(c)
  PROVE  KeyInv'
<1>. USE HandlersAssumption DEF TypeInv, CallTypes, RestTypes, LabelInv, Holding, Busy, Hung
<1>1. OneKey'
  BY DEF KeyInv, Find, Goto, handler, history, OneKey
<1>2. FreshInv'
  BY DEF KeyInv, Find, Goto, handler, history, FreshInv
<1>3. HomeInv'
  BY DEF KeyInv, Find, Goto, handler, history, HomeInv
<1>4. AddInv'
  BY DEF KeyInv, Find, Goto, handler, history, AddInv
<1>5. FoundInv'
  BY DEF KeyInv, Find, Goto, handler, history, FoundInv
<1>6. ClearInv'
  BY DEF KeyInv, Find, Goto, handler, history, ClearInv
<1>7. NoneLost'
  BY DEF KeyInv, Find, Goto, handler, history, NoneLost, Held, Registered
<1>. QED  BY <1>1, <1>2, <1>3, <1>4, <1>5, <1>6, <1>7 DEF KeyInv

\* The new handler was unused, so that no key and no hand has it.
LEMMA CloneKeeps ==
  ASSUME TypeInv, OverlapInv, KeyInv, NEW c \in Callers, Clone(c)
  PROVE  KeyInv'
<1>. USE HandlersAssumption DEF TypeInv, CallTypes, RestTypes, LabelInv, Holding, Busy, Hung
<1>1. OneKey'
  BY DEF KeyInv, Clone, Goto, End, handler, history, OneKey, Unused, Held, Registered
<1>2. FreshInv'
  BY DEF KeyInv, Clone, Goto, End, handler, history, FreshInv, Unused, Held, Registered
<1>3. HomeInv'
  BY DEF KeyInv, Clone, Goto, End, handler, history, HomeInv, Unused, Held, Registered
<1>4. AddInv'
  BY DEF KeyInv, Clone, Goto, End, handler, history, AddInv, Unused, Held, Registered
<1>5. FoundInv'
  BY DEF KeyInv, Clone, Goto, End, handler, history, FoundInv, Unused, Held, Registered
<1>6. ClearInv'
  BY DEF KeyInv, Clone, Goto, End, handler, history, ClearInv, Unused, Held, Registered
<1>7. NoneLost'
  BY DEF KeyInv, Clone, Goto, End, handler, history, NoneLost, Held, Registered, Unused
<1>. QED  BY <1>1, <1>2, <1>3, <1>4, <1>5, <1>6, <1>7 DEF KeyInv

\* The constructor returns.
LEMMA ConstructedKeeps ==
  ASSUME TypeInv, OverlapInv, KeyInv, NEW c \in Callers, Constructed(c)
  PROVE  KeyInv'
<1>. USE HandlersAssumption DEF TypeInv, CallTypes, RestTypes, LabelInv, Holding, Busy, Hung
<1>1. OneKey'
  BY DEF KeyInv, Constructed, Goto, handler, history, OneKey
<1>2. FreshInv'
  BY DEF KeyInv, Constructed, Goto, handler, history, FreshInv
<1>3. HomeInv'
  BY DEF KeyInv, Constructed, Goto, handler, history, HomeInv
<1>4. AddInv'
  BY DEF KeyInv, Constructed, Goto, handler, history, AddInv
<1>5. FoundInv'
  BY DEF KeyInv, Constructed, Goto, handler, history, FoundInv
<1>6. ClearInv'
  BY DEF KeyInv, Constructed, Goto, handler, history, ClearInv
<1>7. NoneLost'
  BY DEF KeyInv, Constructed, Goto, handler, history, NoneLost, Held, Registered
<1>. QED  BY <1>1, <1>2, <1>3, <1>4, <1>5, <1>6, <1>7 DEF KeyInv

\* A handler that finds its key taken is lost: its call has met the one that
\* took it.  One that does not goes from the hand to the registry, and whoever
\* is about to remove that key or all keys has met this call.
LEMMA AddKeeps ==
  ASSUME TypeInv, OverlapInv, KeyInv, NEW c \in Callers, Add(c)
  PROVE  KeyInv'
<1>. USE HandlersAssumption DEF TypeInv, CallTypes, RestTypes, LabelInv, Holding, Busy, Hung
<1>1. OneKey'
  BY DEF KeyInv, Add, handler, history, OneKey, FreshInv
<1>2. FreshInv'
  BY DEF KeyInv, Add, handler, history, FreshInv
<1>3. HomeInv'
  BY DEF KeyInv, Add, handler, history, HomeInv, FreshInv
<1>4. AddInv'
  BY DEF KeyInv, Add, handler, history, AddInv, OverlapInv, Races
<1>5. FoundInv'
  BY DEF KeyInv, Add, handler, history, FoundInv, OverlapInv, Races
<1>6. ClearInv'
  BY DEF KeyInv, Add, handler, history, ClearInv, OverlapInv, Races
<1>7. NoneLost'
  BY DEF KeyInv, Add, handler, history, NoneLost, Held, Registered, FreshInv, AddInv
<1>. QED  BY <1>1, <1>2, <1>3, <1>4, <1>5, <1>6, <1>7 DEF KeyInv

\* What is found has its key, and no call has it under construction.
LEMMA IndexKeeps ==
  ASSUME TypeInv, OverlapInv, KeyInv, NEW c \in Callers, Index(c)
  PROVE  KeyInv'
<1>. USE HandlersAssumption DEF TypeInv, CallTypes, RestTypes, LabelInv, Holding, Busy, Hung
<1>1. OneKey'
  BY DEF KeyInv, Index, Goto, End, handler, history, OneKey
<1>2. FreshInv'
  BY DEF KeyInv, Index, Goto, End, handler, history, FreshInv
<1>3. HomeInv'
  BY DEF KeyInv, Index, Goto, End, handler, history, HomeInv
<1>4. AddInv'
  BY DEF KeyInv, Index, Goto, End, handler, history, AddInv
<1>5. FoundInv'
  BY DEF KeyInv, Index, Goto, End, handler, history, FoundInv
<1>6. ClearInv'
  BY DEF KeyInv, Index, Goto, End, handler, history, ClearInv
<1>7. NoneLost'
  BY DEF KeyInv, Index, Goto, End, handler, history, NoneLost, Held, Registered
<1>. QED  BY <1>1, <1>2, <1>3, <1>4, <1>5, <1>6, <1>7 DEF KeyInv

\* The source is cancelled, or was disposed before.
LEMMA CancelTokenKeeps ==
  ASSUME TypeInv, OverlapInv, KeyInv, NEW c \in Callers, CancelToken(c)
  PROVE  KeyInv'
<1>. USE HandlersAssumption DEF TypeInv, CallTypes, RestTypes, LabelInv, Holding, Busy, Hung
<1>1. OneKey'
  BY DEF KeyInv, CancelToken, Goto, End, handler, history, OneKey
<1>2. FreshInv'
  BY DEF KeyInv, CancelToken, Goto, End, handler, history, FreshInv
<1>3. HomeInv'
  BY DEF KeyInv, CancelToken, Goto, End, handler, history, HomeInv
<1>4. AddInv'
  BY DEF KeyInv, CancelToken, Goto, End, handler, history, AddInv
<1>5. FoundInv'
  BY DEF KeyInv, CancelToken, Goto, End, handler, history, FoundInv
<1>6. ClearInv'
  BY DEF KeyInv, CancelToken, Goto, End, handler, history, ClearInv
<1>7. NoneLost'
  BY DEF KeyInv, CancelToken, Goto, End, handler, history, NoneLost, Held, Registered
<1>. QED  BY <1>1, <1>2, <1>3, <1>4, <1>5, <1>6, <1>7 DEF KeyInv

\* The handler is disposed, so that nothing is lost with its key.
LEMMA DisposeKeeps ==
  ASSUME TypeInv, OverlapInv, KeyInv, NEW c \in Callers, Dispose(c)
  PROVE  KeyInv'
<1>. USE HandlersAssumption DEF TypeInv, CallTypes, RestTypes, LabelInv, Holding, Busy, Hung
<1>1. OneKey'
  BY DEF KeyInv, Dispose, Goto, End, handler, history, OneKey
<1>2. FreshInv'
  BY DEF KeyInv, Dispose, Goto, End, handler, history, FreshInv
<1>3. HomeInv'
  BY DEF KeyInv, Dispose, Goto, End, handler, history, HomeInv
<1>4. AddInv'
  BY DEF KeyInv, Dispose, Goto, End, handler, history, AddInv
<1>5. FoundInv'
  BY DEF KeyInv, Dispose, Goto, End, handler, history, FoundInv
<1>6. ClearInv'
  BY DEF KeyInv, Dispose, Goto, End, handler, history, ClearInv
<1>7. NoneLost'
  BY DEF KeyInv, Dispose, Goto, End, handler, history, NoneLost, Held, Registered
<1>. QED  BY <1>1, <1>2, <1>3, <1>4, <1>5, <1>6, <1>7 DEF KeyInv

\* The key has the handler that was disposed, or the alias has raced.
LEMMA RemoveKeeps ==
  ASSUME TypeInv, OverlapInv, KeyInv, NEW c \in Callers, Remove(c)
  PROVE  KeyInv'
<1>. USE HandlersAssumption DEF TypeInv, CallTypes, RestTypes, LabelInv, Holding, Busy, Hung
<1>1. OneKey'
  BY DEF KeyInv, Remove, End, handler, history, OneKey
<1>2. FreshInv'
  BY DEF KeyInv, Remove, End, handler, history, FreshInv
<1>3. HomeInv'
  BY DEF KeyInv, Remove, End, handler, history, HomeInv
<1>4. AddInv'
  BY DEF KeyInv, Remove, End, handler, history, AddInv
<1>5. FoundInv'
  BY DEF KeyInv, Remove, End, handler, history, FoundInv
<1>6. ClearInv'
  BY DEF KeyInv, Remove, End, handler, history, ClearInv
<1>7. NoneLost'
  BY DEF KeyInv, Remove, End, handler, history, NoneLost, Held, Registered, FoundInv, HomeInv
<1>. QED  BY <1>1, <1>2, <1>3, <1>4, <1>5, <1>6, <1>7 DEF KeyInv

\* The foreach takes a handler out of what is in front of it.
LEMMA EnumerateKeeps ==
  ASSUME TypeInv, OverlapInv, KeyInv, NEW c \in Callers, Enumerate(c)
  PROVE  KeyInv'
<1>. USE HandlersAssumption DEF TypeInv, CallTypes, RestTypes, LabelInv, Holding, Busy, Hung
<1>1. OneKey'
  BY DEF KeyInv, Enumerate, Goto, End, handler, history, OneKey, Registered
<1>2. FreshInv'
  BY DEF KeyInv, Enumerate, Goto, End, handler, history, FreshInv, Registered
<1>3. HomeInv'
  BY DEF KeyInv, Enumerate, Goto, End, handler, history, HomeInv, Registered
<1>4. AddInv'
  BY DEF KeyInv, Enumerate, Goto, End, handler, history, AddInv, Registered
<1>5. FoundInv'
  BY DEF KeyInv, Enumerate, Goto, End, handler, history, FoundInv, Registered
<1>6. ClearInv'
  BY DEF KeyInv, Enumerate, Goto, End, handler, history, ClearInv, Registered
<1>7. NoneLost'
  BY DEF KeyInv, Enumerate, Goto, End, handler, history, NoneLost, Held, Registered
<1>. QED  BY <1>1, <1>2, <1>3, <1>4, <1>5, <1>6, <1>7 DEF KeyInv

\* Every handler that loses its key here is disposed, or its alias has raced.
LEMMA ClearKeeps ==
  ASSUME TypeInv, OverlapInv, KeyInv, NEW c \in Callers, Clear(c)
  PROVE  KeyInv'
<1>. USE HandlersAssumption DEF TypeInv, CallTypes, RestTypes, LabelInv, Holding, Busy, Hung
<1>1. OneKey'
  BY DEF KeyInv, Clear, End, handler, history, OneKey
<1>2. FreshInv'
  BY DEF KeyInv, Clear, End, handler, history, FreshInv
<1>3. HomeInv'
  BY DEF KeyInv, Clear, End, handler, history, HomeInv
<1>4. AddInv'
  BY DEF KeyInv, Clear, End, handler, history, AddInv
<1>5. FoundInv'
  BY DEF KeyInv, Clear, End, handler, history, FoundInv
<1>6. ClearInv'
  BY DEF KeyInv, Clear, End, handler, history, ClearInv
<1>7. NoneLost'
  BY DEF KeyInv, Clear, End, handler, history, NoneLost, Held, Registered, ClearInv, HomeInv
<1>. QED  BY <1>1, <1>2, <1>3, <1>4, <1>5, <1>6, <1>7 DEF KeyInv

\* The node answers.
LEMMA AnswerKeeps ==
  ASSUME TypeInv, OverlapInv, KeyInv, NEW c \in Callers, Answer(c)
  PROVE  KeyInv'
<1>. USE HandlersAssumption DEF TypeInv, CallTypes, RestTypes, LabelInv, Holding, Busy, Hung
<1>1. OneKey'
  BY DEF KeyInv, Answer, Goto, handler, history, OneKey
<1>2. FreshInv'
  BY DEF KeyInv, Answer, Goto, handler, history, FreshInv
<1>3. HomeInv'
  BY DEF KeyInv, Answer, Goto, handler, history, HomeInv
<1>4. AddInv'
  BY DEF KeyInv, Answer, Goto, handler, history, AddInv
<1>5. FoundInv'
  BY DEF KeyInv, Answer, Goto, handler, history, FoundInv
<1>6. ClearInv'
  BY DEF KeyInv, Answer, Goto, handler, history, ClearInv
<1>7. NoneLost'
  BY DEF KeyInv, Answer, Goto, handler, history, NoneLost, Held, Registered
<1>. QED  BY <1>1, <1>2, <1>3, <1>4, <1>5, <1>6, <1>7 DEF KeyInv

\* The call ends with nothing in hand.
LEMMA FindThrowsKeeps ==
  ASSUME TypeInv, OverlapInv, KeyInv, NEW c \in Callers, FindThrows(c)
  PROVE  KeyInv'
<1>. USE HandlersAssumption DEF TypeInv, CallTypes, RestTypes, LabelInv, Holding, Busy, Hung
<1>1. OneKey'
  BY DEF KeyInv, FindThrows, End, handler, history, OneKey
<1>2. FreshInv'
  BY DEF KeyInv, FindThrows, End, handler, history, FreshInv
<1>3. HomeInv'
  BY DEF KeyInv, FindThrows, End, handler, history, HomeInv
<1>4. AddInv'
  BY DEF KeyInv, FindThrows, End, handler, history, AddInv
<1>5. FoundInv'
  BY DEF KeyInv, FindThrows, End, handler, history, FoundInv
<1>6. ClearInv'
  BY DEF KeyInv, FindThrows, End, handler, history, ClearInv
<1>7. NoneLost'
  BY DEF KeyInv, FindThrows, End, handler, history, NoneLost, Held, Registered
<1>. QED  BY <1>1, <1>2, <1>3, <1>4, <1>5, <1>6, <1>7 DEF KeyInv

\* A call begins; what it meets is recorded.
LEMMA BeginKeeps ==
  ASSUME TypeInv, OverlapInv, KeyInv, NEW c \in Callers, NEW o \in Operations,
         NEW a \in Aliases \cup {NoAlias}, Begin(c, o, a)
  PROVE  KeyInv'
<1>. USE HandlersAssumption DEF TypeInv, CallTypes, RestTypes, LabelInv, Holding, Busy, Hung
<1>. USE DEF Begin, handler
<1>1. raced \subseteq raced'
  OBVIOUS
<1>2. \A d \in Callers \ {c} : /\ op'[d] = op[d] /\ alias'[d] = alias[d] /\ at'[d] = at[d]
                              /\ todo'[d] = todo[d]
  OBVIOUS
<1>3. at'[c] \in {"check", "index", "next"} /\ (o = "CancelAll" => at'[c] = "next")
      /\ op'[c] = o /\ (o = "CancelAll" => todo'[c] = Registered)
  BY DEF Operations
<1>4. UNCHANGED <<registry, source, home, stream, hand>>
  OBVIOUS
<1>5. o # "CancelAll" => todo'[c] = {}
  OBVIOUS
<1>6. o = "Delay" => at'[c] = "check"
  OBVIOUS
<1>. HIDE DEF Begin
<1>7. OneKey' /\ FreshInv'
  <2>1. OneKey'
    BY <1>4 DEF KeyInv, OneKey
  <2>2. \A d \in Callers : at'[d] \in {"construct", "add"} => d # c /\ at'[d] = at[d] /\ alias'[d] = alias[d]
    BY <1>2, <1>3
  <2>3. \A d \in Callers : at'[d] \in Holding => d # c /\ at'[d] = at[d]
    BY <1>2, <1>3
  <2>. QED  BY <1>4, <2>1, <2>2, <2>3 DEF KeyInv, FreshInv
<1>8. HomeInv'
  BY <1>4 DEF KeyInv, HomeInv
<1>9. AddInv'
  <2>1. \A d \in Callers : op'[d] = "Delay" /\ at'[d] # "check" => d # c
    BY <1>3, <1>6
  <2>. QED  BY <1>1, <1>2, <1>4, <2>1 DEF KeyInv, AddInv
<1>10. FoundInv'
  <2>1. \A d \in Callers : at'[d] \in {"cancel", "wait", "remove"} => d # c
    BY <1>3
  <2>. QED  BY <1>1, <1>2, <1>4, <2>1 DEF KeyInv, FoundInv
<1>11. ClearInv'
  <2>1. ASSUME NEW d \in Callers, op'[d] = "CancelAll", NEW b \in Aliases, registry'[b] # NoHandler
        PROVE  \/ registry'[b] \in todo'[d] /\ at'[d] # "clear"
               \/ registry'[b] = hand'[d]
               \/ source'[registry'[b]] = "disposed"
               \/ b \in raced'
    <3>1. CASE d = c
      BY <1>3, <1>4, <2>1, <3>1 DEF Registered
    <3>2. CASE d # c
      BY <1>1, <1>2, <1>4, <2>1, <3>2 DEF KeyInv, ClearInv
    <3>. QED  BY <3>1, <3>2
  <2>. QED  BY <2>1 DEF ClearInv
<1>12. NoneLost'
  BY <1>1, <1>4 DEF KeyInv, NoneLost, Held, Registered
<1>. QED  BY <1>7, <1>8, <1>9, <1>10, <1>11, <1>12 DEF KeyInv

\* The rest of the system leaves registry and calls alone; a stream that breaks
\* only makes a call less busy.
LEMMA OthersKeep ==
  ASSUME TypeInv, KeyInv,
         \/ \E h \in Handlers : Open(h) \/ Break(h)
         \/ \E a \in Aliases : Membership(a)
         \/ UNCHANGED vars
  PROVE  KeyInv'
<1>1. UNCHANGED <<registry, source, home, calls, raced>>
  BY DEF Open, Break, Membership, vars, handler, history
<1>2. \A c \in Callers : Busy(c)' => Busy(c)
  BY OnlyBeginMakesBusy
<1>3. UNCHANGED <<op, alias, at, hand, todo, stale>>
  BY <1>1 DEF calls
<1>4. OneKey' /\ FreshInv' /\ HomeInv' /\ FoundInv' /\ ClearInv'
  BY <1>1, <1>3 DEF KeyInv, OneKey, FreshInv, HomeInv, FoundInv, ClearInv
<1>5. AddInv'
  BY <1>1, <1>2, <1>3 DEF KeyInv, AddInv
<1>6. NoneLost'
  BY <1>1, <1>3 DEF KeyInv, NoneLost, Held, Registered
<1>. QED  BY <1>4, <1>5, <1>6 DEF KeyInv

-----------------------------------------------------------------------------
(* Calls that cancel and have not met: what they find is there, step by step. *)

\* None of these steps touches a key or a source.
LEMMA QuietWaits ==
  ASSUME TypeInv, OverlapInv, KeyInv, ~clashed, CancelInv, DisposedInv, NEW c \in Callers,
         Check(c) \/ Find(c) \/ Constructed(c) \/ Answer(c) \/ FindThrows(c), ~clashed'
  PROVE  CancelInv' /\ DisposedInv'
<1>. USE HandlersAssumption DEF TypeInv, CallTypes, RestTypes, LabelInv, Holding, Busy, Hung
<1>1. CancelInv'
  BY DEF Check, Goto, End, Find, Constructed, Answer, FindThrows, handler, CancelInv, DisposedInv
<1>2. DisposedInv'
  BY DEF Check, Goto, End, Find, Constructed, Answer, FindThrows, handler, CancelInv, DisposedInv
<1>. QED  BY <1>1, <1>2

\* A new handler was unused, and so has no key.
LEMMA QuietClone ==
  ASSUME TypeInv, OverlapInv, KeyInv, ~clashed, CancelInv, DisposedInv, NEW c \in Callers,
         Clone(c), ~clashed'
  PROVE  CancelInv' /\ DisposedInv'
<1>. USE HandlersAssumption DEF TypeInv, CallTypes, RestTypes, LabelInv, Holding, Busy, Hung
<1>1. CancelInv'
  BY DEF Clone, Goto, End, handler, CancelInv, DisposedInv, Unused, Held, Registered
<1>2. DisposedInv'
  BY DEF Clone, Goto, End, handler, CancelInv, DisposedInv, Unused, Held, Registered
<1>. QED  BY <1>1, <1>2

\* A key that is added goes to a live handler, and no CancelAllInterceptors is under
\* way that this could disturb.
LEMMA QuietAdd ==
  ASSUME TypeInv, OverlapInv, KeyInv, ~clashed, CancelInv, DisposedInv, NEW c \in Callers,
         Add(c), ~clashed'
  PROVE  CancelInv' /\ DisposedInv'
<1>. USE HandlersAssumption DEF TypeInv, CallTypes, RestTypes, LabelInv, Holding, Busy, Hung
<1>1. CancelInv'
  BY DEF Add, handler, CancelInv, DisposedInv, OverlapInv, Clashes, KeyInv, FreshInv
<1>2. DisposedInv'
  BY DEF Add, handler, CancelInv, DisposedInv, OverlapInv, Clashes, KeyInv, FreshInv
<1>. QED  BY <1>1, <1>2

\* A handler that is found is not disposed: whoever disposed it and has not yet
\* removed it would be a second call that cancels.
LEMMA QuietIndex ==
  ASSUME TypeInv, OverlapInv, KeyInv, ~clashed, CancelInv, DisposedInv, NEW c \in Callers,
         Index(c), ~clashed'
  PROVE  CancelInv' /\ DisposedInv'
<1>. USE HandlersAssumption DEF TypeInv, CallTypes, RestTypes, LabelInv, Holding, Busy, Hung
<1>1. CancelInv'
  BY DEF Index, Goto, End, handler, CancelInv, DisposedInv, OverlapInv, Clashes
<1>2. DisposedInv'
  BY DEF Index, Goto, End, handler, CancelInv, DisposedInv, OverlapInv, Clashes
<1>. QED  BY <1>1, <1>2

\* The handler in hand is not disposed, so Cancel does not throw.
LEMMA QuietCancelToken ==
  ASSUME TypeInv, OverlapInv, KeyInv, ~clashed, CancelInv, DisposedInv, NEW c \in Callers,
         CancelToken(c), ~clashed'
  PROVE  CancelInv' /\ DisposedInv'
<1>. USE HandlersAssumption DEF TypeInv, CallTypes, RestTypes, LabelInv, Holding, Busy, Hung
<1>1. CancelInv'
  BY DEF CancelToken, Goto, End, handler, CancelInv, DisposedInv, OverlapInv, Clashes
<1>2. DisposedInv'
  BY DEF CancelToken, Goto, End, handler, CancelInv, DisposedInv, OverlapInv, Clashes
<1>. QED  BY <1>1, <1>2

\* The handler is disposed, and about to lose its key, or behind the foreach.
LEMMA QuietDispose ==
  ASSUME TypeInv, OverlapInv, KeyInv, ~clashed, CancelInv, DisposedInv, NEW c \in Callers,
         Dispose(c), ~clashed'
  PROVE  CancelInv' /\ DisposedInv'
<1>. USE HandlersAssumption DEF TypeInv, CallTypes, RestTypes, LabelInv, Holding, Busy, Hung
<1>1. CancelInv'
  BY DEF Dispose, Goto, End, handler, CancelInv, DisposedInv, OverlapInv, Clashes, KeyInv, OneKey
<1>2. DisposedInv'
  BY DEF Dispose, Goto, End, handler, CancelInv, DisposedInv, OverlapInv, Clashes, KeyInv, OneKey
<1>. QED  BY <1>1, <1>2

\* RemoveKey removes the handler that was cancelled and no other.
LEMMA QuietRemove ==
  ASSUME TypeInv, OverlapInv, KeyInv, ~clashed, CancelInv, DisposedInv, NEW c \in Callers,
         Remove(c), ~clashed'
  PROVE  CancelInv' /\ DisposedInv'
<1>. USE HandlersAssumption DEF TypeInv, CallTypes, RestTypes, LabelInv, Holding, Busy, Hung
<1>1. CancelInv'
  BY DEF Remove, End, handler, CancelInv, DisposedInv, OverlapInv, Clashes, KeyInv, OneKey
<1>2. DisposedInv'
  BY DEF Remove, End, handler, CancelInv, DisposedInv, OverlapInv, Clashes, KeyInv, OneKey
<1>. QED  BY <1>1, <1>2

\* The element the foreach yields is not disposed, as it was still to come.
LEMMA QuietEnumerate ==
  ASSUME TypeInv, OverlapInv, KeyInv, ~clashed, CancelInv, DisposedInv, NEW c \in Callers,
         Enumerate(c), ~clashed'
  PROVE  CancelInv' /\ DisposedInv'
<1>. USE HandlersAssumption DEF TypeInv, CallTypes, RestTypes, LabelInv, Holding, Busy, Hung
<1>1. CancelInv'
  BY DEF Enumerate, Goto, End, handler, CancelInv, DisposedInv, OverlapInv, Clashes, Registered
<1>2. DisposedInv'
  BY DEF Enumerate, Goto, End, handler, CancelInv, DisposedInv, OverlapInv, Clashes, Registered
<1>. QED  BY <1>1, <1>2

\* No key is left.
LEMMA QuietClear ==
  ASSUME TypeInv, OverlapInv, KeyInv, ~clashed, CancelInv, DisposedInv, NEW c \in Callers,
         Clear(c), ~clashed'
  PROVE  CancelInv' /\ DisposedInv'
<1>. USE HandlersAssumption DEF TypeInv, CallTypes, RestTypes, LabelInv, Holding, Busy, Hung
<1>1. CancelInv'
  BY DEF Clear, End, handler, CancelInv, DisposedInv, OverlapInv, Clashes
<1>2. DisposedInv'
  BY DEF Clear, End, handler, CancelInv, DisposedInv, OverlapInv, Clashes
<1>. QED  BY <1>1, <1>2

\* A call that begins has met no other, or it is recorded.
LEMMA QuietBegin ==
  ASSUME TypeInv, ~clashed, CancelInv, DisposedInv, NEW c \in Callers, NEW o \in Operations,
         NEW a \in Aliases \cup {NoAlias}, Begin(c, o, a)
  PROVE  CancelInv' /\ DisposedInv'
<1>. USE HandlersAssumption DEF TypeInv, CallTypes, RestTypes, LabelInv, Holding, Busy, Hung
<1>. USE DEF Begin, handler
<1>1. CancelInv'
  <2>1. at'[c] \in {"check", "index", "next"} /\ stale'[c] = FALSE
    BY DEF Operations
  <2>2. hand'[c] = NoHandler /\ todo'[c] \in SUBSET Handlers
    BY DEF Registered
  <2>. QED  BY <2>1, <2>2 DEF CancelInv
<1>2. DisposedInv'
  BY DEF DisposedInv
<1>. QED  BY <1>1, <1>2

LEMMA QuietOthers ==
  ASSUME TypeInv, CancelInv, DisposedInv,
         \/ \E h \in Handlers : Open(h) \/ Break(h)
         \/ \E a \in Aliases : Membership(a)
         \/ UNCHANGED vars
  PROVE  CancelInv' /\ DisposedInv'
<1>1. UNCHANGED <<registry, source, op, alias, at, hand, todo, stale>>
  BY DEF Open, Break, Membership, vars, handler, calls
<1>. QED  BY <1>1 DEF CancelInv, DisposedInv

-----------------------------------------------------------------------------
(* The invariant, and what follows from it.                                *)

LEMMA InitSafe == Init => IInv
<1>. SUFFICES ASSUME Init PROVE IInv
  OBVIOUS
<1>1. OverlapInv
  BY DEF Init, OverlapInv, Busy
<1>2. KeyInv
  BY DEF Init, KeyInv, OneKey, FreshInv, HomeInv, AddInv, FoundInv, ClearInv, NoneLost
<1>3. QuietInv
  BY DEF Init, QuietInv, CancelInv, DisposedInv
<1>. QED  BY <1>1, <1>2, <1>3, InitTypes DEF IInv

LEMMA NextSafe == IInv /\ [Next]_vars => IInv'
<1>. SUFFICES ASSUME IInv, [Next]_vars PROVE IInv'
  OBVIOUS
<1>1. TypeInv' /\ OverlapInv'
  BY NextTypes, NextOverlap DEF IInv
<1>2. KeyInv'
  <2>1. ASSUME NEW c \in Callers, Caller(c) \/ Answer(c) \/ FindThrows(c)
        PROVE  KeyInv'
    BY <2>1, CheckKeeps, FindKeeps, CloneKeeps, ConstructedKeeps, AddKeeps, IndexKeeps, CancelTokenKeeps, DisposeKeeps, RemoveKeeps, EnumerateKeeps, ClearKeeps, AnswerKeeps, FindThrowsKeeps
       DEF Caller, IInv
  <2>2. ASSUME NEW c \in Callers, NEW o \in Operations, NEW a \in Aliases \cup {NoAlias},
               Begin(c, o, a)
        PROVE  KeyInv'
    BY <2>2, BeginKeeps DEF IInv
  <2>. QED  BY <2>1, <2>2, OthersKeep DEF Next, IInv
<1>3. QuietInv'
  <2>. SUFFICES ASSUME ~clashed' PROVE CancelInv' /\ DisposedInv'
    BY DEF QuietInv
  <2>1. ~clashed /\ CancelInv /\ DisposedInv
    BY HistoryGrows DEF IInv, QuietInv
  <2>2. ASSUME NEW c \in Callers, Caller(c) \/ Answer(c) \/ FindThrows(c)
        PROVE  CancelInv' /\ DisposedInv'
    BY <2>1, <2>2, QuietWaits, QuietClone, QuietAdd, QuietIndex, QuietCancelToken, QuietDispose, QuietRemove, QuietEnumerate, QuietClear
       DEF Caller, IInv
  <2>3. ASSUME NEW c \in Callers, NEW o \in Operations, NEW a \in Aliases \cup {NoAlias},
               Begin(c, o, a)
        PROVE  CancelInv' /\ DisposedInv'
    BY <2>1, <2>3, QuietBegin DEF IInv
  <2>. QED  BY <2>1, <2>2, <2>3, QuietOthers DEF Next, IInv
<1>. QED  BY <1>1, <1>2, <1>3 DEF IInv

LEMMA Safe == Spec => []IInv
  BY InitSafe, NextSafe, PTL DEF Spec

\* However many calls overlap, and whatever users cancel themselves, a handler
\* that is not disposed is in the registry or in the hands of a call, unless
\* its alias has seen an adding call meet another that adds or removes there.
THEOREM NeverLost == Spec => []NoneLost
<1>1. IInv => NoneLost
  BY DEF IInv, KeyInv
<1>. QED  BY <1>1, Safe, PTL

\* The steps with which a call that cancels can end leave its keys free.
LEMMA EndFrees ==
  ASSUME IInv, [Next]_vars, ~clashed, NEW c \in Callers, at[c] # "idle", at'[c] = "idle"
  PROVE  /\ op[c] = "Cancel" => registry'[alias[c]] = NoHandler
         /\ op[c] = "CancelAll" => \A a \in Aliases : registry'[a] = NoHandler
<1>. USE DEF IInv, TypeInv, CallTypes, RestTypes
<1>1. CancelInv
  BY DEF QuietInv
<1>2. ASSUME NEW d \in Callers, d # c, Caller(d) \/ Answer(d) \/ FindThrows(d)
      PROVE  at'[c] = at[c]
  BY <1>2 DEF Caller, Check, Goto, End, Find, Clone, Constructed, Add, Index, CancelToken, Dispose, Remove, Enumerate, Clear, Answer, FindThrows
<1>3. ASSUME NEW d \in Callers, NEW o \in Operations, NEW a \in Aliases \cup {NoAlias},
             Begin(d, o, a)
      PROVE  at'[c] # "idle"
  BY <1>3 DEF Begin
<1>4. PICK d \in Callers : Caller(d) \/ Answer(d) \/ FindThrows(d)
  <2>1. at' # at
    OBVIOUS
  <2>. QED  BY <1>3, <2>1 DEF Next, Open, Break, Membership, calls, vars
<1>5. Caller(c) \/ Answer(c) \/ FindThrows(c)
  BY <1>2, <1>4
<1>6. op[c] \in {"Cancel", "CancelAll"} => Index(c) \/ CancelToken(c) \/ Dispose(c) \/ Remove(c)
                                           \/ Enumerate(c) \/ Clear(c)
  BY <1>5 DEF Caller, Check, Find, Clone, Constructed, Add, Answer, FindThrows, LabelInv
<1>7. CASE Index(c)
  BY <1>7 DEF Index, Goto, LabelInv, handler
<1>8. CASE CancelToken(c)
  BY <1>1, <1>8 DEF CancelToken, Goto, CancelInv
<1>9. CASE Dispose(c)
  BY <1>9 DEF Dispose, Goto, End
<1>10. CASE Remove(c)
  BY <1>10 DEF Remove, LabelInv
<1>11. CASE Enumerate(c)
  BY <1>1, <1>11 DEF Enumerate, Goto, LabelInv, CancelInv
<1>12. CASE Clear(c)
  BY <1>12 DEF Clear, LabelInv
<1>. QED  BY <1>6, <1>7, <1>8, <1>9, <1>10, <1>11, <1>12

\* As long as no two calls that cancel have met, nor a user has cancelled a
\* handler himself, nor an adding call has met CancelAllInterceptors, a call
\* that cancels frees its alias, or all, whatever calls of other kinds overlap.
THEOREM CancelAlwaysFrees == Spec => CancelFrees
<1>1. IInv /\ [Next]_vars =>
        [~clashed => \A c \in Callers :
           at[c] # "idle" /\ at'[c] = "idle" =>
             /\ op[c] = "Cancel" => registry'[alias[c]] = NoHandler
             /\ op[c] = "CancelAll" => \A a \in Aliases : registry'[a] = NoHandler]_vars
  BY EndFrees
<1>. QED  BY <1>1, Safe, PTL DEF Spec, CancelFrees
=============================================================================
