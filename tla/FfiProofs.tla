------------------------------- MODULE FfiProofs -------------------------------
(***************************************************************************)
(* Proofs about Ffi for any threads, downloads and callbacks, and stacks   *)
(* of any depth.                                                           *)
(*                                                                         *)
(* A step changes the stack of one actor.  The functions of the host that  *)
(* callbacks never call are alone on their stack (Outer); all the others   *)
(* put calls on a stack that InnerStep describes once, so that each part   *)
(* of the invariant looks at a set of calls and not at a sequence.         *)
(***************************************************************************)
EXTENDS Ffi, SequenceTheorems, TLAPS

Elements(s) == {s[i] : i \in DOMAIN s}
Rest(a) == Elements(Tail(stack[a]))

-----------------------------------------------------------------------------
(* Stacks                                                                  *)

\* The calls of a stack are the topmost and the rest.
LEMMA TopAndRest ==
    ASSUME NEW s \in Seq(CallSet), s # <<>>
    PROVE  /\ Head(s) \in CallSet /\ Tail(s) \in Seq(CallSet)
           /\ Elements(s) = {Head(s)} \cup Elements(Tail(s))
           /\ \A x \in Elements(s) : x \in CallSet
           /\ Len(s) = 1 => Elements(Tail(s)) = {}
           /\ Len(Tail(s)) = Len(s) - 1
<1>1. /\ Len(s) \in Nat \ {0} /\ DOMAIN s = 1 .. Len(s) /\ Head(s) = s[1] /\ Tail(s) \in Seq(CallSet)
      /\ Len(Tail(s)) = Len(s) - 1 /\ DOMAIN Tail(s) = 1 .. Len(s) - 1
  BY SMT
<1>2. \A i \in 1 .. Len(s) - 1 : Tail(s)[i] = s[i + 1]
  BY <1>1, HeadTailProperties
<1>3. \A i \in 1 .. Len(s) : s[i] \in CallSet /\ (i # 1 => i - 1 \in 1 .. Len(s) - 1)
  BY <1>1
<1>4. Elements(s) = {Head(s)} \cup Elements(Tail(s))
  <2>1. ASSUME NEW x \in Elements(s) PROVE x \in {Head(s)} \cup Elements(Tail(s))
    <3>1. PICK i \in 1 .. Len(s) : x = s[i]
      BY <1>1 DEF Elements
    <3>2. CASE i # 1
      <4>1. i - 1 \in DOMAIN Tail(s) /\ Tail(s)[i - 1] = x
        BY <1>1, <1>2, <1>3, <3>1, <3>2
      <4>2. QED
        BY <4>1 DEF Elements
    <3>3. QED
      BY <1>1, <3>1, <3>2
  <2>2. ASSUME NEW x \in Elements(Tail(s)) PROVE x \in Elements(s)
    <3>1. PICK i \in 1 .. Len(s) - 1 : x = s[i + 1]
      BY <1>1, <1>2 DEF Elements
    <3>2. i + 1 \in DOMAIN s
      BY <1>1
    <3>3. QED
      BY <3>1, <3>2 DEF Elements
  <2>3. Head(s) \in Elements(s)
    BY <1>1 DEF Elements
  <2>4. QED
    BY <2>1, <2>2, <2>3
<1>5. \A x \in Elements(s) : x \in CallSet
  BY <1>1, <1>3 DEF Elements
<1>6. Len(s) = 1 => Elements(Tail(s)) = {}
  BY <1>1 DEF Elements
<1>7. QED
  BY <1>1, <1>3, <1>4, <1>5, <1>6

\* A call that is made comes on top of those it is made from.
LEMMA Pushed ==
    ASSUME NEW s \in Seq(CallSet), NEW x \in CallSet
    PROVE  /\ <<x>> \o s \in Seq(CallSet) /\ <<x>> \o s # <<>>
           /\ Elements(<<x>> \o s) = {x} \cup Elements(s)
           /\ Len(<<x>> \o s) = Len(s) + 1
<1>1. <<x>> \in Seq(CallSet) /\ Len(<<x>>) = 1 /\ <<x>>[1] = x
  OBVIOUS
<1>2. /\ <<x>> \o s \in Seq(CallSet) /\ Len(<<x>> \o s) = Len(s) + 1
      /\ \A i \in 1 .. Len(s) + 1 : (<<x>> \o s)[i] = IF i <= 1 THEN x ELSE s[i - 1]
  BY <1>1, ConcatProperties
<1>3. Len(s) \in Nat /\ DOMAIN s = 1 .. Len(s) /\ DOMAIN (<<x>> \o s) = 1 .. Len(s) + 1
  BY <1>2
<1>4. Elements(<<x>> \o s) = {x} \cup Elements(s)
  <2>1. ASSUME NEW y \in Elements(<<x>> \o s) PROVE y \in {x} \cup Elements(s)
    <3>1. PICK i \in 1 .. Len(s) + 1 : y = (<<x>> \o s)[i]
      BY <1>3 DEF Elements
    <3>2. i = 1 \/ (i - 1 \in DOMAIN s /\ y = s[i - 1])
      BY <1>2, <1>3, <3>1
    <3>3. QED
      BY <1>2, <1>3, <3>1, <3>2 DEF Elements
  <2>2. ASSUME NEW y \in Elements(s) PROVE y \in Elements(<<x>> \o s)
    <3>1. PICK i \in 1 .. Len(s) : y = s[i]
      BY <1>3 DEF Elements
    <3>2. i + 1 \in 1 .. Len(s) + 1 /\ (<<x>> \o s)[i + 1] = y
      BY <1>2, <1>3, <3>1
    <3>3. QED
      BY <1>3, <3>2 DEF Elements
  <2>3. x \in Elements(<<x>> \o s)
    BY <1>2, <1>3 DEF Elements
  <2>4. QED
    BY <2>1, <2>2, <2>3
<1>5. QED
  BY <1>2, <1>3, <1>4

\* The stack of a becomes s.
StackBecomes(a, s) ==
    /\ stack' \in [Actors -> Seq(CallSet)]
    /\ stack'[a] = s /\ Calls(a)' = Elements(s)
    /\ \A b \in Actors \ {a} : stack'[b] = stack[b] /\ Calls(b)' = Calls(b)

\* Only one actor's stack changes.
LEMMA Becomes ==
    ASSUME FfiTypeOK, NEW a \in Actors, NEW s \in Seq(CallSet), stack' = [stack EXCEPT ![a] = s]
    PROVE  StackBecomes(a, s)
<1>1. stack \in [Actors -> Seq(CallSet)]
  BY DEF FfiTypeOK
<1>2. /\ stack' \in [Actors -> Seq(CallSet)] /\ stack'[a] = s
      /\ \A b \in Actors \ {a} : stack'[b] = stack[b]
  BY <1>1
<1>3. QED
  BY <1>2 DEF StackBecomes, Calls, Elements

\* TopAndRest, of an actor's stack.
LEMMA TopOf ==
    ASSUME FfiTypeOK, NEW a \in Actors, stack[a] # <<>>
    PROVE  /\ stack[a] \in Seq(CallSet) /\ Tail(stack[a]) \in Seq(CallSet)
           /\ Top(a) \in CallSet /\ Top(a) \in Calls(a)
           /\ Calls(a) = {Top(a)} \cup Rest(a)
           /\ Len(stack[a]) = 1 => Rest(a) = {}
           /\ Len(Tail(stack[a])) = Len(stack[a]) - 1
<1>1. stack[a] \in Seq(CallSet)
  BY DEF FfiTypeOK
<1>2. Calls(a) = Elements(stack[a])
  BY DEF Calls, Elements
<1>3. QED
  BY <1>1, <1>2, TopAndRest DEF Top, Rest

\* Whoever is on a stack is a call of the C ABI.
LEMMA CallsTyped ==
    ASSUME FfiTypeOK, NEW a \in Actors, NEW x \in Calls(a)
    PROVE  x \in CallSet /\ stack[a] # <<>>
<1>1. stack[a] \in Seq(CallSet)
  BY DEF FfiTypeOK
<1>2. PICK i \in DOMAIN stack[a] : x = stack[a][i]
  BY DEF Calls
<1>3. QED
  BY <1>1, <1>2

\* A call that returns leaves the rest of its stack.
LEMMA Returns ==
    ASSUME FfiTypeOK, NEW a \in Actors, stack[a] # <<>>, Return(a)
    PROVE  StackBecomes(a, Tail(stack[a])) /\ Calls(a)' = Rest(a)
<1>1. Tail(stack[a]) \in Seq(CallSet)
  BY TopOf
<1>2. stack' = [stack EXCEPT ![a] = Tail(stack[a])]
  BY DEF Return
<1>3. QED
  BY <1>1, <1>2, Becomes DEF Rest, StackBecomes

\* A call that goes on stays on top of the rest.
LEMMA Goes ==
    ASSUME FfiTypeOK, NEW a \in Actors, stack[a] # <<>>, NEW x \in CallSet, Goto(a, x)
    PROVE  /\ StackBecomes(a, <<x>> \o Tail(stack[a])) /\ Calls(a)' = {x} \cup Rest(a)
           /\ Len(stack'[a]) = Len(stack[a])
<1>1. Tail(stack[a]) \in Seq(CallSet) /\ Len(Tail(stack[a])) = Len(stack[a]) - 1 /\ Len(stack[a]) \in Nat
  BY TopOf
<1>2. <<x>> \o Tail(stack[a]) \in Seq(CallSet) /\ Len(<<x>> \o Tail(stack[a])) = Len(stack[a])
  BY <1>1, Pushed
<1>3. stack' = [stack EXCEPT ![a] = <<x>> \o Tail(stack[a])]
  BY DEF Goto
<1>4. QED
  BY <1>1, <1>2, <1>3, Becomes, Pushed DEF Rest, StackBecomes

\* A call as it begins.
LEMMA Begins ==
    ASSUME FfiAssumption, NEW d \in Downloads \cup {Nobody},
           NEW op \in HostCalls \cup {"set", "start", "pause", "cancel", "emit"}
    PROVE  /\ Call(op, d) \in CallSet
           /\ Call(op, d).op = op /\ Call(op, d).d = d /\ Call(op, d).at = "begin"
           /\ Call(op, d).c = 0 /\ Call(op, d).r = 0
<1>1. (CHOOSE t \in Slots : TRUE) \in Slots
  BY DEF FfiAssumption
<1>2. QED
  BY <1>1 DEF Call, CallSet

\* An emission begins without a context and without a runtime.
LEMMA EmitBegins ==
    ASSUME FfiAssumption, NEW d \in Downloads \cup {Nobody}, NEW s \in Slots
    PROVE  LET emit == [Call("emit", d) EXCEPT !.s = s] IN
              /\ emit \in CallSet /\ emit.op = "emit" /\ emit.d = d /\ emit.at = "begin"
              /\ emit.c = 0 /\ emit.r = 0
BY DEF Call, CallSet

\* A notification puts one emission per callback on top of what was there.
LEMMA Notifies ==
    ASSUME FfiAssumption, FfiTypeOK, NEW a \in Actors, stack[a] # <<>>, NEW s \in Slots,
           NEW rest \in Seq(CallSet), Notify(a, s, rest)
    PROVE  /\ stack' \in [Actors -> Seq(CallSet)]
           /\ \A b \in Actors \ {a} : stack'[b] = stack[b] /\ Calls(b)' = Calls(b)
           /\ \A x \in Calls(a)' :
                 \/ x \in Elements(rest)
                 \/ /\ x \in CallSet /\ x.op = "emit" /\ x.d = Top(a).d /\ x.at = "begin"
                    /\ x.c = 0 /\ x.r = 0
<1>1. Top(a) \in CallSet /\ Top(a).d \in Downloads \cup {Nobody}
  BY TopOf DEF CallSet
<1>2. CASE stack' = [stack EXCEPT ![a] = rest]
  BY <1>2, Becomes DEF StackBecomes
<1>3. CASE stack' = [stack EXCEPT ![a] = <<[Call("emit", Top(a).d) EXCEPT !.s = s]>> \o rest]
  <2> DEFINE emit == [Call("emit", Top(a).d) EXCEPT !.s = s]
  <2>1. /\ emit \in CallSet /\ emit.op = "emit" /\ emit.d = Top(a).d /\ emit.at = "begin"
        /\ emit.c = 0 /\ emit.r = 0
    BY <1>1, EmitBegins
  <2> HIDE DEF emit
  <2>2. <<emit>> \o rest \in Seq(CallSet) /\ Elements(<<emit>> \o rest) = {emit} \cup Elements(rest)
    BY <2>1, Pushed
  <2>3. StackBecomes(a, <<emit>> \o rest)
    BY <1>3, <2>2, Becomes DEF emit
  <2>4. QED
    BY <2>1, <2>2, <2>3 DEF StackBecomes
<1>4. QED
  BY <1>2, <1>3 DEF Notify

-----------------------------------------------------------------------------
(* What a step does to the stack of its actor                              *)

Inner(a) ==
    \/ SetCallback(a) \/ RemoveCallback(a) \/ SetRefused(a) \/ ListenerUnresolved(a)
    \/ DropPrevious(a) \/ CloneCallback(a) \/ CallbackReturns(a) \/ NestedCall(a)
    \/ Refused(a) \/ Start(a) \/ Spawn(a) \/ Request(a) \/ CancelJoin(a)

Outer(a) ==
    \/ GlobalInit(a) \/ GlobalShutdown(a) \/ CurrentGlobal(a) \/ DropClone(a) \/ Create(a) \/ Stop(a)
    \/ ReleaseHandle(a) \/ DropHandle(a)

\* Who stands in a place is on top of a stack that is not empty.
LEMMA InPlace ==
    ASSUME NEW a, NEW op, NEW place, In(a, op, place)
    PROVE  stack[a] # <<>> /\ Top(a).op = op /\ Top(a).at = place
BY DEF In, Top

\* A call that a step of a callback, or of a function callbacks may call, leaves on top.
Inward(a, x) ==
    /\ x \in CallSet /\ x.op \notin HostCalls /\ x.d = Top(a).d /\ x.d \in Downloads
    /\ x.r = 0 /\ x.at \notin {"cloned", "stopping"}
    /\ x.c # 0 =>
          /\ x.op \in {"set", "emit"} /\ x.at # "begin"
          /\ x.c = Top(a).c \/ \E s \in Slots : installed[x.d][s] = x.c
    /\ x.op # "emit" /\ x.at # "begin" => box[x.d] = "live"
    /\ x.op = "emit" /\ a \in Threads => box[x.d] = "live"
    /\ x.op # "emit" /\ Top(a).op = "emit" => ~Calling(x.d, {"release"})

InnerStack(a) ==
    /\ stack' \in [Actors -> Seq(CallSet)]
    /\ \A b \in Actors \ {a} : stack'[b] = stack[b] /\ Calls(b)' = Calls(b)
    /\ stack[a] # <<>> /\ Top(a) \in Calls(a) /\ Calls(a) = {Top(a)} \cup Rest(a)
    /\ \A x \in Calls(a)' : x.op \notin HostCalls /\ (x \in Rest(a) \/ Inward(a, x))

\* Under a running call there is none that only the host can make from outside.
LEMMA RestNotHost ==
    ASSUME FfiTypeOK, StackInv, NEW a \in Actors, stack[a] # <<>>, NEW x \in Rest(a)
    PROVE  x.op \notin HostCalls
<1>1. x \in Calls(a) /\ Len(stack[a]) # 1
  BY TopOf
<1>2. QED
  BY <1>1 DEF StackInv

\* The top call goes on in another place.
LEMMA InnerGoes ==
    ASSUME FfiTypeOK, StackInv, NEW a \in Actors, stack[a] # <<>>,
           NEW x \in CallSet, Goto(a, x), Inward(a, x)
    PROVE  InnerStack(a)
<1>1. StackBecomes(a, <<x>> \o Tail(stack[a])) /\ Calls(a)' = {x} \cup Rest(a)
  BY Goes
<1>2. QED
  BY <1>1, TopOf, RestNotHost DEF InnerStack, StackBecomes, Inward

\* A return is of the inner kind of step, that leaves the rest as it is.
LEMMA InnerReturns ==
    ASSUME FfiTypeOK, StackInv, NEW a \in Actors, stack[a] # <<>>, Return(a)
    PROVE  InnerStack(a)
<1>1. StackBecomes(a, Tail(stack[a])) /\ Calls(a)' = Rest(a)
  BY Returns
<1>2. QED
  BY <1>1, TopOf, RestNotHost DEF InnerStack, StackBecomes

\* So is a notification of a live download.
LEMMA InnerNotifies ==
    ASSUME FfiAssumption, FfiTypeOK, StackInv, NEW a \in Actors, stack[a] # <<>>, NEW s \in Slots,
           Notify(a, s, Tail(stack[a])), Top(a).d \in Downloads, box[Top(a).d] = "live"
    PROVE  InnerStack(a)
<1>1. PICK rest \in Seq(CallSet) : Elements(rest) = Rest(a) /\ Notify(a, s, rest)
  BY TopOf DEF Rest
<1>2. /\ stack' \in [Actors -> Seq(CallSet)]
      /\ \A b \in Actors \ {a} : stack'[b] = stack[b] /\ Calls(b)' = Calls(b)
      /\ \A x \in Calls(a)' :
            \/ x \in Elements(rest)
            \/ /\ x \in CallSet /\ x.op = "emit" /\ x.d = Top(a).d /\ x.at = "begin"
               /\ x.c = 0 /\ x.r = 0
  BY <1>1, Notifies
<1>3. QED
  BY <1>1, <1>2, TopOf, RestNotHost DEF InnerStack, Inward, HostCalls

\* The same with the top call in another place beneath the notification.
LEMMA InnerNotifiesOver ==
    ASSUME FfiAssumption, FfiTypeOK, StackInv, NEW a \in Actors, stack[a] # <<>>, NEW s \in Slots,
           NEW y \in CallSet, Inward(a, y),
           Notify(a, s, <<y>> \o Tail(stack[a])), Top(a).d \in Downloads, box[Top(a).d] = "live"
    PROVE  InnerStack(a)
<1>1. PICK rest \in Seq(CallSet) : Elements(rest) = {y} \cup Rest(a) /\ Notify(a, s, rest)
  BY TopOf, Pushed DEF Rest
<1>2. /\ stack' \in [Actors -> Seq(CallSet)]
      /\ \A b \in Actors \ {a} : stack'[b] = stack[b] /\ Calls(b)' = Calls(b)
      /\ \A x \in Calls(a)' :
            \/ x \in Elements(rest)
            \/ /\ x \in CallSet /\ x.op = "emit" /\ x.d = Top(a).d /\ x.at = "begin"
               /\ x.c = 0 /\ x.r = 0
  BY <1>1, Notifies
<1>3. QED
  BY <1>1, <1>2, TopOf, RestNotHost DEF InnerStack, Inward, HostCalls

\* Every step that may happen inside a callback takes only the top of its stack further.
LEMMA InnerStep ==
    ASSUME FfiAssumption, FfiTypeOK, StackInv, RuntimeInv, UseInv, ContextInv, NEW a \in Actors, Inner(a)
    PROVE  InnerStack(a)
<1>1. stack[a] # <<>>
  BY DEF Inner, SetCallback, RemoveCallback, SetRefused, ListenerUnresolved, DropPrevious,
         CloneCallback, CallbackReturns, NestedCall, Refused, Start, Spawn, Request, CancelJoin, In
<1>2. Top(a) \in CallSet /\ Top(a) \in Calls(a)
  BY <1>1, TopOf
<1>3. /\ Top(a).op \notin {"init", "shutdown", "set_max_io"} => Top(a).d \in Downloads
      /\ Top(a).op \notin HostCalls => Top(a).r = 0
      /\ Top(a).c # 0 => Top(a).op \in {"set", "emit"} /\ Top(a).at # "begin"
      /\ Top(a).op \in {"set", "start", "pause", "cancel"} /\ Top(a).at # "begin" => box[Top(a).d] = "live"
      /\ Top(a).op = "emit" /\ a \in Threads => box[Top(a).d] = "live"
  BY <1>2 DEF StackInv, RuntimeInv, UseInv, ContextInv
<1>4. CASE SetCallback(a) \/ RemoveCallback(a)
  <2>1. PICK s \in Slots, place \in {"installed", "removed"} :
            Goto(a, [Top(a) EXCEPT !.at = place, !.s = s, !.c = installed[Top(a).d][s]])
    BY <1>4 DEF SetCallback, RemoveCallback
  <2>2. Top(a).op = "set" /\ box[Top(a).d] = "live"
    BY <1>4, InPlace DEF SetCallback, RemoveCallback
  <2>3. installed[Top(a).d][s] \in Nat
    BY <1>3, <2>2 DEF FfiTypeOK
  <2> DEFINE x == [Top(a) EXCEPT !.at = place, !.s = s, !.c = installed[Top(a).d][s]]
  <2>4. /\ x \in CallSet /\ x.op = "set" /\ x.d = Top(a).d /\ x.r = Top(a).r /\ x.at = place
        /\ x.c = installed[x.d][s]
    BY <1>2, <2>2, <2>3 DEF CallSet
  <2>5. Inward(a, x)
    BY <1>3, <2>2, <2>4 DEF Inward, HostCalls
  <2>6. QED
    BY <1>1, <2>1, <2>4, <2>5, InnerGoes
<1>5. CASE SetRefused(a) \/ ListenerUnresolved(a) \/ CallbackReturns(a) \/ Refused(a) \/ Spawn(a)
  <2>1. Return(a)
    BY <1>5 DEF SetRefused, ListenerUnresolved, CallbackReturns, Refused, Spawn
  <2>2. QED
    BY <1>1, <2>1, InnerReturns
<1>6. CASE DropPrevious(a)
  <2>1. Top(a).op = "set" /\ Top(a).at # "begin" /\ Top(a).s \in Slots
    BY <1>2, <1>6, InPlace DEF DropPrevious, CallSet
  <2>2. Return(a) \/ Notify(a, Top(a).s, Tail(stack[a]))
    BY <1>6 DEF DropPrevious
  <2>3. QED
    BY <1>1, <1>3, <2>1, <2>2, InnerReturns, InnerNotifies
<1>7. CASE CloneCallback(a)
  <2> DEFINE c == installed[Top(a).d][Top(a).s]
             x == [Top(a) EXCEPT !.at = "calling", !.c = c]
  <2>1. Top(a).op = "emit" /\ Top(a).s \in Slots
    BY <1>2, <1>7, InPlace DEF CloneCallback, CallSet
  <2>2. c \in Nat
    BY <1>3, <2>1 DEF FfiTypeOK
  <2>3. /\ x \in CallSet /\ x.op = "emit" /\ x.d = Top(a).d /\ x.r = Top(a).r /\ x.at = "calling"
        /\ x.c = installed[x.d][Top(a).s]
    BY <1>2, <2>1, <2>2 DEF CallSet
  <2>4. Inward(a, x)
    BY <1>3, <2>1, <2>3 DEF Inward, HostCalls
  <2>5. Return(a) \/ Goto(a, x)
    BY <1>7 DEF CloneCallback
  <2> HIDE DEF x
  <2>6. QED
    BY <1>1, <2>3, <2>4, <2>5, InnerGoes, InnerReturns
<1>8. CASE NestedCall(a)
  <2> DEFINE y == [Top(a) EXCEPT !.at = "called"]
  <2>1. Top(a).op = "emit" /\ Top(a).at = "calling" /\ ~Calling(Top(a).d, {"release"})
    BY <1>8, InPlace DEF NestedCall
  <2>2. y \in CallSet /\ y.op = "emit" /\ y.d = Top(a).d /\ y.r = Top(a).r /\ y.at = "called" /\ y.c = Top(a).c
    BY <1>2, <2>1 DEF CallSet
  <2>3. Inward(a, y)
    BY <1>3, <2>1, <2>2 DEF Inward, HostCalls
  <2>4. PICK op \in NestedCalls :
            stack' = [stack EXCEPT ![a] = <<Call(op, Top(a).d), [Top(a) EXCEPT !.at = "called"]>> \o Tail(stack[a])]
    BY <1>8 DEF NestedCall
  <2>5. /\ Call(op, Top(a).d) \in CallSet /\ Call(op, Top(a).d).op = op /\ Call(op, Top(a).d).d = Top(a).d
        /\ Call(op, Top(a).d).at = "begin" /\ Call(op, Top(a).d).c = 0 /\ Call(op, Top(a).d).r = 0
        /\ op \in {"set", "pause", "cancel", "start"}
    <3>1. op \in {"set", "pause", "cancel", "start"} /\ Top(a).d \in Downloads /\ "progress" \in Slots
      BY <1>3, <2>1 DEF FfiAssumption
    <3>2. /\ op \in HostCalls \cup {"set", "start", "pause", "cancel", "emit"}
          /\ Top(a).d \in Downloads \cup {Nobody}
      BY <3>1
    <3>3. QED
      BY <3>1, <3>2, Begins
  <2> DEFINE x == Call(op, Top(a).d)
  <2>6. Inward(a, x)
    BY <1>3, <2>1, <2>5 DEF Inward, HostCalls
  <2> HIDE DEF x, y
  <2>7. stack' = [stack EXCEPT ![a] = <<x>> \o (<<y>> \o Tail(stack[a]))]
    <3>1. <<x, y>> \o Tail(stack[a]) = <<x>> \o (<<y>> \o Tail(stack[a]))
      <4>1. <<x, y>> = <<x>> \o <<y>>
        OBVIOUS
      <4>2. x \in CallSet /\ <<x>> \in Seq(CallSet) /\ <<y>> \in Seq(CallSet) /\ Tail(stack[a]) \in Seq(CallSet)
        BY <1>1, <2>2, <2>5, TopOf DEF x
      <4>3. (<<x>> \o <<y>>) \o Tail(stack[a]) = <<x>> \o (<<y>> \o Tail(stack[a]))
        BY <4>2, ConcatAssociative
      <4>4. QED
        BY <4>1, <4>3
    <3>2. QED
      BY <2>4, <3>1 DEF x, y
  <2>8. /\ <<y>> \o Tail(stack[a]) \in Seq(CallSet)
        /\ <<x>> \o (<<y>> \o Tail(stack[a])) \in Seq(CallSet)
        /\ Elements(<<x>> \o (<<y>> \o Tail(stack[a]))) = {x} \cup ({y} \cup Rest(a))
    <3>1. x \in CallSet /\ Tail(stack[a]) \in Seq(CallSet)
      BY <1>1, <2>5, TopOf DEF x
    <3>2. <<y>> \o Tail(stack[a]) \in Seq(CallSet) /\ Elements(<<y>> \o Tail(stack[a])) = {y} \cup Rest(a)
      BY <2>2, <3>1, Pushed DEF Rest
    <3>3. QED
      BY <3>1, <3>2, Pushed
  <2>9. StackBecomes(a, <<x>> \o (<<y>> \o Tail(stack[a])))
    BY <2>7, <2>8, Becomes
  <2>10. Calls(a)' = {x} \cup ({y} \cup Rest(a))
    BY <2>8, <2>9 DEF StackBecomes
  <2>11. /\ \A z \in Rest(a) : z.op \notin HostCalls
         /\ x.op \notin HostCalls /\ y.op \notin HostCalls /\ Inward(a, x) /\ Inward(a, y)
    BY <1>1, <2>3, <2>6, RestNotHost DEF Inward, x
  <2>12. QED
    BY <1>1, <2>9, <2>10, <2>11, TopOf DEF InnerStack, StackBecomes
<1>9. CASE Start(a)
  <2> DEFINE x == [Top(a) EXCEPT !.at = "spawn"]
  <2>1. Top(a).op = "start" /\ box[Top(a).d] = "live" /\ Notify(a, "progress", <<x>> \o Tail(stack[a]))
    BY <1>9, InPlace DEF Start
  <2>2. /\ x \in CallSet /\ x.op = "start" /\ x.d = Top(a).d /\ x.r = Top(a).r /\ x.at = "spawn"
        /\ x.c = Top(a).c
    BY <1>2, <2>1 DEF CallSet
  <2>3. Inward(a, x)
    BY <1>3, <2>1, <2>2 DEF Inward, HostCalls
  <2> HIDE DEF x
  <2>4. "progress" \in Slots /\ Top(a).d \in Downloads
    BY <1>3, <2>1 DEF FfiAssumption
  <2>5. QED
    BY <1>1, <2>1, <2>2, <2>3, <2>4, InnerNotifiesOver
<1>10. CASE Request(a)
  <2> DEFINE x == [Top(a) EXCEPT !.at = "join"]
  <2>1. /\ Top(a).op \in {"pause", "cancel"} /\ box[Top(a).d] = "live"
        /\ Notify(a, "progress", Tail(stack[a])) \/ Notify(a, "progress", <<x>> \o Tail(stack[a]))
    BY <1>10, InPlace DEF Request
  <2>2. /\ x \in CallSet /\ x.op = Top(a).op /\ x.d = Top(a).d /\ x.r = Top(a).r /\ x.at = "join"
        /\ x.c = Top(a).c
    BY <1>2, <2>1 DEF CallSet
  <2>3. Inward(a, x)
    BY <1>3, <2>1, <2>2 DEF Inward, HostCalls
  <2> HIDE DEF x
  <2>4. "progress" \in Slots /\ Top(a).d \in Downloads
    BY <1>3, <2>1 DEF FfiAssumption
  <2>5. QED
    BY <1>1, <2>1, <2>2, <2>3, <2>4, InnerNotifiesOver, InnerNotifies
<1>11. CASE CancelJoin(a)
  <2>1. Top(a).op = "cancel" /\ Top(a).at = "join" /\ (Return(a) \/ Notify(a, "progress", Tail(stack[a])))
    BY <1>11, InPlace DEF CancelJoin
  <2>2. "progress" \in Slots /\ Top(a).d \in Downloads /\ box[Top(a).d] = "live"
    BY <1>3, <2>1 DEF FfiAssumption
  <2>3. QED
    BY <1>1, <2>1, <2>2, InnerNotifies, InnerReturns
<1>12. QED
  BY <1>4, <1>5, <1>6, <1>7, <1>8, <1>9, <1>10, <1>11 DEF Inner

\* A function of the host goes on in another place, or returns.
Outward(a, x) ==
    /\ x \in CallSet /\ x.op = Top(a).op /\ x.d = Top(a).d /\ x.c = Top(a).c

OuterStack(a) ==
    /\ stack' \in [Actors -> Seq(CallSet)]
    /\ \A b \in Actors \ {a} : stack'[b] = stack[b] /\ Calls(b)' = Calls(b)
    /\ stack[a] # <<>> /\ Top(a) \in CallSet /\ Calls(a) = {Top(a)} /\ Top(a).op \in HostCalls /\ a \in Threads
    /\ \A x \in Calls(a)' : Outward(a, x) /\ Len(stack'[a]) = 1

\* A call made from outside a callback is alone on its stack, and stays so.
LEMMA OuterGoes ==
    ASSUME FfiTypeOK, StackInv, NEW a \in Actors, stack[a] # <<>>, Top(a).op \in HostCalls,
           NEW x \in CallSet, Outward(a, x), Goto(a, x)
    PROVE  OuterStack(a) /\ Calls(a)' = {x}
<1>1. Top(a) \in Calls(a) /\ Len(stack[a]) = 1 /\ a \in Threads
  BY TopOf DEF StackInv
<1>2. /\ StackBecomes(a, <<x>> \o Tail(stack[a])) /\ Calls(a)' = {x} \cup Rest(a)
      /\ Len(stack'[a]) = Len(stack[a])
  BY Goes
<1>3. QED
  BY <1>1, <1>2, TopOf DEF OuterStack, StackBecomes

\* When it returns the stack is empty.
LEMMA OuterReturns ==
    ASSUME FfiTypeOK, StackInv, NEW a \in Actors, stack[a] # <<>>, Top(a).op \in HostCalls, Return(a)
    PROVE  OuterStack(a) /\ Calls(a)' = {}
<1>1. Top(a) \in Calls(a) /\ Len(stack[a]) = 1 /\ a \in Threads
  BY TopOf DEF StackInv
<1>2. StackBecomes(a, Tail(stack[a])) /\ Calls(a)' = Rest(a)
  BY Returns
<1>3. QED
  BY <1>1, <1>2, TopOf DEF OuterStack, StackBecomes

OuterMoves(a) ==
    /\ GlobalInit(a) \/ Create(a) \/ DropHandle(a) => Calls(a)' = {}
    /\ \A x \in Calls(a)' :
          /\ GlobalShutdown(a) =>
                x.at = "stopping" /\ x.r = global /\ global # 0 /\ Owners(global) = {"GLOBAL"}
          /\ CurrentGlobal(a) => x.at = "cloned" /\ x.r = global /\ global # 0
          /\ DropClone(a) => x.at = "stopping" /\ x.r = Top(a).r /\ Owners(Top(a).r) = {a}
          /\ Stop(a) => x.op = "release" /\ x.at = "inner" /\ x.r = 0
          /\ ReleaseHandle(a) =>
                \/ x.at = "inner" /\ x.r = 0
                \/ x.at = "stopping" /\ x.r = host[Top(a).d] /\ Owners(host[Top(a).d]) = {Top(a).d}

\* Every step of such a call is one or the other.
LEMMA OuterStep ==
    ASSUME FfiTypeOK, StackInv, RuntimeInv, NEW a \in Actors, Outer(a)
    PROVE  OuterStack(a) /\ OuterMoves(a)
<1>1. stack[a] # <<>>
  BY DEF Outer, GlobalInit, GlobalShutdown, CurrentGlobal, DropClone, Create, Stop, ReleaseHandle,
         DropHandle, In
<1>2. Top(a) \in CallSet /\ Top(a) \in Calls(a)
  BY <1>1, TopOf
<1>3. Top(a).op \in HostCalls
  <2>1. CASE Stop(a)
    <3>1. Top(a).r # 0
      BY <1>2, <2>1 DEF Stop, RuntimeInv
    <3>2. QED
      BY <1>2, <3>1 DEF RuntimeInv
  <2>2. CASE ~Stop(a)
    BY <2>2, InPlace DEF Outer, GlobalInit, GlobalShutdown, CurrentGlobal, DropClone, Create, ReleaseHandle,
                DropHandle, HostCalls
  <2>3. QED
    BY <2>1, <2>2
<1> DEFINE Going(place, r) == [Top(a) EXCEPT !.at = place, !.r = r]
<1>4. ASSUME NEW place \in {"cloned", "stopping", "inner"}, NEW r \in Nat
      PROVE  /\ Going(place, r) \in CallSet /\ Outward(a, Going(place, r))
             /\ Going(place, r).at = place /\ Going(place, r).r = r
             /\ Going(place, r).op = Top(a).op
  BY <1>2 DEF CallSet, Outward
<1>5. global \in Nat /\ Top(a).r \in Nat /\ (Top(a).at \notin {"cloned", "stopping"} => Top(a).r = 0)
  BY <1>2 DEF FfiTypeOK, CallSet, RuntimeInv
<1>6. /\ [Top(a) EXCEPT !.at = "stopping"] = Going("stopping", Top(a).r)
      /\ [Top(a) EXCEPT !.at = "inner"] = Going("inner", Top(a).r)
  BY <1>2 DEF CallSet
<1> HIDE DEF Going
<1>7. ASSUME Return(a) PROVE OuterStack(a) /\ Calls(a)' = {}
  BY <1>1, <1>3, <1>7, OuterReturns
<1>8. ASSUME NEW place \in {"cloned", "stopping", "inner"}, NEW r \in Nat, Goto(a, Going(place, r))
      PROVE  /\ OuterStack(a)
             /\ \A x \in Calls(a)' : x.at = place /\ x.r = r /\ x.op = Top(a).op
  BY <1>1, <1>3, <1>4, <1>8, OuterGoes
<1> DEFINE Ends == Return(a) /\ OuterStack(a) /\ Calls(a)' = {}
           Stands(place, r) == /\ OuterStack(a)
                               /\ \A x \in Calls(a)' : x.at = place /\ x.r = r /\ x.op = Top(a).op
<1>9. GlobalInit(a) \/ Create(a) \/ DropHandle(a) => Ends
  BY <1>7 DEF GlobalInit, Create, DropHandle
<1>10. ASSUME GlobalShutdown(a)
       PROVE  Ends \/ (Stands("stopping", global) /\ global # 0 /\ Owners(global) = {"GLOBAL"})
  <2>1. CASE Return(a)
    BY <1>7, <2>1
  <2>2. CASE ~Return(a)
    <3>1. Goto(a, Going("stopping", global)) /\ global # 0 /\ Owners(global) = {"GLOBAL"}
      BY <1>10, <2>2 DEF GlobalShutdown, Going
    <3>2. QED
      BY <1>5, <1>8, <3>1
  <2>3. QED
    BY <2>1, <2>2
<1>11. ASSUME CurrentGlobal(a) PROVE Ends \/ (Stands("cloned", global) /\ global # 0)
  <2>1. CASE Return(a)
    BY <1>7, <2>1
  <2>2. CASE ~Return(a)
    <3>1. Goto(a, Going("cloned", global)) /\ global # 0
      BY <1>11, <2>2 DEF CurrentGlobal, Going
    <3>2. QED
      BY <1>5, <1>8, <3>1
  <2>3. QED
    BY <2>1, <2>2
<1>12. ASSUME DropClone(a)
       PROVE  Ends \/ (Stands("stopping", Top(a).r) /\ Owners(Top(a).r) = {a})
  <2>1. CASE Return(a)
    BY <1>7, <2>1
  <2>2. CASE ~Return(a)
    <3>1. Goto(a, Going("stopping", Top(a).r)) /\ Owners(Top(a).r) = {a}
      BY <1>6, <1>12, <2>2 DEF DropClone
    <3>2. QED
      BY <1>5, <1>8, <3>1
  <2>3. QED
    BY <2>1, <2>2
<1>13. ASSUME Stop(a) PROVE Ends \/ (Stands("inner", 0) /\ Top(a).op = "release")
  <2>1. CASE Return(a)
    BY <1>7, <2>1
  <2>2. CASE ~Return(a)
    <3>1. Goto(a, Going("inner", 0)) /\ Top(a).op = "release"
      BY <1>13, <2>2 DEF Stop, Going
    <3>2. QED
      BY <1>8, <3>1
  <2>3. QED
    BY <2>1, <2>2
<1>14. ASSUME ReleaseHandle(a)
       PROVE  \/ Stands("inner", 0)
              \/ Stands("stopping", host[Top(a).d]) /\ Owners(host[Top(a).d]) = {Top(a).d}
  <2>1. Top(a).op = "release" /\ Top(a).at = "begin"
    BY <1>14, InPlace DEF ReleaseHandle
  <2>2. Top(a).d \in Downloads
    BY <1>2, <2>1 DEF StackInv
  <2>3. host[Top(a).d] \in Nat
    BY <2>2 DEF FfiTypeOK
  <2>4. \/ Goto(a, Going("inner", 0))
        \/ Goto(a, Going("stopping", host[Top(a).d])) /\ Owners(host[Top(a).d]) = {Top(a).d}
    <3>1. Top(a).r = 0 /\ [Top(a) EXCEPT !.at = "inner"] = Going("inner", 0)
      BY <1>5, <1>6, <2>1
    <3>2. QED
      BY <1>14, <3>1 DEF ReleaseHandle, Going
  <2>5. CASE Goto(a, Going("inner", 0))
    BY <1>8, <2>5
  <2>6. CASE Goto(a, Going("stopping", host[Top(a).d])) /\ Owners(host[Top(a).d]) = {Top(a).d}
    BY <1>8, <2>3, <2>6
  <2>7. QED
    BY <2>4, <2>5, <2>6
<1>15. OuterStack(a)
  BY <1>9, <1>10, <1>11, <1>12, <1>13, <1>14 DEF Outer
<1>16. OuterMoves(a)
  BY <1>9, <1>10, <1>11, <1>12, <1>13, <1>14 DEF OuterMoves
<1>17. QED
  BY <1>15, <1>16

\* A call begins on an empty stack.
BegunStack(a, x) ==
    /\ stack' \in [Actors -> Seq(CallSet)]
    /\ \A b \in Actors \ {a} : stack'[b] = stack[b] /\ Calls(b)' = Calls(b)
    /\ Calls(a) = {} /\ Calls(a)' = {x} /\ Len(stack'[a]) = 1
    /\ x \in CallSet /\ x.at = "begin" /\ x.c = 0 /\ x.r = 0

\* A call begins on an empty stack.
LEMMA BeginsOn ==
    ASSUME FfiTypeOK, NEW a \in Actors, stack[a] = <<>>, NEW x \in CallSet,
           x.at = "begin", x.c = 0, x.r = 0, stack' = [stack EXCEPT ![a] = <<x>>]
    PROVE  BegunStack(a, x)
<1>1. <<x>> \in Seq(CallSet) /\ Len(<<x>>) = 1 /\ Elements(<<x>>) = {x}
  BY DEF Elements
<1>2. StackBecomes(a, <<x>>)
  BY <1>1, Becomes
<1>3. Calls(a) = {}
  BY DEF Calls
<1>4. QED
  BY <1>1, <1>2, <1>3 DEF StackBecomes, BegunStack

HostStep ==
    \/ \E t \in Managers : GlobalCall(t)
    \/ \E t \in Users, d \in Downloads : DownloadCall(t, d)

\* What the host may call, and when.
HostBegins(x) ==
    \/ x.op \in {"init", "shutdown", "set_max_io"} /\ x.d = Nobody
    \/ /\ x.op = "create" /\ x.d \in Downloads /\ box[x.d] = "none"
       /\ ~Calling(x.d, {"create"})
    \/ /\ x.op \in {"set", "start", "pause", "cancel"} /\ x.d \in Downloads
       /\ ~Calling(x.d, {"release"})
    \/ x.op = "release" /\ x.d \in Downloads /\ box[x.d] # "none" /\ ~Busy(x.d)

\* What a host thread calls begins with nothing in its hands.
LEMMA HostCalled ==
    ASSUME FfiAssumption, FfiTypeOK, HostStep
    PROVE  /\ UNCHANGED <<engine, boxes, join, task, callbacks>>
           /\ \E t \in Threads, x \in CallSet : BegunStack(t, x) /\ HostBegins(x)
<1>1. ASSUME NEW t \in Threads, NEW d \in Downloads \cup {Nobody},
             NEW op \in HostCalls \cup {"set", "start", "pause", "cancel"}, HostCall(t, op, d)
      PROVE  /\ UNCHANGED <<engine, boxes, join, task, callbacks>>
             /\ \E x \in CallSet : BegunStack(t, x) /\ x.op = op /\ x.d = d
  <2>1. /\ Call(op, d) \in CallSet /\ Call(op, d).op = op /\ Call(op, d).d = d
        /\ Call(op, d).at = "begin" /\ Call(op, d).c = 0 /\ Call(op, d).r = 0
    BY Begins
  <2>2. t \in Actors /\ stack[t] = <<>> /\ stack' = [stack EXCEPT ![t] = <<Call(op, d)>>]
    BY <1>1 DEF HostCall, Actors
  <2>3. BegunStack(t, Call(op, d))
    BY <2>1, <2>2, BeginsOn
  <2>4. QED
    BY <1>1, <2>1, <2>3 DEF HostCall
<1>2. ASSUME NEW t \in Managers, GlobalCall(t)
      PROVE  /\ UNCHANGED <<engine, boxes, join, task, callbacks>>
             /\ \E x \in CallSet : BegunStack(t, x) /\ HostBegins(x)
  <2>1. PICK op \in {"init", "shutdown", "set_max_io"} : HostCall(t, op, Nobody)
    BY <1>2 DEF GlobalCall
  <2>2. QED
    BY <1>1, <2>1 DEF Threads, HostCalls, HostBegins
<1>3. ASSUME NEW t \in Users, NEW d \in Downloads, DownloadCall(t, d)
      PROVE  /\ UNCHANGED <<engine, boxes, join, task, callbacks>>
             /\ \E x \in CallSet : BegunStack(t, x) /\ HostBegins(x)
  <2>1. CASE box[d] = "none" /\ ~Calling(d, {"create"}) /\ HostCall(t, "create", d)
    BY <1>1, <2>1 DEF Threads, HostCalls, HostBegins
  <2>2. ASSUME NEW op \in {"set", "start", "pause", "cancel"}, ~Calling(d, {"release"}), HostCall(t, op, d)
        PROVE  /\ UNCHANGED <<engine, boxes, join, task, callbacks>>
               /\ \E x \in CallSet : BegunStack(t, x) /\ HostBegins(x)
    BY <1>1, <2>2 DEF Threads, HostBegins
  <2>3. CASE box[d] # "none" /\ ~Busy(d) /\ HostCall(t, "release", d)
    BY <1>1, <2>3 DEF Threads, HostCalls, HostBegins
  <2>4. QED
    BY <1>3, <2>1, <2>2, <2>3 DEF DownloadCall, DownloadCalls
<1>4. QED
  BY <1>2, <1>3 DEF HostStep, Threads

\* What a task emits begins so too, while the task runs.
LEMMA TaskCalled ==
    ASSUME FfiAssumption, FfiTypeOK, NEW d \in Downloads, TaskNotifies(d)
    PROVE  /\ UNCHANGED <<engine, boxes, join, task, callbacks>> /\ task[d] = "running"
           /\ \E x \in CallSet : BegunStack(d, x) /\ x.op = "emit" /\ x.d = d
<1>1. PICK s \in Slots : stack' = [stack EXCEPT ![d] = <<[Call("emit", d) EXCEPT !.s = s]>>]
  BY DEF TaskNotifies
<1> DEFINE x == [Call("emit", d) EXCEPT !.s = s]
<1>2. /\ x \in CallSet /\ x.op = "emit" /\ x.d = d /\ x.at = "begin" /\ x.c = 0 /\ x.r = 0
  BY EmitBegins
<1> HIDE DEF x
<1>3. d \in Actors /\ stack[d] = <<>> /\ stack' = [stack EXCEPT ![d] = <<x>>]
  BY <1>1 DEF TaskNotifies, Actors, x
<1>4. BegunStack(d, x)
  BY <1>2, <1>3, BeginsOn
<1>5. QED
  BY <1>2, <1>4 DEF TaskNotifies

\* The steps, by the stack they are on.
LEMMA StepCases ==
    ASSUME [FfiNext]_ffiVars
    PROVE  \/ \E a \in Actors : Inner(a) \/ Outer(a)
           \/ HostStep
           \/ \E d \in Downloads : TaskNotifies(d) \/ TaskEnds(d)
           \/ UNCHANGED ffiVars
BY DEF FfiNext, Step, Inner, Outer, HostStep

-----------------------------------------------------------------------------
(* The invariant, part by part: stacks                                     *)

FfiIInv ==
    /\ FfiTypeOK /\ StackInv /\ RuntimeInv /\ BirthInv /\ UseInv /\ ContextInv
    /\ ContextsReleasedOnce /\ OneEngine

\* What may lie on what is kept: a host call lies at the bottom.
LEMMA StackKept ==
    ASSUME FfiAssumption, FfiIInv, [FfiNext]_ffiVars
    PROVE  StackInv' /\ stack' \in [Actors -> Seq(CallSet)]
<1> USE DEF FfiIInv
<1>1. ASSUME NEW a \in Actors, Inner(a) PROVE StackInv' /\ stack' \in [Actors -> Seq(CallSet)]
  <2>1. InnerStack(a)
    BY <1>1, InnerStep
  <2> SUFFICES ASSUME NEW b \in Actors, NEW x \in Calls(b)'
               PROVE  /\ x.op \in HostCalls => b \in Threads /\ Len(stack'[b]) = 1
                      /\ x.op \notin {"init", "shutdown", "set_max_io"} => x.d \in Downloads
                      /\ b \in Downloads => x.d = b
    BY <2>1 DEF StackInv, InnerStack
  <2>2. CASE b # a
    BY <2>1, <2>2 DEF StackInv, InnerStack
  <2>3. CASE b = a /\ x \in Rest(a)
    BY <2>1, <2>3 DEF StackInv, InnerStack
  <2>4. CASE b = a /\ Inward(a, x)
    BY <2>1, <2>4 DEF StackInv, InnerStack, Inward
  <2>5. QED
    BY <2>1, <2>2, <2>3, <2>4 DEF InnerStack
<1>2. ASSUME NEW a \in Actors, Outer(a) PROVE StackInv' /\ stack' \in [Actors -> Seq(CallSet)]
  <2>1. OuterStack(a)
    BY <1>2, OuterStep
  <2>2. ASSUME NEW x \in Calls(a)'
        PROVE  /\ a \in Threads /\ Len(stack'[a]) = 1
               /\ x.op \notin {"init", "shutdown", "set_max_io"} => x.d \in Downloads
               /\ a \in Downloads => x.d = a
    BY <2>1, <2>2 DEF StackInv, OuterStack, Outward
  <2>3. QED
    BY <2>1, <2>2 DEF StackInv, OuterStack
<1>3. CASE HostStep
  <2>1. PICK t \in Threads, x \in CallSet : BegunStack(t, x) /\ HostBegins(x)
    BY <1>3, HostCalled
  <2>2. t \notin Downloads /\ (x.op \notin {"init", "shutdown", "set_max_io"} => x.d \in Downloads)
    BY <2>1 DEF FfiAssumption, Threads, HostBegins
  <2>3. QED
    BY <2>1, <2>2 DEF StackInv, BegunStack
<1>4. ASSUME NEW d \in Downloads, TaskNotifies(d) PROVE StackInv' /\ stack' \in [Actors -> Seq(CallSet)]
  <2>1. PICK x \in CallSet : BegunStack(d, x) /\ x.op = "emit" /\ x.d = d
    BY <1>4, TaskCalled
  <2>2. QED
    BY <2>1 DEF StackInv, BegunStack, HostCalls
<1>5. ASSUME stack' = stack PROVE StackInv' /\ stack' \in [Actors -> Seq(CallSet)]
  BY <1>5 DEF StackInv, Calls, FfiTypeOK
<1>6. QED
  BY <1>1, <1>2, <1>3, <1>4, <1>5, StepCases DEF TaskEnds, ffiVars

-----------------------------------------------------------------------------
(* Types                                                                   *)

\* Dropping a state releases contexts that there are.
LEMMA DropsStatesTyped ==
    ASSUME FfiTypeOK, NEW ds, DropStates(ds)
    PROVE  /\ releases' \in [1 .. MaxContexts -> Nat]
           /\ installed' \in [Downloads -> [Slots -> 0 .. contexts]]
           /\ contexts' = contexts /\ owner' = owner
<1>1. releases \in [1 .. MaxContexts -> Nat] /\ installed \in [Downloads -> [Slots -> 0 .. contexts]]
      /\ contexts \in Nat
  BY DEF FfiTypeOK
<1>2. QED
  BY <1>1 DEF DropStates

\* Types of the runtimes and of the handles are kept.
LEMMA TypesEngine ==
    ASSUME FfiAssumption, FfiIInv, [FfiNext]_ffiVars
    PROVE  /\ runtimes' \in Nat /\ global' \in 0 .. runtimes' /\ stopped' \subseteq 1 .. runtimes'
           /\ shutdowns' \in Nat
           /\ box' \in [Downloads -> {"none", "live", "freeing", "freed"}]
           /\ host' \in [Downloads -> 0 .. runtimes'] /\ born' \in [Downloads -> 0 .. shutdowns']
<1> USE DEF FfiIInv
<1>1. ASSUME UNCHANGED <<engine, boxes>>
      PROVE  /\ runtimes' \in Nat /\ global' \in 0 .. runtimes' /\ stopped' \subseteq 1 .. runtimes'
             /\ shutdowns' \in Nat
             /\ box' \in [Downloads -> {"none", "live", "freeing", "freed"}]
             /\ host' \in [Downloads -> 0 .. runtimes'] /\ born' \in [Downloads -> 0 .. shutdowns']
  BY <1>1 DEF engine, boxes, FfiTypeOK
<1>2. ASSUME NEW a \in Actors, Inner(a) PROVE UNCHANGED <<engine, boxes>>
  BY <1>2 DEF Inner, SetCallback, RemoveCallback, SetRefused, ListenerUnresolved, DropPrevious,
         CloneCallback, CallbackReturns, NestedCall, Refused, Start, Spawn, Request, CancelJoin
<1>3. ASSUME NEW a \in Actors, Outer(a)
      PROVE  /\ runtimes' \in Nat /\ global' \in 0 .. runtimes' /\ stopped' \subseteq 1 .. runtimes'
             /\ shutdowns' \in Nat
             /\ box' \in [Downloads -> {"none", "live", "freeing", "freed"}]
             /\ host' \in [Downloads -> 0 .. runtimes'] /\ born' \in [Downloads -> 0 .. shutdowns']
  <2>0. Top(a) \in CallSet /\ Top(a) \in Calls(a)
    BY <1>3, OuterStep DEF OuterStack
  <2>1. CASE GlobalInit(a)
    <3>1. /\ UNCHANGED <<stopped, shutdowns, boxes>>
          /\ \/ UNCHANGED <<global, runtimes>>
             \/ runtimes' = runtimes + 1 /\ global' = runtimes'
      BY <2>1 DEF GlobalInit
    <3>2. QED
      BY <3>1 DEF FfiTypeOK, boxes
  <2>2. CASE GlobalShutdown(a)
    BY <2>2 DEF GlobalShutdown, FfiTypeOK, boxes
  <2>3. CASE CurrentGlobal(a)
    <3>1. UNCHANGED <<engine, box, host>> /\ (born' = born \/ born' = [born EXCEPT ![Top(a).d] = shutdowns])
      BY <2>3 DEF CurrentGlobal
    <3>2. born \in [Downloads -> 0 .. shutdowns] /\ shutdowns \in 0 .. shutdowns /\ shutdowns' = shutdowns
      BY <3>1 DEF FfiTypeOK, engine
    <3>3. born' \in [Downloads -> 0 .. shutdowns']
      BY <3>1, <3>2
    <3>4. QED
      BY <3>1, <3>3 DEF FfiTypeOK, engine
  <2>4. CASE DropClone(a)
    BY <1>1, <2>4 DEF DropClone
  <2>5. CASE Create(a)
    <3>1. /\ UNCHANGED <<engine, born>> /\ box' = [box EXCEPT ![Top(a).d] = "live"]
          /\ host' = [host EXCEPT ![Top(a).d] = Top(a).r] /\ Top(a).at = "cloned"
      BY <2>5, InPlace DEF Create
    <3>2. Top(a).r \in 0 .. runtimes
      BY <2>0, <3>1 DEF RuntimeInv, FfiTypeOK
    <3>3. QED
      BY <3>1, <3>2 DEF FfiTypeOK, engine
  <2>6. CASE Stop(a)
    <3>1. /\ UNCHANGED <<global, runtimes, shutdowns, boxes>> /\ stopped' = stopped \cup {Top(a).r}
          /\ Top(a).at = "stopping"
      BY <2>6 DEF Stop
    <3>2. Top(a).r \in 1 .. runtimes
      BY <2>0, <3>1 DEF RuntimeInv
    <3>3. QED
      BY <3>1, <3>2 DEF FfiTypeOK, boxes
  <2>7. CASE ReleaseHandle(a)
    <3>1. UNCHANGED <<engine, host, born>> /\ box' = [box EXCEPT ![Top(a).d] = "freeing"]
      BY <2>7 DEF ReleaseHandle
    <3>2. QED
      BY <3>1 DEF FfiTypeOK, engine
  <2>8. CASE DropHandle(a)
    <3>1. UNCHANGED <<engine, host, born>> /\ box' = [box EXCEPT ![Top(a).d] = "freed"]
      BY <2>8 DEF DropHandle
    <3>2. QED
      BY <3>1 DEF FfiTypeOK, engine
  <2>9. QED
    BY <1>3, <2>1, <2>2, <2>3, <2>4, <2>5, <2>6, <2>7, <2>8 DEF Outer
<1>4. CASE HostStep
  BY <1>1, <1>4, HostCalled
<1>5. ASSUME NEW d \in Downloads, TaskNotifies(d) \/ TaskEnds(d) PROVE UNCHANGED <<engine, boxes>>
  BY <1>5 DEF TaskNotifies, TaskEnds
<1>6. QED
  BY <1>1, <1>2, <1>3, <1>4, <1>5, StepCases DEF ffiVars

\* The next context is one that was not made yet.
LEMMA NextContext ==
    ASSUME FfiAssumption, FfiTypeOK, contexts < MaxContexts
    PROVE  /\ contexts + 1 \in 1 .. MaxContexts /\ contexts + 1 \in 0 .. MaxContexts
           /\ 0 .. contexts \subseteq 0 .. contexts + 1 /\ contexts \in Nat
BY DEF FfiAssumption, FfiTypeOK

CallbacksTyped ==
    /\ contexts' \in 0 .. MaxContexts
    /\ installed' \in [Downloads -> [Slots -> 0 .. contexts']]
    /\ owner' \in [1 .. MaxContexts -> Downloads \cup {Nobody}]
    /\ releases' \in [1 .. MaxContexts -> Nat]

\* Types of contexts and slots are kept.
LEMMA TypesCallbacks ==
    ASSUME FfiAssumption, FfiIInv, [FfiNext]_ffiVars
    PROVE  CallbacksTyped
<1> USE DEF FfiIInv, CallbacksTyped
<1>1. ASSUME UNCHANGED callbacks PROVE CallbacksTyped
  BY <1>1 DEF callbacks, FfiTypeOK
<1>2. ASSUME NEW ds, DropStates(ds) PROVE CallbacksTyped
  <2>1. /\ releases' \in [1 .. MaxContexts -> Nat]
        /\ installed' \in [Downloads -> [Slots -> 0 .. contexts]]
        /\ contexts' = contexts /\ owner' = owner
    BY <1>2, DropsStatesTyped
  <2>2. QED
    BY <2>1 DEF FfiTypeOK
<1>3. ASSUME NEW a \in Actors, Inner(a) PROVE CallbacksTyped
  <2>1. Top(a) \in CallSet /\ Top(a) \in Calls(a)
    BY <1>3, InnerStep, CallsTyped DEF InnerStack
  <2>2. Top(a).d \in Downloads
    <3>1. Top(a).op \notin {"init", "shutdown", "set_max_io"}
      BY <1>3 DEF Inner, SetCallback, RemoveCallback, SetRefused, ListenerUnresolved, DropPrevious,
             CloneCallback, CallbackReturns, NestedCall, Refused, Start, Spawn, Request, CancelJoin, In, Top
    <3>2. QED
      BY <2>1, <3>1 DEF StackInv
  <2>3. Top(a).c \in 0 .. contexts
    <3>1. Top(a).c # 0 => Top(a).c \in 1 .. contexts
      BY <2>1 DEF ContextInv
    <3>2. contexts \in Nat
      BY DEF FfiTypeOK
    <3>3. QED
      BY <3>1, <3>2
  <2>4. CASE SetCallback(a)
    <3>1. PICK s \in Slots : installed' = [installed EXCEPT ![Top(a).d][s] = contexts + 1]
      BY <2>4 DEF SetCallback
    <3>2. /\ contexts < MaxContexts /\ contexts' = contexts + 1
          /\ owner' = [owner EXCEPT ![contexts + 1] = Top(a).d] /\ releases' = releases
      BY <2>4 DEF SetCallback
    <3>3. installed' \in [Downloads -> [Slots -> 0 .. contexts + 1]]
      <4>1. installed \in [Downloads -> [Slots -> 0 .. contexts + 1]] /\ contexts + 1 \in 0 .. contexts + 1
        BY <3>2, NextContext DEF FfiTypeOK
      <4>2. QED
        BY <2>2, <3>1, <4>1
    <3>4. QED
      BY <2>2, <3>2, <3>3, NextContext DEF FfiTypeOK
  <2>5. CASE RemoveCallback(a)
    <3>1. PICK s \in Slots : installed' = [installed EXCEPT ![Top(a).d][s] = 0]
      BY <2>5 DEF RemoveCallback
    <3>2. UNCHANGED <<contexts, owner, releases>>
      BY <2>5 DEF RemoveCallback
    <3>3. installed \in [Downloads -> [Slots -> 0 .. contexts]] /\ 0 \in 0 .. contexts
      BY DEF FfiTypeOK
    <3>4. installed' \in [Downloads -> [Slots -> 0 .. contexts]]
      BY <2>2, <3>1, <3>3
    <3>5. QED
      BY <3>2, <3>4 DEF FfiTypeOK
  <2>6. CASE SetRefused(a)
    <3>1. /\ contexts < MaxContexts /\ contexts' = contexts + 1
          /\ owner' = [owner EXCEPT ![contexts + 1] = Top(a).d]
          /\ releases' = [releases EXCEPT ![contexts + 1] = releases[contexts + 1] + 1]
          /\ installed' = installed
      BY <2>6 DEF SetRefused
    <3>2. installed' \in [Downloads -> [Slots -> 0 .. contexts + 1]]
      BY <3>1, NextContext DEF FfiTypeOK
    <3>3. releases' \in [1 .. MaxContexts -> Nat]
      <4>1. releases \in [1 .. MaxContexts -> Nat]
        BY DEF FfiTypeOK
      <4>2. contexts + 1 \in 1 .. MaxContexts
        BY <3>1, NextContext
      <4>3. releases[contexts + 1] + 1 \in Nat
        BY <4>1, <4>2
      <4>4. QED
        BY <3>1, <4>1, <4>3
    <3>4. QED
      BY <2>2, <3>1, <3>2, <3>3, NextContext DEF FfiTypeOK
  <2>7. CASE DropPrevious(a) \/ CallbackReturns(a)
    <3>1. UNCHANGED <<installed, contexts, owner>> /\ Release(a, Top(a).c)
      BY <2>7 DEF DropPrevious, CallbackReturns
    <3>2. releases' \in [1 .. MaxContexts -> Nat]
      <4>1. \/ releases' = releases
            \/ /\ Top(a).c # 0
               /\ releases' = [releases EXCEPT ![Top(a).c] = releases[Top(a).c] + 1]
        BY <3>1 DEF Release
      <4>2. releases \in [1 .. MaxContexts -> Nat] /\ (Top(a).c # 0 => Top(a).c \in 1 .. MaxContexts)
        BY <2>3 DEF FfiTypeOK, FfiAssumption
      <4>3. CASE releases' = releases
        BY <4>2, <4>3
      <4>4. ASSUME NEW c \in 1 .. MaxContexts, releases' = [releases EXCEPT ![c] = releases[c] + 1]
            PROVE  releases' \in [1 .. MaxContexts -> Nat]
        <5>1. releases[c] + 1 \in Nat
          BY <4>2
        <5>2. QED
          BY <4>2, <4>4, <5>1
      <4>5. QED
        BY <4>1, <4>2, <4>3, <4>4
    <3>3. QED
      BY <3>1, <3>2 DEF FfiTypeOK
  <2>8. QED
    BY <1>1, <1>3, <2>4, <2>5, <2>6, <2>7 DEF Inner, ListenerUnresolved,
             CloneCallback, NestedCall, Refused, Start, Spawn, Request, CancelJoin
<1>4. ASSUME NEW a \in Actors, Outer(a) PROVE CallbacksTyped
  <2>1. CASE Stop(a) \/ DropHandle(a)
    BY <1>1, <1>2, <2>1 DEF Stop, DropHandle
  <2>2. CASE ~(Stop(a) \/ DropHandle(a))
    BY <1>1, <1>4, <2>2 DEF Outer, GlobalInit, GlobalShutdown, CurrentGlobal, DropClone, Create, ReleaseHandle
  <2>3. QED
    BY <2>1, <2>2
<1>5. CASE HostStep
  BY <1>1, <1>5, HostCalled
<1>6. ASSUME NEW d \in Downloads, TaskNotifies(d) \/ TaskEnds(d) PROVE CallbacksTyped
  BY <1>1, <1>2, <1>6 DEF TaskNotifies, TaskEnds
<1>7. QED
  BY <1>1, <1>3, <1>4, <1>5, <1>6, StepCases DEF ffiVars

\* Types of the tasks are kept.
LEMMA TypesTask ==
    ASSUME FfiAssumption, FfiIInv, [FfiNext]_ffiVars
    PROVE  task' \in [Downloads -> {"none", "running", "aborted"}]
<1> USE DEF FfiIInv
<1>1. \/ task' = task
      \/ \E d, p : p \in {"none", "running", "aborted"} /\ task' = [task EXCEPT ![d] = p]
      \/ \E ds : task' = [d \in Downloads |-> IF d \in ds THEN "none" ELSE task[d]]
  <2>1. ASSUME NEW a \in Actors, Inner(a)
        PROVE  task' = task \/ \E d : task' = [task EXCEPT ![d] = "running"]
    BY <2>1 DEF Inner, SetCallback, RemoveCallback, SetRefused, ListenerUnresolved, DropPrevious,
         CloneCallback, CallbackReturns, NestedCall, Refused, Start, Spawn, Request, CancelJoin
  <2>2. ASSUME NEW a \in Actors, Stop(a)
        PROVE  \E ds : task' = [d \in Downloads |-> IF d \in ds THEN "none" ELSE task[d]]
    BY <2>2 DEF Stop
  <2>3. ASSUME NEW a \in Actors, Outer(a), ~Stop(a)
        PROVE  task' = task \/ \E d : task' = [task EXCEPT ![d] = "aborted"]
    BY <2>3 DEF Outer, GlobalInit, GlobalShutdown, CurrentGlobal, DropClone, Create, ReleaseHandle, DropHandle
  <2>4. ASSUME NEW d \in Downloads, TaskNotifies(d) \/ TaskEnds(d)
        PROVE  task' = task \/ task' = [task EXCEPT ![d] = "none"]
    BY <2>4 DEF TaskNotifies, TaskEnds
  <2>5. CASE HostStep
    BY <2>5, HostCalled
  <2>6. QED
    BY <2>1, <2>2, <2>3, <2>4, <2>5, StepCases DEF ffiVars
<1>2. task \in [Downloads -> {"none", "running", "aborted"}]
  BY DEF FfiTypeOK
<1>3. QED
  BY <1>1, <1>2

\* All types are kept.
LEMMA FfiTypesKept ==
    ASSUME FfiAssumption, FfiIInv, [FfiNext]_ffiVars
    PROVE  FfiTypeOK'
BY TypesEngine, TypesCallbacks, TypesTask, StackKept DEF FfiTypeOK, CallbacksTyped

-----------------------------------------------------------------------------
(* Runtimes                                                                *)

\* A runtime with one owner has no other: neither GLOBAL nor a handle nor a call.
LEMMA OwnersOf ==
    ASSUME NEW r, NEW o, Owners(r) = {o}
    PROVE  /\ global = r => o = "GLOBAL"
           /\ \A d \in Downloads : box[d] = "live" /\ host[d] = r => o = d
           /\ \A b \in Actors : \A x \in Calls(b) : x.r = r => b = o
<1>1. /\ global = r => "GLOBAL" \in Owners(r)
      /\ \A d \in Downloads : box[d] = "live" /\ host[d] = r => d \in Owners(r)
      /\ \A b \in Actors : \A x \in Calls(b) : x.r = r => b \in Owners(r)
  BY DEF Owners
<1>2. QED
  BY <1>1

\* Calls that take no runtime into their hands keep who owns which.
LEMMA RuntimeQuiet ==
    ASSUME RuntimeInv, UNCHANGED <<engine, boxes>>, NEW a \in Actors,
           \A b \in Actors \ {a} : Calls(b)' = Calls(b),
           \A x \in Calls(a)' : x \in Calls(a) \/ (x.r = 0 /\ x.at \notin {"cloned", "stopping"})
    PROVE  RuntimeInv'
<1>1. global' = global /\ stopped' = stopped /\ runtimes' = runtimes /\ box' = box /\ host' = host
  BY DEF engine, boxes
<1>2. \A b \in Actors : \A x \in Calls(b)' :
          x \in Calls(b) \/ (x.r = 0 /\ x.at \notin {"cloned", "stopping"})
  OBVIOUS
<1>3. ASSUME NEW b \in Actors, NEW x \in Calls(b)'
      PROVE  /\ x.r # 0 <=> x.at \in {"cloned", "stopping"}
             /\ x.r # 0 => x.op \in HostCalls /\ x.r \in (1 .. runtimes) \ stopped
  BY <1>2 DEF RuntimeInv
<1>4. ASSUME NEW b \in Actors, NEW x \in Calls(b)', x.at = "stopping"
      PROVE  /\ global # x.r
             /\ \A d \in Downloads : box[d] = "live" => host[d] # x.r
             /\ \A c \in Actors \ {b} : \A other \in Calls(c)' : other.r # x.r
  <2>1. x \in Calls(b) /\ x.r # 0
    BY <1>2, <1>3, <1>4
  <2>2. QED
    BY <1>2, <1>4, <2>1 DEF RuntimeInv
<1>5. QED
  BY <1>1, <1>3, <1>4 DEF RuntimeInv

\* The invariant after a step of a function of the host, from what is true of its call.
LEMMA RuntimeOuter ==
    ASSUME FfiTypeOK, RuntimeInv, NEW a \in Actors, OuterStack(a),
           global' \notin stopped', runtimes' \in Nat, runtimes <= runtimes',
           \A d \in Downloads : box'[d] = "live" => host'[d] # 0 /\ host'[d] \notin stopped',
           \A b \in Actors \ {a} : \A x \in Calls(b) : x.r \in stopped' => x.r \in stopped,
           \A b \in Actors \ {a} : \A x \in Calls(b) : x.at = "stopping" =>
                /\ global' # x.r
                /\ \A d \in Downloads : box'[d] = "live" => host'[d] # x.r
                /\ \A y \in Calls(a)' : y.r # x.r,
           \A y \in Calls(a)' :
                /\ y.r # 0 <=> y.at \in {"cloned", "stopping"}
                /\ y.r # 0 => y.r \in (1 .. runtimes') \ stopped'
                /\ y.at = "stopping" =>
                      /\ global' # y.r
                      /\ \A d \in Downloads : box'[d] = "live" => host'[d] # y.r
                      /\ \A b \in Actors \ {a} : \A x \in Calls(b) : x.r # y.r
    PROVE  RuntimeInv'
<1>1. \A b \in Actors \ {a} : Calls(b)' = Calls(b)
  BY DEF OuterStack
<1>2. ASSUME NEW b \in Actors \ {a}, NEW x \in Calls(b)
      PROVE  /\ x.r # 0 <=> x.at \in {"cloned", "stopping"}
             /\ x.r # 0 => x.op \in HostCalls /\ x.r \in (1 .. runtimes') \ stopped'
             /\ x.at = "stopping" =>
                   /\ global' # x.r
                   /\ \A d \in Downloads : box'[d] = "live" => host'[d] # x.r
                   /\ \A c \in Actors \ {b} : \A other \in Calls(c)' : other.r # x.r
  <2>1. /\ x.r # 0 <=> x.at \in {"cloned", "stopping"}
        /\ x.r # 0 => x.op \in HostCalls /\ x.r \in (1 .. runtimes) \ stopped
        /\ x.at = "stopping" => \A c \in Actors \ {b} : \A other \in Calls(c) : other.r # x.r
    BY DEF RuntimeInv
  <2>2. 1 .. runtimes \subseteq 1 .. runtimes'
    BY DEF FfiTypeOK
  <2>3. x.at = "stopping" => \A c \in Actors \ {b} : \A other \in Calls(c)' : other.r # x.r
    BY <1>1, <2>1
  <2>4. QED
    BY <2>1, <2>2, <2>3
<1>3. ASSUME NEW y \in Calls(a)'
      PROVE  /\ y.r # 0 <=> y.at \in {"cloned", "stopping"}
             /\ y.r # 0 => y.op \in HostCalls /\ y.r \in (1 .. runtimes') \ stopped'
             /\ y.at = "stopping" =>
                   /\ global' # y.r
                   /\ \A d \in Downloads : box'[d] = "live" => host'[d] # y.r
                   /\ \A c \in Actors \ {a} : \A other \in Calls(c)' : other.r # y.r
  BY <1>1 DEF OuterStack, Outward
<1>4. QED
  BY <1>1, <1>2, <1>3 DEF RuntimeInv

\* Clones, moves and drops of the runtime's Arc keep it.
LEMMA RuntimeOuterKept ==
    ASSUME FfiAssumption, FfiIInv, NEW a \in Actors, Outer(a)
    PROVE  RuntimeInv'
<1> USE DEF FfiIInv
<1>1. OuterStack(a) /\ OuterMoves(a)
  BY OuterStep
<1>2. /\ Calls(a) = {Top(a)} /\ Top(a) \in CallSet /\ a \in Threads /\ a # "GLOBAL" /\ a \notin Downloads
      /\ \A d \in Downloads : d # "GLOBAL"
      /\ \A b \in Actors : b # "GLOBAL"
  BY <1>1 DEF OuterStack, FfiAssumption, Threads, Actors
<1>3. /\ runtimes \in Nat /\ global \in 0 .. runtimes /\ stopped \subseteq 1 .. runtimes
  BY DEF FfiTypeOK
<1>4. \A b \in Actors \ {a} : \A x \in Calls(b) :
          /\ x.r # 0 => x.r \in (1 .. runtimes) \ stopped
          /\ x.at = "stopping" =>
                /\ x.r # 0 /\ global # x.r
                /\ \A d \in Downloads : box[d] = "live" => host[d] # x.r
                /\ Top(a).r # x.r
  BY <1>2 DEF RuntimeInv
<1>5. /\ global \notin stopped
      /\ \A d \in Downloads : box[d] = "live" => host[d] # 0 /\ host[d] \notin stopped
  BY DEF RuntimeInv
<1>6. Top(a).r # 0 <=> Top(a).at \in {"cloned", "stopping"}
  BY <1>2 DEF RuntimeInv
<1>7. /\ Top(a).r # 0 => Top(a).r \in (1 .. runtimes) \ stopped
      /\ Top(a).at = "stopping" =>
            /\ global # Top(a).r
            /\ \A d \in Downloads : box[d] = "live" => host[d] # Top(a).r
            /\ \A b \in Actors \ {a} : \A x \in Calls(b) : x.r # Top(a).r
  BY <1>2 DEF RuntimeInv
<1>8. CASE GlobalInit(a)
  <2>1. /\ UNCHANGED <<stopped, box, host>> /\ Calls(a)' = {}
        /\ \/ UNCHANGED <<global, runtimes>>
           \/ runtimes' = runtimes + 1 /\ global' = runtimes'
    BY <1>1, <1>8 DEF GlobalInit, OuterMoves, boxes
  <2>2. global' \notin stopped' /\ runtimes' \in Nat /\ runtimes <= runtimes'
    BY <1>3, <1>5, <2>1
  <2>3. \A b \in Actors \ {a} : \A x \in Calls(b) : x.at = "stopping" => global' # x.r
    BY <1>3, <1>4, <2>1
  <2>4. QED
    BY <1>1, <1>4, <1>5, <2>1, <2>2, <2>3, RuntimeOuter
<1>9. CASE GlobalShutdown(a)
  <2>1. /\ UNCHANGED <<stopped, runtimes, box, host>> /\ global' = 0
        /\ \A x \in Calls(a)' :
              x.at = "stopping" /\ x.r = global /\ global # 0 /\ Owners(global) = {"GLOBAL"}
    BY <1>1, <1>9 DEF GlobalShutdown, OuterMoves, boxes
  <2>2. ASSUME NEW y \in Calls(a)'
        PROVE  /\ y.at = "stopping" /\ y.r # 0 /\ y.r \in (1 .. runtimes) \ stopped /\ global' # y.r
               /\ \A d \in Downloads : box[d] = "live" => host[d] # y.r
               /\ \A b \in Actors \ {a} : \A x \in Calls(b) : x.r # y.r
    <3>1. y.at = "stopping" /\ y.r = global /\ global # 0 /\ Owners(global) = {"GLOBAL"}
      BY <2>1
    <3>2. \A d \in Downloads : box[d] = "live" => host[d] # global
      BY <1>2, <3>1, OwnersOf
    <3>3. \A b \in Actors : \A x \in Calls(b) : x.r # global
      BY <1>2, <3>1, OwnersOf
    <3>4. QED
      BY <1>3, <1>5, <2>1, <3>1, <3>2, <3>3
  <2>3. \A b \in Actors \ {a} : \A x \in Calls(b) : x.at = "stopping" =>
            global' # x.r /\ \A y \in Calls(a)' : y.r # x.r
    BY <1>4, <2>1
  <2>4. global' \notin stopped'
    BY <1>3, <2>1
  <2>5. QED
    BY <1>1, <1>3, <1>4, <1>5, <2>1, <2>2, <2>3, <2>4, RuntimeOuter
<1>10. CASE CurrentGlobal(a)
  <2>1. /\ UNCHANGED <<stopped, runtimes, global, box, host>>
        /\ \A x \in Calls(a)' : x.at = "cloned" /\ x.r = global /\ global # 0
    BY <1>1, <1>10 DEF CurrentGlobal, OuterMoves, engine
  <2>2. QED
    BY <1>1, <1>3, <1>4, <1>5, <2>1, RuntimeOuter
<1>11. CASE DropClone(a)
  <2>1. /\ UNCHANGED <<stopped, runtimes, global, box, host>> /\ Top(a).at = "cloned"
        /\ \A x \in Calls(a)' : x.at = "stopping" /\ x.r = Top(a).r /\ Owners(Top(a).r) = {a}
    BY <1>1, <1>11, InPlace DEF DropClone, OuterMoves, engine, boxes
  <2>2. ASSUME NEW y \in Calls(a)'
        PROVE  /\ y.at = "stopping" /\ y.r # 0 /\ y.r \in (1 .. runtimes) \ stopped /\ global # y.r
               /\ \A d \in Downloads : box[d] = "live" => host[d] # y.r
               /\ \A b \in Actors \ {a} : \A x \in Calls(b) : x.r # y.r
    BY <1>2, <1>6, <1>7, <2>1, OwnersOf
  <2>3. QED
    BY <1>1, <1>3, <1>4, <1>5, <2>1, <2>2, RuntimeOuter
<1>12. CASE Create(a)
  <2>1. /\ UNCHANGED <<stopped, runtimes, global>> /\ Calls(a)' = {} /\ Top(a).at = "cloned"
        /\ box' = [box EXCEPT ![Top(a).d] = "live"] /\ host' = [host EXCEPT ![Top(a).d] = Top(a).r]
    BY <1>1, <1>12, InPlace DEF Create, OuterMoves, engine
  <2>2. \A d \in Downloads : box'[d] = "live" =>
            (box[d] = "live" /\ host'[d] = host[d]) \/ host'[d] = Top(a).r
    BY <2>1 DEF FfiTypeOK
  <2>3. Top(a).r # 0 /\ Top(a).r \notin stopped
    BY <1>6, <1>7, <2>1
  <2>4. QED
    BY <1>1, <1>3, <1>4, <1>5, <2>1, <2>2, <2>3, RuntimeOuter
<1>13. CASE Stop(a)
  <2>1. /\ UNCHANGED <<global, runtimes, box, host>> /\ stopped' = stopped \cup {Top(a).r}
        /\ Top(a).at = "stopping" /\ \A x \in Calls(a)' : x.at = "inner" /\ x.r = 0
    BY <1>1, <1>13 DEF Stop, OuterMoves, boxes
  <2>2. \A b \in Actors \ {a} : \A x \in Calls(b) : x.r # Top(a).r
    BY <1>7, <2>1
  <2>3. QED
    BY <1>1, <1>3, <1>4, <1>5, <1>7, <2>1, <2>2, RuntimeOuter
<1>14. CASE ReleaseHandle(a)
  <2> DEFINE d == Top(a).d
  <2>1. /\ UNCHANGED <<stopped, runtimes, global, host>> /\ box[d] = "live"
        /\ box' = [box EXCEPT ![d] = "freeing"]
        /\ \A x \in Calls(a)' : \/ x.at = "inner" /\ x.r = 0
                                \/ x.at = "stopping" /\ x.r = host[d] /\ Owners(host[d]) = {d}
    BY <1>1, <1>14 DEF ReleaseHandle, OuterMoves, engine
  <2>2. d \in Downloads
    <3>1. Top(a).op = "release" /\ Top(a) \in Calls(a)
      BY <1>2, <1>14, InPlace DEF ReleaseHandle
    <3>2. QED
      BY <3>1 DEF StackInv
  <2> HIDE DEF d
  <2>3. \A e \in Downloads : box'[e] = "live" => box[e] = "live" /\ e # d
    BY <2>1, <2>2 DEF FfiTypeOK
  <2>4. ASSUME NEW y \in Calls(a)', y.at = "stopping"
        PROVE  /\ y.r # 0 /\ y.r \in (1 .. runtimes) \ stopped /\ global # y.r
               /\ \A e \in Downloads : box'[e] = "live" => host[e] # y.r
               /\ \A b \in Actors \ {a} : \A x \in Calls(b) : x.r # y.r
    <3>1. y.r = host[d] /\ Owners(host[d]) = {d} /\ host[d] \in 0 .. runtimes
      BY <2>1, <2>2, <2>4 DEF FfiTypeOK
    <3>2. global # host[d] /\ \A e \in Downloads : box'[e] = "live" => host[e] # host[d]
      BY <1>2, <2>2, <2>3, <3>1, OwnersOf
    <3>3. ASSUME NEW b \in Actors \ {a}, NEW x \in Calls(b), x.r = host[d] PROVE FALSE
      <4>1. b = d /\ x.r # 0
        BY <1>5, <2>1, <2>2, <3>1, <3>3, OwnersOf
      <4>2. b \in Threads
        BY <4>1 DEF RuntimeInv, StackInv
      <4>3. QED
        BY <2>2, <4>1, <4>2 DEF FfiAssumption, Threads
    <3>4. QED
      BY <1>5, <2>1, <2>2, <3>1, <3>2, <3>3
  <2>5. \A b \in Actors \ {a} : \A x \in Calls(b) : x.at = "stopping" => \A y \in Calls(a)' : y.r # x.r
    BY <1>4, <2>1, <2>2
  <2>6. QED
    BY <1>1, <1>3, <1>4, <1>5, <2>1, <2>3, <2>4, <2>5, RuntimeOuter
<1>15. CASE DropHandle(a)
  <2>1. /\ UNCHANGED <<stopped, runtimes, global, host>> /\ Calls(a)' = {}
        /\ box' = [box EXCEPT ![Top(a).d] = "freed"]
    BY <1>1, <1>15 DEF DropHandle, OuterMoves, engine
  <2>2. \A d \in Downloads : box'[d] = "live" => box[d] = "live"
    BY <2>1 DEF FfiTypeOK
  <2>3. QED
    BY <1>1, <1>3, <1>4, <1>5, <2>1, <2>2, RuntimeOuter
<1>16. QED
  BY <1>8, <1>9, <1>10, <1>11, <1>12, <1>13, <1>14, <1>15 DEF Outer

\* Every step keeps who owns which runtime.
LEMMA RuntimeKept ==
    ASSUME FfiAssumption, FfiIInv, [FfiNext]_ffiVars
    PROVE  RuntimeInv'
<1> USE DEF FfiIInv
<1>1. ASSUME NEW a \in Actors, Inner(a) PROVE RuntimeInv'
  <2>1. InnerStack(a)
    BY <1>1, InnerStep
  <2>2. UNCHANGED <<engine, boxes>>
    BY <1>1 DEF Inner, SetCallback, RemoveCallback, SetRefused, ListenerUnresolved, DropPrevious,
         CloneCallback, CallbackReturns, NestedCall, Refused, Start, Spawn, Request, CancelJoin
  <2>3. QED
    BY <2>1, <2>2, RuntimeQuiet DEF InnerStack, Inward
<1>2. CASE HostStep
  BY <1>2, HostCalled, RuntimeQuiet DEF BegunStack, Actors
<1>3. ASSUME NEW d \in Downloads, TaskNotifies(d) PROVE RuntimeInv'
  BY <1>3, TaskCalled, RuntimeQuiet DEF BegunStack, Actors
<1>4. ASSUME UNCHANGED <<engine, boxes, stack>> PROVE RuntimeInv'
  BY <1>4 DEF RuntimeInv, Calls, engine, boxes
<1>5. QED
  BY <1>1, <1>2, <1>3, <1>4, RuntimeOuterKept, StepCases DEF TaskEnds, ffiVars
-----------------------------------------------------------------------------
(* Downloads that are being created, and the engine they share             *)

\* A step that leaves runtimes and handles alone, and puts no new creation on the stack of a.
LEMMA BirthQuiet ==
    ASSUME BirthInv, OneEngine, UNCHANGED <<engine, boxes>>, NEW a \in Actors,
           \A b \in Actors \ {a} : Calls(b)' = Calls(b),
           \A x \in Calls(a)' : x.op = "create" => x \in Calls(a)
    PROVE  BirthInv' /\ OneEngine'
<1>1. box' = box /\ born' = born /\ host' = host /\ shutdowns' = shutdowns /\ global' = global
  BY DEF engine, boxes
<1>2. \A b \in Actors : \A x \in Calls(b)' : x.op = "create" => x \in Calls(b)
  OBVIOUS
<1>3. QED
  BY <1>1, <1>2 DEF BirthInv, OneEngine

\* What is said of handles being born is kept if it holds of the calls that are there then.
LEMMA BirthOuter ==
    ASSUME BirthInv, NEW a \in Actors, OuterStack(a),
           \A b \in Actors \ {a} : \A x \in Calls(b) : x.op = "create" =>
                /\ box'[x.d] = "none"
                /\ x.at = "cloned" /\ born'[x.d] = shutdowns' => x.r = global',
           \A y \in Calls(a)' : y.op = "create" =>
                /\ box'[y.d] = "none"
                /\ y.at = "cloned" /\ born'[y.d] = shutdowns' => y.r = global'
    PROVE  BirthInv'
<1>1. \A b \in Actors \ {a} : Calls(b)' = Calls(b)
  BY DEF OuterStack
<1>2. \A y \in Calls(a)' : y.op = "create" =>
          \A b \in Actors \ {a} : \A x \in Calls(b) : x.op = "create" => x.d # y.d
  BY DEF OuterStack, Outward, BirthInv
<1>3. ASSUME NEW b \in Actors, NEW x \in Calls(b)', x.op = "create"
      PROVE  /\ box'[x.d] = "none"
             /\ x.at = "cloned" /\ born'[x.d] = shutdowns' => x.r = global'
             /\ \A c \in Actors \ {b} : \A y \in Calls(c)' : y.op = "create" => y.d # x.d
  <2>1. CASE b = a
    BY <1>1, <1>2, <1>3, <2>1
  <2>2. CASE b # a
    BY <1>1, <1>2, <1>3, <2>2 DEF BirthInv
  <2>3. QED
    BY <2>1, <2>2
<1>4. QED
  BY <1>3 DEF BirthInv

\* What a function of the host does to the handle of its download.
BoxMoves(a) ==
    \/ box' = box
    \/ /\ Top(a).op = "create" /\ box[Top(a).d] = "none" /\ Calls(a)' = {}
       /\ box' = [box EXCEPT ![Top(a).d] = "live"]
    \/ /\ Top(a).op = "release" /\ box[Top(a).d] = "live"
       /\ box' = [box EXCEPT ![Top(a).d] = "freeing"]
    \/ /\ Top(a).op = "release" /\ box[Top(a).d] = "freeing" /\ Calls(a)' = {}
       /\ box' = [box EXCEPT ![Top(a).d] = "freed"]

\* A box is made, freed or left alone, one at a time.
LEMMA BoxesMove ==
    ASSUME FfiIInv, NEW a \in Actors, Outer(a)
    PROVE  BoxMoves(a)
<1> USE DEF FfiIInv
<1>1. OuterStack(a) /\ OuterMoves(a) /\ Top(a) \in Calls(a)
  BY OuterStep DEF OuterStack
<1>2. CASE Create(a)
  <2>1. Top(a).op = "create" /\ box' = [box EXCEPT ![Top(a).d] = "live"] /\ Calls(a)' = {}
    BY <1>1, <1>2, InPlace DEF Create, OuterMoves
  <2>2. QED
    BY <1>1, <2>1 DEF BirthInv, BoxMoves
<1>3. CASE ReleaseHandle(a)
  BY <1>3, InPlace DEF ReleaseHandle, BoxMoves
<1>4. CASE DropHandle(a)
  <2>1. /\ Top(a).op = "release" /\ Top(a).at = "inner" /\ Calls(a)' = {}
        /\ box' = [box EXCEPT ![Top(a).d] = "freed"]
    BY <1>1, <1>4, InPlace DEF DropHandle, OuterMoves
  <2>2. QED
    BY <1>1, <2>1 DEF UseInv, BoxMoves
<1>5. CASE ~Create(a) /\ ~ReleaseHandle(a) /\ ~DropHandle(a)
  BY <1>5 DEF Outer, GlobalInit, GlobalShutdown, CurrentGlobal, DropClone, Stop, boxes, BoxMoves
<1>6. QED
  BY <1>2, <1>3, <1>4, <1>5

\* A handle is born with GLOBAL's runtime of its time.
LEMMA BirthOuterKept ==
    ASSUME FfiAssumption, FfiIInv, NEW a \in Actors, Outer(a)
    PROVE  BirthInv' /\ OneEngine'
<1> USE DEF FfiIInv
<1>1. OuterStack(a) /\ OuterMoves(a) /\ BoxMoves(a)
  BY OuterStep, BoxesMove
<1>2. Top(a) \in Calls(a) /\ \A y \in Calls(a)' : y.op = Top(a).op /\ y.d = Top(a).d
  BY <1>1 DEF OuterStack, Outward
<1>3. \A b \in Actors : \A x \in Calls(b) : x.op = "create" =>
          /\ x.d \in Downloads /\ box[x.d] = "none"
          /\ x.at = "cloned" => x.r # 0
          /\ x.at = "cloned" /\ born[x.d] = shutdowns => x.r = global
          /\ b # a /\ Top(a).op = "create" => x.d # Top(a).d
  BY <1>2 DEF BirthInv, StackInv, RuntimeInv
<1>4. \A d \in Downloads : box[d] = "live" => host[d] # 0 /\ (born[d] = shutdowns => host[d] = global)
  BY DEF RuntimeInv, OneEngine
<1>5. /\ box \in [Downloads -> {"none", "live", "freeing", "freed"}]
      /\ born \in [Downloads -> 0 .. shutdowns] /\ shutdowns \in Nat /\ host \in [Downloads -> 0 .. runtimes]
  BY DEF FfiTypeOK
<1>6. Top(a).op \notin {"init", "shutdown", "set_max_io"} => Top(a).d \in Downloads
  BY <1>2 DEF StackInv
<1>7. CASE GlobalInit(a)
  <2>1. /\ UNCHANGED <<shutdowns, box, host, born>> /\ Calls(a)' = {}
        /\ global' = global \/ global = 0
    BY <1>1, <1>7 DEF GlobalInit, OuterMoves, boxes
  <2>2. BirthInv'
    BY <1>1, <1>3, <2>1, BirthOuter
  <2>3. QED
    BY <1>4, <2>1, <2>2 DEF OneEngine
<1>8. CASE GlobalShutdown(a)
  <2>1. /\ UNCHANGED <<box, host, born>> /\ shutdowns' = shutdowns + 1 /\ Top(a).op = "shutdown"
    BY <1>8, InPlace DEF GlobalShutdown, boxes
  <2>2. \A d \in Downloads : born'[d] # shutdowns'
    BY <1>5, <2>1
  <2>3. BirthInv'
    BY <1>1, <1>2, <1>3, <2>1, <2>2, BirthOuter
  <2>4. QED
    BY <2>2, <2>3 DEF OneEngine
<1>9. CASE CurrentGlobal(a)
  <2>1. /\ UNCHANGED <<box, host, global, shutdowns>>
        /\ \A y \in Calls(a)' : y.at = "cloned" /\ y.r = global
    BY <1>1, <1>9 DEF CurrentGlobal, OuterMoves, engine
  <2>2. \A d \in Downloads : born'[d] = born[d] \/ (Top(a).op = "create" /\ d = Top(a).d)
    BY <1>5, <1>9 DEF CurrentGlobal
  <2>3. BirthInv'
    <3>1. \A y \in Calls(a)' : y.op = "create" => box'[y.d] = "none"
      BY <1>2, <1>3, <2>1
    <3>2. \A b \in Actors \ {a} : \A x \in Calls(b) : x.op = "create" =>
              /\ box'[x.d] = "none"
              /\ x.at = "cloned" /\ born'[x.d] = shutdowns' => x.r = global'
      BY <1>3, <2>1, <2>2
    <3>3. QED
      BY <1>1, <2>1, <3>1, <3>2, BirthOuter
  <2>4. QED
    BY <1>2, <1>3, <1>4, <2>1, <2>2, <2>3 DEF OneEngine
<1>10. CASE DropClone(a)
  <2>1. /\ UNCHANGED <<engine, boxes>> /\ \A y \in Calls(a)' : y.at = "stopping"
    BY <1>1, <1>10 DEF DropClone, OuterMoves
  <2>2. UNCHANGED <<box, host, born, global, shutdowns>>
    BY <2>1 DEF engine, boxes
  <2>3. BirthInv'
    BY <1>1, <1>2, <1>3, <2>1, <2>2, BirthOuter
  <2>4. QED
    BY <1>4, <2>2, <2>3 DEF OneEngine
<1>11. CASE Create(a)
  <2>1. /\ UNCHANGED <<global, shutdowns, born>> /\ Calls(a)' = {} /\ Top(a).at = "cloned"
        /\ Top(a).op = "create"
        /\ box' = [box EXCEPT ![Top(a).d] = "live"] /\ host' = [host EXCEPT ![Top(a).d] = Top(a).r]
    BY <1>1, <1>11, InPlace DEF Create, OuterMoves, engine
  <2>2. \A d \in Downloads : d # Top(a).d => box'[d] = box[d] /\ host'[d] = host[d]
    BY <1>5, <2>1
  <2>3. host'[Top(a).d] = Top(a).r /\ (born[Top(a).d] = shutdowns => Top(a).r = global)
    BY <1>2, <1>3, <1>5, <1>6, <2>1
  <2>4. BirthInv'
    BY <1>1, <1>3, <2>1, <2>2, BirthOuter
  <2>5. QED
    BY <1>4, <2>1, <2>2, <2>3, <2>4 DEF OneEngine
<1>12. CASE Stop(a)
  <2>1. /\ UNCHANGED <<global, shutdowns, box, host, born>> /\ \A y \in Calls(a)' : y.op = "release"
    BY <1>1, <1>12 DEF Stop, OuterMoves, boxes
  <2>2. BirthInv'
    BY <1>1, <1>2, <1>3, <2>1, BirthOuter
  <2>3. QED
    BY <1>4, <2>1, <2>2 DEF OneEngine
<1>13. CASE ReleaseHandle(a) \/ DropHandle(a)
  <2>1. /\ UNCHANGED <<global, shutdowns, host, born>> /\ Top(a).op = "release"
    BY <1>13, InPlace DEF ReleaseHandle, DropHandle, engine
  <2>2. \A d \in Downloads : /\ box[d] = "none" => box'[d] = "none"
                             /\ box'[d] = "live" => box[d] = "live"
    BY <1>1, <1>5, <1>6, <2>1 DEF BoxMoves
  <2>3. BirthInv'
    BY <1>1, <1>2, <1>3, <2>1, <2>2, BirthOuter
  <2>4. QED
    BY <1>4, <2>1, <2>2, <2>3 DEF OneEngine
<1>14. QED
  BY <1>7, <1>8, <1>9, <1>10, <1>11, <1>12, <1>13 DEF Outer

\* Every step keeps of which time handles are.
LEMMA BirthKept ==
    ASSUME FfiAssumption, FfiIInv, [FfiNext]_ffiVars
    PROVE  BirthInv' /\ OneEngine'
<1> USE DEF FfiIInv
<1>1. ASSUME NEW a \in Actors, Inner(a) PROVE BirthInv' /\ OneEngine'
  <2>1. InnerStack(a)
    BY <1>1, InnerStep
  <2>2. UNCHANGED <<engine, boxes>>
    BY <1>1 DEF Inner, SetCallback, RemoveCallback, SetRefused, ListenerUnresolved, DropPrevious,
         CloneCallback, CallbackReturns, NestedCall, Refused, Start, Spawn, Request, CancelJoin
  <2>3. QED
    BY <2>1, <2>2, BirthQuiet DEF InnerStack, HostCalls
<1>2. CASE HostStep
  <2>1. PICK t \in Threads, x \in CallSet : BegunStack(t, x) /\ HostBegins(x)
    BY <1>2, HostCalled
  <2>2. UNCHANGED <<engine, boxes>> /\ t \in Actors
    BY <1>2, HostCalled DEF Actors
  <2>3. CASE x.op # "create"
    BY <2>1, <2>2, <2>3, BirthQuiet DEF BegunStack
  <2>4. CASE x.op = "create"
    <3>1. box' = box /\ born' = born /\ host' = host /\ shutdowns' = shutdowns /\ global' = global
      BY <2>2 DEF engine, boxes
    <3>2. box[x.d] = "none" /\ \A b \in Actors : \A y \in Calls(b) : y.op = "create" => y.d # x.d
      BY <2>1, <2>4 DEF HostBegins, Calling, AllCalls
    <3>3. \A b \in Actors : \A y \in Calls(b)' : (b = t /\ y = x) \/ (b # t /\ y \in Calls(b))
      BY <2>1 DEF BegunStack
    <3>4. x.at = "begin"
      BY <2>1 DEF BegunStack
    <3>5. BirthInv'
      BY <3>1, <3>2, <3>3, <3>4 DEF BirthInv
    <3>6. QED
      BY <3>1, <3>5 DEF OneEngine
  <2>5. QED
    BY <2>3, <2>4
<1>3. ASSUME NEW d \in Downloads, TaskNotifies(d) PROVE BirthInv' /\ OneEngine'
  BY <1>3, TaskCalled, BirthQuiet DEF BegunStack, Actors
<1>4. ASSUME UNCHANGED <<engine, boxes, stack>> PROVE BirthInv' /\ OneEngine'
  BY <1>4 DEF BirthInv, OneEngine, Calls, engine, boxes
<1>5. QED
  BY <1>1, <1>2, <1>3, <1>4, BirthOuterKept, StepCases DEF TaskEnds, ffiVars
-----------------------------------------------------------------------------
(* A release has its download to itself                                    *)

\* The rules of one call x of actor b, with the boxes as bx.
Uses(b, x, bx) ==
    /\ x.op = "release" => bx[x.d] # "none" /\ (x.at # "begin" => bx[x.d] = "freeing")
    /\ x.op \in {"set", "start", "pause", "cancel"} /\ x.at # "begin" => bx[x.d] = "live"
    /\ x.op = "emit" /\ b \in Threads => bx[x.d] = "live"

\* A call other of actor b goes together with a release of its download.
Apart(b, other) == b \in Downloads /\ other.op = "emit"

\* Who uses a download, in the parts that steps disturb one by one.
LEMMA UseParts ==
    UseInv <=>
        /\ \A d \in Downloads : stack[d] # <<>> => task[d] # "none"
        /\ \A b \in Actors : \A x \in Calls(b) : Uses(b, x, box)
        /\ \A b \in Actors : \A x \in Calls(b) : x.op = "release" =>
              \A c \in Actors \ {b} : \A other \in Calls(c) : other.d = x.d => Apart(c, other)
BY DEF UseInv, Uses, Apart

\* The parts put together, after a step.
LEMMA UsePartsNext ==
    ASSUME \A d \in Downloads : stack'[d] # <<>> => task'[d] # "none",
           \A b \in Actors : \A x \in Calls(b)' : Uses(b, x, box'),
           \A b \in Actors : \A x \in Calls(b)' : x.op = "release" =>
              \A c \in Actors \ {b} : \A other \in Calls(c)' : other.d = x.d => Apart(c, other)
    PROVE  UseInv'
BY DEF UseInv, Uses, Apart

\* Steps inside callbacks keep that a download is used while it is there.
LEMMA UseInner ==
    ASSUME FfiAssumption, FfiIInv, NEW a \in Actors, Inner(a)
    PROVE  UseInv'
<1> USE DEF FfiIInv
<1>1. InnerStack(a)
  BY InnerStep
<1>2. box' = box /\ (task' = task \/ task' = [task EXCEPT ![Top(a).d] = "running"])
  BY DEF Inner, SetCallback, RemoveCallback, SetRefused, ListenerUnresolved, DropPrevious,
         CloneCallback, CallbackReturns, NestedCall, Refused, Start, Spawn, Request, CancelJoin, boxes
<1>3. /\ \A d \in Downloads : stack[d] # <<>> => task[d] # "none"
      /\ \A b \in Actors : \A x \in Calls(b) : Uses(b, x, box)
      /\ \A b \in Actors : \A x \in Calls(b) : x.op = "release" =>
            \A c \in Actors \ {b} : \A other \in Calls(c) : other.d = x.d => Apart(c, other)
  BY UseParts
<1>4. \A d \in Downloads : stack'[d] # <<>> => task'[d] # "none"
  <2>1. \A d \in Downloads : stack'[d] # <<>> => stack[d] # <<>>
    BY <1>1 DEF InnerStack, Actors
  <2>2. \A d \in Downloads : task[d] # "none" => task'[d] # "none"
    BY <1>2 DEF FfiTypeOK
  <2>3. QED
    BY <1>3, <2>1, <2>2
<1>5. /\ \A b \in Actors \ {a} : Calls(b)' = Calls(b)
      /\ \A x \in Calls(a)' : x.op \notin HostCalls /\ ((x \in Rest(a) /\ x \in Calls(a)) \/ Inward(a, x))
      /\ Top(a) \in Calls(a)
  BY <1>1 DEF InnerStack
<1>6. \A b \in Actors : \A x \in Calls(b)' : Uses(b, x, box')
  <2>1. ASSUME NEW x \in Calls(a)', Inward(a, x) PROVE Uses(a, x, box)
    <3>1. x.op \in {"set", "start", "pause", "cancel", "emit"}
      BY <2>1 DEF Inward, CallSet
    <3>2. QED
      BY <2>1, <3>1 DEF Inward, Uses
  <2>2. QED
    BY <1>2, <1>3, <1>5, <2>1
<1>7. ASSUME NEW b \in Actors, NEW x \in Calls(b)', x.op = "release",
             NEW c \in Actors \ {b}, NEW other \in Calls(c)', other.d = x.d
      PROVE  Apart(c, other)
  <2>1. b # a /\ x \in Calls(b)
    BY <1>5, <1>7 DEF HostCalls
  <2>2. CASE c = a /\ Inward(a, other)
    <3>1. Top(a).d = x.d
      BY <1>7, <2>2 DEF Inward
    <3>2. Apart(a, Top(a))
      BY <1>3, <1>5, <1>7, <2>1, <3>1
    <3>3. Calling(other.d, {"release"})
      BY <1>7, <2>1 DEF Calling, AllCalls
    <3>4. QED
      BY <2>2, <3>2, <3>3 DEF Inward, Apart
  <2>3. CASE other \in Calls(c)
    BY <1>3, <1>7, <2>1, <2>3
  <2>4. QED
    BY <1>5, <2>2, <2>3
<1>8. QED
  BY <1>4, <1>6, <1>7, UsePartsNext

\* So do steps outside: a release waits for nobody but has its download for itself.
LEMMA UseOuter ==
    ASSUME FfiAssumption, FfiIInv, NEW a \in Actors, Outer(a)
    PROVE  UseInv'
<1> USE DEF FfiIInv
<1>1. OuterStack(a) /\ BoxMoves(a)
  BY OuterStep, BoxesMove
<1>2. /\ \A d \in Downloads : stack[d] # <<>> => task[d] # "none"
      /\ \A b \in Actors : \A x \in Calls(b) : Uses(b, x, box)
      /\ \A b \in Actors : \A x \in Calls(b) : x.op = "release" =>
            \A c \in Actors \ {b} : \A other \in Calls(c) : other.d = x.d => Apart(c, other)
  BY UseParts
<1>3. /\ \A b \in Actors \ {a} : Calls(b)' = Calls(b) /\ stack'[b] = stack[b]
      /\ Top(a) \in Calls(a) /\ Top(a).op \in HostCalls /\ a \in Threads /\ a \notin Downloads
      /\ \A y \in Calls(a)' : y.op = Top(a).op /\ y.d = Top(a).d
  BY <1>1 DEF OuterStack, Outward, FfiAssumption, Threads
<1>4. \A d \in Downloads : stack'[d] # <<>> => task'[d] # "none"
  <2>1. \A d \in Downloads : stack'[d] = stack[d]
    BY <1>3 DEF Actors
  <2>2. ASSUME NEW d \in Downloads, stack[d] # <<>> PROVE task'[d] # "none"
    <3>1. task[d] # "none"
      BY <1>2, <2>2
    <3>2. CASE Stop(a)
      BY <2>2, <3>1, <3>2 DEF Stop
    <3>3. CASE ~Stop(a)
      <4>1. task' = task \/ task' = [task EXCEPT ![Top(a).d] = "aborted"]
        BY <3>3 DEF Outer, GlobalInit, GlobalShutdown, CurrentGlobal, DropClone, Create, ReleaseHandle, DropHandle
      <4>2. QED
        BY <3>1, <4>1 DEF FfiTypeOK
    <3>4. QED
      BY <3>2, <3>3
  <2>3. QED
    BY <2>1, <2>2
<1>5. \A b \in Actors : \A x \in Calls(b) :
          x.d \in Downloads \/ (x.op \notin {"release", "set", "start", "pause", "cancel", "emit"})
  BY DEF StackInv
<1>6. Top(a).op \in {"create", "release"} => Top(a).d \in Downloads
  BY <1>3 DEF StackInv
<1>7. box \in [Downloads -> {"none", "live", "freeing", "freed"}]
  BY DEF FfiTypeOK
<1>8. ASSUME NEW b \in Actors \ {a}, NEW x \in Calls(b) PROVE Uses(b, x, box')
  <2>1. Uses(b, x, box)
    BY <1>2
  <2>2. CASE box' = box
    BY <2>1, <2>2
  <2>3. CASE x.op \notin {"release", "set", "start", "pause", "cancel", "emit"}
    BY <2>3 DEF Uses
  <2>4. CASE x.d \in Downloads /\ x.d # Top(a).d
    <3>1. box'[x.d] = box[x.d]
      BY <1>1, <1>7, <2>4 DEF BoxMoves
    <3>2. QED
      BY <2>1, <3>1 DEF Uses
  <2>5. CASE x.d \in Downloads /\ x.d = Top(a).d /\ Top(a).op = "release"
    <3>1. Apart(b, x)
      BY <1>2, <1>3, <2>5
    <3>2. b \notin Threads
      BY <3>1 DEF Apart, FfiAssumption, Threads
    <3>3. QED
      BY <3>1, <3>2 DEF Apart, Uses
  <2>6. CASE /\ x.d \in Downloads /\ x.d = Top(a).d
             /\ box[Top(a).d] = "none" /\ box' = [box EXCEPT ![Top(a).d] = "live"]
    <3>1. box[x.d] = "none" /\ box'[x.d] = "live"
      BY <1>7, <2>6
    <3>2. QED
      BY <2>1, <3>1 DEF Uses
  <2>7. QED
    BY <1>1, <1>5, <2>2, <2>3, <2>4, <2>5, <2>6 DEF BoxMoves
<1>9. ASSUME NEW y \in Calls(a)' PROVE Uses(a, y, box')
  <2>1. y.op \in HostCalls
    BY <1>3
  <2>2. CASE y.op # "release"
    BY <2>1, <2>2 DEF Uses, HostCalls
  <2>3. CASE y.op = "release"
    <3>1. Top(a).op = "release" /\ y.d = Top(a).d /\ y.d \in Downloads /\ Uses(a, Top(a), box)
      BY <1>2, <1>3, <1>6, <2>3
    <3>2. CASE box' = [box EXCEPT ![Top(a).d] = "freeing"]
      <4>1. box'[y.d] = "freeing"
        BY <1>7, <3>1, <3>2
      <4>2. QED
        BY <2>3, <4>1 DEF Uses
    <3>3. CASE box' = box
      <4>1. CASE Stop(a)
        <5>1. box[y.d] = "freeing"
          BY <3>1, <4>1 DEF Stop, Uses
        <5>2. QED
          BY <2>3, <3>3, <5>1 DEF Uses
      <4>2. CASE ~Stop(a)
        <5>1. ReleaseHandle(a) \/ DropHandle(a)
          BY <3>1, <4>2, InPlace DEF Outer, GlobalInit, GlobalShutdown, CurrentGlobal, DropClone, Create
        <5>2. box' # box
          <6>1. /\ box[y.d] = "live" \/ box[y.d] = "freeing"
                /\ \/ box' = [box EXCEPT ![y.d] = "freeing"] /\ box[y.d] = "live"
                   \/ box' = [box EXCEPT ![y.d] = "freed"]
            BY <3>1, <5>1, InPlace DEF ReleaseHandle, DropHandle, Uses
          <6>2. QED
            BY <1>7, <3>1, <6>1
        <5>3. QED
          BY <3>3, <5>2
      <4>3. QED
        BY <4>1, <4>2
    <3>4. QED
      BY <1>1, <3>1, <3>2, <3>3 DEF BoxMoves
  <2>4. QED
    BY <2>2, <2>3
<1>10. ASSUME NEW b \in Actors, NEW x \in Calls(b)', x.op = "release",
              NEW c \in Actors \ {b}, NEW other \in Calls(c)', other.d = x.d
       PROVE  Apart(c, other)
  <2>1. CASE b = a
    BY <1>2, <1>3, <1>10, <2>1
  <2>2. CASE c = a
    <3>1. Apart(a, Top(a))
      BY <1>2, <1>3, <1>10, <2>2
    <3>2. QED
      BY <1>3, <3>1 DEF Apart
  <2>3. CASE b # a /\ c # a
    BY <1>2, <1>3, <1>10, <2>3
  <2>4. QED
    BY <2>1, <2>2, <2>3
<1>11. \A b \in Actors : \A x \in Calls(b)' : Uses(b, x, box')
  BY <1>3, <1>8, <1>9
<1>12. QED
  BY <1>4, <1>10, <1>11, UsePartsNext

\* Every step keeps it.
LEMMA UseKept ==
    ASSUME FfiAssumption, FfiIInv, [FfiNext]_ffiVars
    PROVE  UseInv'
<1> USE DEF FfiIInv
<1>1. /\ \A d \in Downloads : stack[d] # <<>> => task[d] # "none"
      /\ \A b \in Actors : \A x \in Calls(b) : Uses(b, x, box)
      /\ \A b \in Actors : \A x \in Calls(b) : x.op = "release" =>
            \A c \in Actors \ {b} : \A other \in Calls(c) : other.d = x.d => Apart(c, other)
  BY UseParts
<1>2. CASE HostStep
  <2>1. PICK t \in Threads, x \in CallSet : BegunStack(t, x) /\ HostBegins(x)
    BY <1>2, HostCalled
  <2>2. box' = box /\ task' = task /\ t \in Actors /\ t \notin Downloads
    BY <1>2, HostCalled DEF Actors, boxes, FfiAssumption, Threads
  <2>3. /\ \A b \in Actors \ {t} : Calls(b)' = Calls(b) /\ stack'[b] = stack[b]
        /\ Calls(t)' = {x} /\ x.at = "begin"
    BY <2>1 DEF BegunStack
  <2>4. \A d \in Downloads : stack'[d] # <<>> => task'[d] # "none"
    BY <1>1, <2>2, <2>3 DEF Actors
  <2>5. Uses(t, x, box)
    BY <2>1, <2>3 DEF Uses, HostBegins
  <2>6. ASSUME x.op = "release", NEW c \in Actors \ {t}, NEW other \in Calls(c), other.d = x.d
        PROVE  Apart(c, other)
    <3>1. ~Busy(x.d)
      BY <2>1, <2>6 DEF HostBegins
    <3>2. c \in Downloads
      BY <2>6, <3>1 DEF Busy, AllCalls, Actors
    <3>3. other.op \notin DownloadCalls
      BY <2>6, <3>1 DEF Busy, Calling, AllCalls
    <3>4. other.op \notin HostCalls
      BY <3>2 DEF StackInv, FfiAssumption, Threads
    <3>5. other \in CallSet
      BY CallsTyped
    <3>6. QED
      BY <3>2, <3>3, <3>4, <3>5 DEF Apart, CallSet, DownloadCalls
  <2>7. ASSUME NEW b \in Actors \ {t}, NEW y \in Calls(b), y.op = "release" PROVE x.d # y.d
    <3>1. y.d \in Downloads /\ y.d # Nobody /\ box[y.d] # "none"
      BY <1>1, <2>7 DEF StackInv, FfiAssumption, Uses
    <3>2. Calling(y.d, {"release"}) /\ Busy(y.d)
      BY <2>7 DEF Calling, AllCalls, Busy, DownloadCalls
    <3>3. QED
      BY <2>1, <3>1, <3>2 DEF HostBegins
  <2>8. \A b \in Actors : \A y \in Calls(b)' : Uses(b, y, box')
    BY <1>1, <2>2, <2>3, <2>5
  <2>9. ASSUME NEW b \in Actors, NEW y \in Calls(b)', y.op = "release",
               NEW c \in Actors \ {b}, NEW other \in Calls(c)', other.d = y.d
        PROVE  Apart(c, other)
    BY <1>1, <2>3, <2>6, <2>7, <2>9
  <2>10. QED
    BY <2>4, <2>8, <2>9, UsePartsNext
<1>3. ASSUME NEW d \in Downloads, TaskNotifies(d) PROVE UseInv'
  <2>1. PICK x \in CallSet : BegunStack(d, x) /\ x.op = "emit" /\ x.d = d
    BY <1>3, TaskCalled
  <2>2. box' = box /\ task' = task /\ task[d] = "running" /\ d \in Actors /\ d \notin Threads
    BY <1>3, TaskCalled DEF Actors, boxes, FfiAssumption, Threads
  <2>3. /\ \A b \in Actors \ {d} : Calls(b)' = Calls(b) /\ stack'[b] = stack[b]
        /\ Calls(d)' = {x}
    BY <2>1 DEF BegunStack
  <2>4. \A e \in Downloads : stack'[e] # <<>> => task'[e] # "none"
    BY <1>1, <2>2, <2>3 DEF Actors
  <2>5. \A b \in Actors : \A y \in Calls(b)' : Uses(b, y, box')
    BY <1>1, <2>1, <2>2, <2>3 DEF Uses
  <2>6. ASSUME NEW b \in Actors, NEW y \in Calls(b)', y.op = "release",
               NEW c \in Actors \ {b}, NEW other \in Calls(c)', other.d = y.d
        PROVE  Apart(c, other)
    BY <1>1, <2>1, <2>3, <2>6 DEF Apart
  <2>7. QED
    BY <2>4, <2>5, <2>6, UsePartsNext
<1>4. ASSUME NEW d \in Downloads, TaskEnds(d) PROVE UseInv'
  <2>1. stack[d] = <<>> /\ task' = [task EXCEPT ![d] = "none"] /\ stack' = stack /\ box' = box
    BY <1>4 DEF TaskEnds, boxes
  <2>2. \A e \in Downloads : stack[e] # <<>> => task'[e] # "none"
    BY <1>1, <2>1 DEF FfiTypeOK
  <2>3. QED
    BY <1>1, <2>1, <2>2, UsePartsNext DEF Calls
<1>5. CASE UNCHANGED ffiVars
  <2>1. stack' = stack /\ box' = box /\ task' = task
    BY <1>5 DEF ffiVars, boxes
  <2>2. QED
    BY <1>1, <2>1, UsePartsNext DEF Calls
<1>6. QED
  BY <1>2, <1>3, <1>4, <1>5, UseInner, UseOuter, StepCases
-----------------------------------------------------------------------------
(* Contexts                                                                *)

\* A call x may hold its context, and the context is one that is in use.
Owned(x) ==
    /\ x.c \in 1 .. contexts /\ owner[x.c] = x.d
    /\ x.op \in {"set", "emit"} /\ x.at # "begin"
    /\ InUse(x.c)

\* The context a call has in its hands is not released.
LEMMA CallsOwn ==
    ASSUME FfiIInv, NEW b \in Actors, NEW x \in Calls(b), x.c # 0
    PROVE  Owned(x) /\ releases[x.c] = 0
<1>1. InUse(x.c)
  BY DEF InUse, Holds
<1>2. QED
  BY <1>1 DEF FfiIInv, ContextInv, Owned, ContextsReleasedOnce

\* Nor is the one in a slot.
LEMMA InstalledOwn ==
    ASSUME FfiIInv, NEW d \in Downloads, NEW s \in Slots, installed[d][s] # 0
    PROVE  /\ installed[d][s] \in 1 .. contexts /\ InUse(installed[d][s])
           /\ owner[installed[d][s]] = d /\ releases[installed[d][s]] = 0
<1>1. installed[d][s] \in 1 .. contexts
  BY DEF FfiIInv, FfiTypeOK
<1>2. InUse(installed[d][s])
  BY DEF InUse
<1>3. QED
  BY <1>1, <1>2 DEF FfiIInv, ContextInv, ContextsReleasedOnce

\* What is in use after a step.
LEMMA InUseNext ==
    ASSUME NEW c, InUse(c)'
    PROVE  \/ \E b \in Actors : \E x \in Calls(b)' : x.c = c
           \/ \E d \in Downloads, s \in Slots : installed'[d][s] = c
BY DEF InUse, Holds

\* A step that makes, installs and releases no context.
LEMMA ContextQuiet ==
    ASSUME FfiIInv, UNCHANGED callbacks, \A b \in Actors : \A x \in Calls(b)' : x.c # 0 => Owned(x)
    PROVE  ContextInv' /\ ContextsReleasedOnce'
<1>1. installed' = installed /\ contexts' = contexts /\ owner' = owner /\ releases' = releases
  BY DEF callbacks
<1>2. ContextInv'
  BY <1>1 DEF FfiIInv, ContextInv, Owned
<1>3. ASSUME NEW c \in 1 .. contexts, InUse(c)' PROVE releases[c] = 0
  <2>1. c # 0
    OBVIOUS
  <2>2. InUse(c)
    <3>1. CASE \E b \in Actors : \E x \in Calls(b)' : x.c = c
      BY <2>1, <3>1 DEF Owned
    <3>2. CASE \E d \in Downloads, s \in Slots : installed'[d][s] = c
      BY <1>1, <3>2 DEF InUse
    <3>3. QED
      BY <1>3, <3>1, <3>2, InUseNext
  <2>3. QED
    BY <2>2 DEF FfiIInv, ContextsReleasedOnce
<1>4. QED
  BY <1>1, <1>2, <1>3 DEF FfiIInv, ContextsReleasedOnce

\* A step that drops the shared state of downloads no callback runs for.
LEMMA ContextDropped ==
    ASSUME FfiAssumption, FfiIInv, NEW ds \in SUBSET Downloads, DropStates(ds),
           \A d \in ds : box[d] # "live" /\ stack[d] = <<>>,
           \A b \in Actors : \A x \in Calls(b)' : x.c # 0 => x \in Calls(b)
    PROVE  ContextInv' /\ ContextsReleasedOnce'
<1>1. /\ contexts' = contexts /\ owner' = owner
      /\ \A d \in Downloads, s \in Slots : installed'[d][s] = IF d \in ds THEN 0 ELSE installed[d][s]
      /\ \A c \in 1 .. MaxContexts :
            releases'[c] = IF \E d \in ds, s \in Slots : installed[d][s] = c
                           THEN releases[c] + 1 ELSE releases[c]
  BY DEF DropStates
<1>2. contexts \in 0 .. MaxContexts /\ MaxContexts \in Nat /\ 1 .. contexts \subseteq 1 .. MaxContexts
  BY DEF FfiIInv, FfiTypeOK, FfiAssumption
<1>3. ContextInv'
  <2>1. ASSUME NEW b \in Actors, NEW x \in Calls(b)', x.c # 0
        PROVE  /\ x.c \in 1 .. contexts /\ owner[x.c] = x.d
               /\ x.op \in {"set", "emit"} /\ x.at # "begin"
    BY <2>1, CallsOwn DEF Owned
  <2>2. ASSUME NEW d \in Downloads, NEW s \in Slots, installed'[d][s] # 0
        PROVE  /\ owner[installed'[d][s]] = d
               /\ \A other \in Slots : installed'[d][other] = installed'[d][s] => other = s
    <3>1. d \notin ds /\ installed'[d][s] = installed[d][s] /\ installed[d][s] # 0
      BY <1>1, <2>2
    <3>2. \A other \in Slots : installed'[d][other] = installed[d][other]
      BY <1>1, <3>1
    <3>3. QED
      BY <3>1, <3>2 DEF FfiIInv, ContextInv
  <2>3. ASSUME NEW c \in 1 .. MaxContexts, c > contexts PROVE releases'[c] = 0
    <3>1. ~\E d \in ds, s \in Slots : installed[d][s] = c
      BY <1>2, <2>3 DEF FfiIInv, FfiTypeOK
    <3>2. QED
      BY <1>1, <2>3, <3>1 DEF FfiIInv, ContextInv
  <2>4. QED
    BY <1>1, <2>1, <2>2, <2>3 DEF ContextInv
<1>4. ASSUME NEW c \in 1 .. contexts PROVE releases'[c] <= 1 /\ (InUse(c)' => releases'[c] = 0)
  <2>1. /\ releases[c] <= 1 /\ (InUse(c) => releases[c] = 0) /\ c \in 1 .. MaxContexts /\ c # 0
    BY <1>2 DEF FfiIInv, ContextsReleasedOnce
  <2>2. CASE \E d \in ds, s \in Slots : installed[d][s] = c
    <3>1. PICK d \in ds, s \in Slots : installed[d][s] = c
      BY <2>2
    <3>2. owner[c] = d /\ releases[c] = 0 /\ d \in Downloads
      BY <2>1, <3>1, InstalledOwn
    <3>3. releases'[c] = 1
      BY <1>1, <2>1, <2>2, <3>2
    <3>4. ASSUME NEW b \in Actors, NEW x \in Calls(b), x.c = c PROVE FALSE
      <4>1. x.d = d /\ x.op \in {"set", "emit"} /\ x.at # "begin"
        BY <2>1, <3>2, <3>4, CallsOwn DEF Owned
      <4>2. box[d] # "live" /\ stack[d] = <<>>
        BY <3>1
      <4>3. b \in Downloads
        BY <3>4, <4>1, <4>2 DEF FfiIInv, UseInv, Actors
      <4>4. b = d
        BY <3>4, <4>1, <4>3 DEF FfiIInv, StackInv
      <4>5. stack[b] # <<>>
        BY CallsTyped DEF FfiIInv
      <4>6. QED
        BY <4>2, <4>4, <4>5
    <3>5. ASSUME NEW e \in Downloads, NEW t \in Slots, installed'[e][t] = c PROVE FALSE
      <4>1. e \notin ds /\ installed[e][t] = c
        BY <1>1, <2>1, <3>5
      <4>2. owner[c] = e
        BY <2>1, <4>1, InstalledOwn
      <4>3. QED
        BY <3>1, <3>2, <4>1, <4>2
    <3>6. ~InUse(c)'
      BY <2>1, <3>4, <3>5, InUseNext
    <3>7. QED
      BY <3>3, <3>6
  <2>3. CASE ~\E d \in ds, s \in Slots : installed[d][s] = c
    <3>1. releases'[c] = releases[c]
      BY <1>1, <2>1, <2>3
    <3>2. ASSUME InUse(c)' PROVE InUse(c)
      <4>1. CASE \E b \in Actors : \E x \in Calls(b)' : x.c = c
        BY <2>1, <4>1 DEF InUse, Holds
      <4>2. CASE \E d \in Downloads, s \in Slots : installed'[d][s] = c
        BY <1>1, <2>1, <4>2 DEF InUse
      <4>3. QED
        BY <3>2, <4>1, <4>2, InUseNext
    <3>3. QED
      BY <2>1, <3>1, <3>2
  <2>4. QED
    BY <2>2, <2>3
<1>5. QED
  BY <1>1, <1>3, <1>4 DEF ContextsReleasedOnce

\* A call under the topmost has a place of its own on the stack.
LEMMA RestIs ==
    ASSUME FfiTypeOK, NEW a \in Actors, stack[a] # <<>>, NEW x \in Rest(a)
    PROVE  \E i \in 2 .. Len(stack[a]) : stack[a][i] = x
<1>1. PICK s \in Seq(CallSet) : s = stack[a] /\ s # <<>>
  BY DEF FfiTypeOK
<1>2. PICK i \in DOMAIN Tail(s) : x = Tail(s)[i]
  BY <1>1 DEF Rest, Elements
<1>3. i \in 1 .. Len(s) - 1 /\ Tail(s)[i] = s[i + 1] /\ Len(s) \in Nat
  BY <1>1, <1>2, HeadTailProperties
<1>4. i + 1 \in 2 .. Len(s)
  BY <1>3
<1>5. QED
  BY <1>1, <1>2, <1>3, <1>4

\* The innermost call of a drops its clone of a closure and leaves the stack.
LEMMA ContextReleased ==
    ASSUME FfiAssumption, FfiIInv, NEW a \in Actors, stack[a] # <<>>,
           UNCHANGED <<installed, contexts, owner>>, Release(a, Top(a).c),
           \A b \in Actors \ {a} : Calls(b)' = Calls(b),
           \A x \in Calls(a)' : x.c # 0 => x \in Rest(a)
    PROVE  ContextInv' /\ ContextsReleasedOnce'
<1> USE DEF FfiIInv
<1>0. PICK n : n = Top(a).c
  OBVIOUS
<1>1. Top(a) \in Calls(a) /\ \A x \in Rest(a) : x \in Calls(a)
  BY TopOf
<1>2. /\ contexts \in 0 .. MaxContexts /\ MaxContexts \in Nat /\ 1 .. contexts \subseteq 1 .. MaxContexts
      /\ releases \in [1 .. MaxContexts -> Nat]
  BY DEF FfiTypeOK, FfiAssumption
<1>3. n # 0 => n \in 1 .. contexts /\ releases[n] = 0
  BY <1>0, <1>1, CallsOwn DEF Owned
<1>4. \A b \in Actors : \A x \in Calls(b)' : x.c # 0 => x \in Calls(b)
  BY <1>1
<1>5. \/ releases' = releases
      \/ /\ n # 0 /\ releases' = [releases EXCEPT ![n] = releases[n] + 1]
         /\ ~\E b \in Actors \ {a} : Holds(b, n)
         /\ ~\E i \in 2 .. Len(stack[a]) : stack[a][i].c = n
         /\ ~\E d \in Downloads, s \in Slots : installed[d][s] = n
  BY <1>0 DEF Release
<1>6. CASE releases' = releases
  <2>1. UNCHANGED callbacks
    BY <1>6 DEF callbacks
  <2>2. \A b \in Actors : \A x \in Calls(b)' : x.c # 0 => Owned(x)
    BY <1>4, CallsOwn
  <2>3. QED
    BY <2>1, <2>2, ContextQuiet
<1>7. CASE /\ n # 0 /\ releases' = [releases EXCEPT ![n] = releases[n] + 1]
           /\ ~\E b \in Actors \ {a} : Holds(b, n)
           /\ ~\E i \in 2 .. Len(stack[a]) : stack[a][i].c = n
           /\ ~\E d \in Downloads, s \in Slots : installed[d][s] = n
  <2>1. /\ n \in 1 .. contexts /\ n \in 1 .. MaxContexts /\ releases'[n] = 1
        /\ \A c \in 1 .. MaxContexts : c # n => releases'[c] = releases[c]
    BY <1>2, <1>3, <1>7
  <2>2. ContextInv'
    <3>1. \A b \in Actors : \A x \in Calls(b)' : x.c # 0 =>
              /\ x.c \in 1 .. contexts /\ owner[x.c] = x.d
              /\ x.op \in {"set", "emit"} /\ x.at # "begin"
      BY <1>4, CallsOwn DEF Owned
    <3>2. \A c \in 1 .. MaxContexts : c > contexts => releases'[c] = 0
      BY <1>2, <2>1 DEF ContextInv
    <3>3. QED
      BY <3>1, <3>2 DEF ContextInv
  <2>3. ~InUse(n)'
    <3>1. ASSUME NEW b \in Actors, NEW x \in Calls(b)', x.c = n PROVE FALSE
      <4>1. CASE b # a
        BY <1>7, <3>1, <4>1 DEF Holds
      <4>2. CASE b = a
        BY <1>7, <3>1, <4>2, RestIs
      <4>3. QED
        BY <4>1, <4>2
    <3>2. QED
      BY <1>7, <3>1, InUseNext
  <2>4. ASSUME NEW c \in 1 .. contexts, c # n, InUse(c)' PROVE InUse(c)
    <3>1. CASE \E b \in Actors : \E x \in Calls(b)' : x.c = c
      BY <1>4, <3>1 DEF InUse, Holds
    <3>2. CASE \E d \in Downloads, s \in Slots : installed'[d][s] = c
      BY <3>2 DEF InUse
    <3>3. QED
      BY <2>4, <3>1, <3>2, InUseNext
  <2>5. ASSUME NEW c \in 1 .. contexts PROVE releases'[c] <= 1 /\ (InUse(c)' => releases'[c] = 0)
    <3>1. CASE c = n
      BY <2>1, <2>3, <3>1
    <3>2. CASE c # n
      BY <1>2, <2>1, <2>4, <3>2 DEF ContextsReleasedOnce
    <3>3. QED
      BY <3>1, <3>2
  <2>6. QED
    BY <2>2, <2>5 DEF ContextsReleasedOnce
<1>8. QED
  BY <1>5, <1>6, <1>7
\* The calls a step leaves hold contexts in use before it, as does what it installs, but
\* for a new context that it may install or release.
LEMMA ContextMade ==
    ASSUME FfiAssumption, FfiIInv, contexts < MaxContexts, contexts' = contexts + 1,
           NEW d \in Downloads, owner' = [owner EXCEPT ![contexts + 1] = d],
           \A b \in Actors : \A x \in Calls(b)' : x.c # 0 => Owned(x),
           \/ /\ releases' = releases
              /\ \E s \in Slots : installed' = [installed EXCEPT ![d][s] = contexts + 1]
           \/ /\ releases' = [releases EXCEPT ![contexts + 1] = releases[contexts + 1] + 1]
              /\ installed' = installed
    PROVE  ContextInv' /\ ContextsReleasedOnce'
<1> USE DEF FfiIInv
<1>1. PICK n : n = contexts + 1
  OBVIOUS
<1>2. /\ n \in 1 .. MaxContexts /\ contexts \in Nat /\ n \notin 1 .. contexts /\ n > contexts
      /\ n # 0 /\ contexts' = n
      /\ 1 .. n = (1 .. contexts) \cup {n} /\ 1 .. n \subseteq 1 .. MaxContexts
      /\ \A c \in 1 .. MaxContexts : c > n => c > contexts /\ c # n
  BY <1>1, NextContext DEF FfiAssumption
<1>3. /\ releases \in [1 .. MaxContexts -> Nat] /\ installed \in [Downloads -> [Slots -> 0 .. contexts]]
      /\ owner \in [1 .. MaxContexts -> Downloads \cup {Nobody}] /\ releases[n] = 0
  BY <1>2 DEF FfiTypeOK, ContextInv
<1>4. owner'[n] = d /\ \A c \in 1 .. contexts : owner'[c] = owner[c]
  BY <1>1, <1>2, <1>3
<1>5. \/ /\ releases' = releases
         /\ \E s \in Slots : installed' = [installed EXCEPT ![d][s] = n]
      \/ releases' = [releases EXCEPT ![n] = 1] /\ installed' = installed
  BY <1>1, <1>3
<1>6. /\ \A c \in 1 .. MaxContexts : c # n => releases'[c] = releases[c]
      /\ releases'[n] = 0 \/ (releases'[n] = 1 /\ installed' = installed)
  BY <1>2, <1>3, <1>5
<1>7. /\ \A e \in Downloads, t \in Slots : \/ installed'[e][t] = installed[e][t]
                                           \/ installed'[e][t] = n /\ e = d
      /\ \A t, u \in Slots : installed'[d][t] = n /\ installed'[d][u] = n => t = u
      /\ \A e \in Downloads, t \in Slots : installed[e][t] # n
  BY <1>2, <1>3, <1>5
<1>8. \A b \in Actors : \A x \in Calls(b)' : x.c # 0 =>
          /\ x.c \in 1 .. contexts /\ owner'[x.c] = x.d
          /\ x.op \in {"set", "emit"} /\ x.at # "begin"
  BY <1>4 DEF Owned
<1>9. ASSUME NEW e \in Downloads, NEW t \in Slots, installed'[e][t] # 0
      PROVE  /\ owner'[installed'[e][t]] = e
             /\ \A u \in Slots : installed'[e][u] = installed'[e][t] => u = t
  <2>1. CASE installed'[e][t] = n
    BY <1>4, <1>7, <2>1
  <2>2. CASE installed'[e][t] # n
    <3>1. installed'[e][t] = installed[e][t] /\ installed[e][t] \in 1 .. contexts
      BY <1>3, <1>7, <1>9, <2>2
    <3>2. owner[installed[e][t]] = e /\ \A u \in Slots : installed[e][u] = installed[e][t] => u = t
      BY <1>9, <3>1 DEF ContextInv
    <3>3. QED
      BY <1>4, <1>7, <2>2, <3>1, <3>2
  <2>3. QED
    BY <2>1, <2>2
<1>10. ContextInv'
  <2>1. \A c \in 1 .. MaxContexts : c > contexts' => releases'[c] = 0
    BY <1>2, <1>6 DEF ContextInv
  <2>2. \A b \in Actors : \A x \in Calls(b)' : x.c # 0 =>
            /\ x.c \in 1 .. contexts' /\ owner'[x.c] = x.d
            /\ x.op \in {"set", "emit"} /\ x.at # "begin"
    BY <1>2, <1>8
  <2>3. QED
    BY <1>9, <2>1, <2>2 DEF ContextInv
<1>11. ASSUME NEW c \in 1 .. n, InUse(c)' PROVE releases'[c] = 0
  <2>1. CASE c = n
    <3>1. ~\E b \in Actors : \E x \in Calls(b)' : x.c = n
      BY <1>2, <1>8
    <3>2. \E e \in Downloads, t \in Slots : installed'[e][t] = n
      BY <1>11, <2>1, <3>1, InUseNext
    <3>3. installed' # installed
      BY <1>7, <3>2
    <3>4. QED
      BY <1>6, <2>1, <3>3
  <2>2. CASE c # n
    <3>1. c \in 1 .. contexts /\ c # 0
      BY <1>2, <2>2
    <3>2. InUse(c)
      <4>1. CASE \E b \in Actors : \E x \in Calls(b)' : x.c = c
        BY <3>1, <4>1 DEF Owned
      <4>2. CASE \E e \in Downloads, t \in Slots : installed'[e][t] = c
        BY <1>7, <2>2, <4>2 DEF InUse
      <4>3. QED
        BY <1>11, <4>1, <4>2, InUseNext
    <3>3. QED
      BY <1>2, <1>6, <2>2, <3>1, <3>2 DEF ContextsReleasedOnce
  <2>3. QED
    BY <2>1, <2>2
<1>12. \A c \in 1 .. n : releases'[c] <= 1
  BY <1>2, <1>6 DEF ContextsReleasedOnce
<1>13. QED
  BY <1>2, <1>10, <1>11, <1>12 DEF ContextsReleasedOnce

\* Steps inside callbacks keep who has which context, and release it once.
LEMMA ContextInner ==
    ASSUME FfiAssumption, FfiIInv, NEW a \in Actors, Inner(a)
    PROVE  ContextInv' /\ ContextsReleasedOnce'
<1> USE DEF FfiIInv
<1>1. InnerStack(a)
  BY InnerStep
<1>2. /\ stack[a] # <<>> /\ Top(a) \in Calls(a) /\ \A b \in Actors \ {a} : Calls(b)' = Calls(b)
      /\ \A x \in Calls(a)' : x \in Calls(a) \/ Inward(a, x)
  BY <1>1 DEF InnerStack
<1>3. ASSUME NEW b \in Actors, NEW x \in Calls(b)', x.c # 0 PROVE Owned(x)
  <2>1. CASE x \in Calls(b)
    BY <1>3, <2>1, CallsOwn
  <2>2. CASE b = a /\ Inward(a, x)
    <3>1. /\ x.op \in {"set", "emit"} /\ x.at # "begin" /\ x.d = Top(a).d /\ x.d \in Downloads
          /\ x.c = Top(a).c \/ \E s \in Slots : installed[x.d][s] = x.c
      BY <1>3, <2>2 DEF Inward
    <3>2. x.c \in 1 .. contexts /\ owner[x.c] = x.d /\ InUse(x.c)
      <4>1. CASE x.c = Top(a).c
        BY <1>2, <1>3, <3>1, <4>1, CallsOwn DEF Owned
      <4>2. CASE \E s \in Slots : installed[x.d][s] = x.c
        <5>1. PICK s \in Slots : installed[x.d][s] = x.c
          BY <4>2
        <5>2. QED
          BY <1>3, <3>1, <5>1, InstalledOwn
      <4>3. QED
        BY <3>1, <4>1, <4>2
    <3>3. QED
      BY <3>1, <3>2 DEF Owned
  <2>3. QED
    BY <1>2, <1>3, <2>1, <2>2
<1>4. Top(a).op = "set" => Top(a).d \in Downloads
  BY <1>2 DEF StackInv
<1>5. CASE SetCallback(a)
  <2>1. /\ contexts < MaxContexts /\ contexts' = contexts + 1 /\ releases' = releases
        /\ owner' = [owner EXCEPT ![contexts + 1] = Top(a).d] /\ Top(a).d \in Downloads
        /\ \E s \in Slots : installed' = [installed EXCEPT ![Top(a).d][s] = contexts + 1]
    BY <1>4, <1>5, InPlace DEF SetCallback
  <2>2. PICK d \in Downloads : d = Top(a).d
    BY <2>1
  <2>3. QED
    BY <1>3, <2>1, <2>2, ContextMade
<1>6. CASE SetRefused(a)
  <2>1. /\ contexts < MaxContexts /\ contexts' = contexts + 1 /\ installed' = installed
        /\ owner' = [owner EXCEPT ![contexts + 1] = Top(a).d] /\ Top(a).d \in Downloads
        /\ releases' = [releases EXCEPT ![contexts + 1] = releases[contexts + 1] + 1]
    BY <1>4, <1>6, InPlace DEF SetRefused
  <2>2. PICK d \in Downloads : d = Top(a).d
    BY <2>1
  <2>3. QED
    BY <1>3, <2>1, <2>2, ContextMade
<1>7. CASE RemoveCallback(a)
  <2>1. UNCHANGED <<contexts, owner, releases>> /\ Top(a).d \in Downloads
    BY <1>4, <1>7, InPlace DEF RemoveCallback
  <2>2. \A e \in Downloads, t \in Slots : installed'[e][t] = installed[e][t] \/ installed'[e][t] = 0
    BY <1>7, <2>1 DEF RemoveCallback, FfiTypeOK
  <2>3. ContextInv'
    <3>1. \A b \in Actors : \A x \in Calls(b)' : x.c # 0 =>
              /\ x.c \in 1 .. contexts /\ owner[x.c] = x.d
              /\ x.op \in {"set", "emit"} /\ x.at # "begin"
      BY <1>3 DEF Owned
    <3>2. ASSUME NEW e \in Downloads, NEW t \in Slots, installed'[e][t] # 0
          PROVE  /\ owner[installed'[e][t]] = e
                 /\ \A u \in Slots : installed'[e][u] = installed'[e][t] => u = t
      BY <2>2, <3>2 DEF ContextInv
    <3>3. QED
      BY <2>1, <3>1, <3>2 DEF ContextInv
  <2>4. ASSUME NEW c \in 1 .. contexts, InUse(c)' PROVE InUse(c)
    <3>1. c # 0
      OBVIOUS
    <3>2. CASE \E b \in Actors : \E x \in Calls(b)' : x.c = c
      BY <1>3, <3>1, <3>2 DEF Owned
    <3>3. CASE \E e \in Downloads, t \in Slots : installed'[e][t] = c
      BY <2>2, <3>1, <3>3 DEF InUse
    <3>4. QED
      BY <2>4, <3>2, <3>3, InUseNext
  <2>5. QED
    BY <2>1, <2>3, <2>4 DEF ContextsReleasedOnce
<1>8. CASE DropPrevious(a) \/ CallbackReturns(a)
  <2>1. UNCHANGED <<installed, contexts, owner>> /\ Release(a, Top(a).c)
    BY <1>8 DEF DropPrevious, CallbackReturns
  <2>2. \A x \in Calls(a)' : x.c # 0 => x \in Rest(a)
    <3>1. CASE Return(a)
      BY <1>2, <3>1, Returns
    <3>2. CASE ~Return(a)
      <4>1. PICK rest \in Seq(CallSet) : Elements(rest) = Rest(a) /\ rest = Tail(stack[a])
        BY <1>2, TopOf DEF Rest
      <4>2. PICK s \in Slots : s = Top(a).s
        BY <1>2, TopOf DEF CallSet
      <4>3. Notify(a, s, rest)
        BY <1>8, <3>2, <4>1, <4>2 DEF DropPrevious, CallbackReturns
      <4>4. \A x \in Calls(a)' : x \in Elements(rest) \/ x.c = 0
        BY <1>2, <4>3, Notifies
      <4>5. QED
        BY <4>1, <4>4
    <3>3. QED
      BY <3>1, <3>2
  <2>3. QED
    BY <1>2, <2>1, <2>2, ContextReleased
<1>9. CASE UNCHANGED callbacks
  BY <1>3, <1>9, ContextQuiet
<1>10. QED
  BY <1>5, <1>6, <1>7, <1>8, <1>9 DEF Inner, ListenerUnresolved, CloneCallback, NestedCall, Refused,
         Start, Spawn, Request, CancelJoin

\* Every step does.
LEMMA ContextKept ==
    ASSUME FfiAssumption, FfiIInv, [FfiNext]_ffiVars
    PROVE  ContextInv' /\ ContextsReleasedOnce'
<1> USE DEF FfiIInv
<1>1. ASSUME NEW a \in Actors, Outer(a) PROVE ContextInv' /\ ContextsReleasedOnce'
  <2>1. OuterStack(a)
    BY <1>1, OuterStep
  <2>2. Top(a) \in Calls(a) /\ Top(a).c = 0
    BY <2>1 DEF OuterStack, ContextInv, HostCalls
  <2>3. \A b \in Actors : \A x \in Calls(b)' : x.c # 0 => x \in Calls(b)
    BY <2>1, <2>2 DEF OuterStack, Outward
  <2>4. \A b \in Actors : \A x \in Calls(b)' : x.c # 0 => Owned(x)
    BY <2>3, CallsOwn
  <2>5. CASE Stop(a)
    <3>1. PICK ds \in SUBSET Downloads :
              DropStates(ds) /\ \A d \in ds : box[d] = "freed" /\ stack[d] = <<>>
      <4>1. DropStates({d \in {d \in Downloads : task[d] # "none" /\ host[d] = Top(a).r} : box[d] = "freed"})
        BY <2>5 DEF Stop
      <4>2. \A d \in Downloads : host[d] = Top(a).r => stack[d] = <<>>
        BY <2>5 DEF Stop
      <4>3. QED
        BY <4>1, <4>2
    <3>2. QED
      BY <2>3, <3>1, ContextDropped
  <2>6. CASE DropHandle(a)
    <3>1. CASE task[Top(a).d] = "none" /\ DropStates({Top(a).d})
      <4>1. Top(a).op = "release" /\ Top(a).at = "inner"
        BY <2>6, InPlace DEF DropHandle
      <4>2. Top(a).d \in Downloads /\ box[Top(a).d] = "freeing"
        BY <2>2, <4>1 DEF StackInv, UseInv
      <4>3. stack[Top(a).d] = <<>>
        BY <3>1, <4>2 DEF UseInv
      <4>4. PICK ds \in SUBSET Downloads : ds = {Top(a).d}
        BY <4>2
      <4>5. QED
        BY <2>3, <3>1, <4>2, <4>3, <4>4, ContextDropped
    <3>2. CASE UNCHANGED callbacks
      BY <2>4, <3>2, ContextQuiet
    <3>3. QED
      BY <2>6, <3>1, <3>2 DEF DropHandle
  <2>7. CASE UNCHANGED callbacks
    BY <2>4, <2>7, ContextQuiet
  <2>8. QED
    BY <1>1, <2>5, <2>6, <2>7 DEF Outer, GlobalInit, GlobalShutdown, CurrentGlobal, DropClone, Create,
         ReleaseHandle
<1>2. CASE HostStep
  <2>1. PICK t \in Threads, x \in CallSet : BegunStack(t, x) /\ HostBegins(x)
    BY <1>2, HostCalled
  <2>2. UNCHANGED callbacks /\ t \in Actors
    BY <1>2, HostCalled DEF Actors
  <2>3. \A b \in Actors : \A y \in Calls(b)' : y.c # 0 => Owned(y)
    BY <2>1, <2>2, CallsOwn DEF BegunStack
  <2>4. QED
    BY <2>2, <2>3, ContextQuiet
<1>3. ASSUME NEW d \in Downloads, TaskNotifies(d) PROVE ContextInv' /\ ContextsReleasedOnce'
  <2>1. PICK x \in CallSet : BegunStack(d, x)
    BY <1>3, TaskCalled
  <2>2. UNCHANGED callbacks /\ d \in Actors
    BY <1>3, TaskCalled DEF Actors
  <2>3. \A b \in Actors : \A y \in Calls(b)' : y.c # 0 => Owned(y)
    BY <2>1, <2>2, CallsOwn DEF BegunStack
  <2>4. QED
    BY <2>2, <2>3, ContextQuiet
<1>4. ASSUME NEW d \in Downloads, TaskEnds(d) PROVE ContextInv' /\ ContextsReleasedOnce'
  <2>1. stack[d] = <<>> /\ stack' = stack /\ DropStates(IF box[d] = "freed" THEN {d} ELSE {})
    BY <1>4 DEF TaskEnds
  <2>2. PICK ds \in SUBSET Downloads : DropStates(ds) /\ \A e \in ds : box[e] = "freed" /\ stack[e] = <<>>
    <3>1. CASE box[d] = "freed"
      <4>1. DropStates({d}) /\ {d} \in SUBSET Downloads
        BY <2>1, <3>1
      <4>2. QED
        BY <2>1, <3>1, <4>1
    <3>2. CASE box[d] # "freed"
      <4>1. DropStates({}) /\ {} \in SUBSET Downloads
        BY <2>1, <3>2
      <4>2. QED
        BY <4>1
    <3>3. QED
      BY <3>1, <3>2
  <2>3. \A b \in Actors : Calls(b)' = Calls(b)
    BY <2>1 DEF Calls
  <2>4. QED
    BY <2>2, <2>3, ContextDropped
<1>5. CASE UNCHANGED ffiVars
  <2>1. stack' = stack /\ UNCHANGED callbacks
    BY <1>5 DEF ffiVars
  <2>2. \A b \in Actors : Calls(b)' = Calls(b)
    BY <2>1 DEF Calls
  <2>3. \A b \in Actors : \A x \in Calls(b)' : x.c # 0 => Owned(x)
    BY <2>2, CallsOwn
  <2>4. QED
    BY <2>1, <2>3, ContextQuiet
<1>6. QED
  BY <1>1, <1>2, <1>3, <1>4, <1>5, ContextInner, StepCases

-----------------------------------------------------------------------------
(* The invariant holds, and with it the properties                         *)

\* Nothing is there at first.
LEMMA FfiBegins ==
    ASSUME FfiAssumption, FfiInit
    PROVE  FfiIInv
<1>1. FfiTypeOK
  BY DEF FfiInit, FfiTypeOK, FfiAssumption
<1>2. \A a \in Actors : Calls(a) = {} /\ stack[a] = <<>>
  BY DEF FfiInit, Calls
<1>3. \A d \in Downloads : d \in Actors
  BY DEF Actors
<1>4. StackInv /\ RuntimeInv /\ BirthInv
  BY <1>2 DEF FfiInit, StackInv, RuntimeInv, BirthInv
<1>5. UseInv /\ ContextInv
  BY <1>2, <1>3 DEF FfiInit, UseInv, ContextInv
<1>6. ContextsReleasedOnce /\ OneEngine
  BY DEF FfiInit, ContextsReleasedOnce, OneEngine, FfiAssumption
<1>7. QED
  BY <1>1, <1>4, <1>5, <1>6 DEF FfiIInv

\* Every state of the C ABI, with any number of threads, downloads, callbacks, runtimes and
\* contexts, and calls nested to any depth, has FfiIInv: the types, who may be inside which
\* function, whose runtime is whose, and what each context belongs to.
THEOREM FfiInvariant == FfiSpec => []FfiIInv
<1>1. FfiInit => FfiIInv
  BY FfiAssumption, FfiBegins
<1>2. FfiIInv /\ [FfiNext]_ffiVars => FfiIInv'
  BY FfiAssumption, FfiTypesKept, StackKept, RuntimeKept, BirthKept, UseKept, ContextKept DEF FfiIInv
<1>3. QED
  BY <1>1, <1>2, PTL DEF FfiSpec

\* CallbackContext::drop and the wrappers between them release a context once at most, and
\* never one that an installed or a running callback owns, however calls and callbacks nest.
THEOREM ReleasedOnce == FfiSpec => []ContextsReleasedOnce
<1>1. FfiIInv => ContextsReleasedOnce
  BY DEF FfiIInv
<1>2. QED
  BY <1>1, FfiInvariant, PTL

\* tknw_global_init never replaces a runtime that downloads of the same period share.
THEOREM EngineIsShared == FfiSpec => []OneEngine
<1>1. FfiIInv => OneEngine
  BY DEF FfiIInv
<1>2. QED
  BY <1>1, FfiInvariant, PTL

\* tknw_global_shutdown, and the drop of any clone of the Arc, leaves the runtime of every
\* live handle running.
THEOREM RuntimeOutlivesHandles == FfiSpec => []RunsOnLiveRuntime
<1>1. FfiIInv => RunsOnLiveRuntime
  BY DEF FfiIInv, RuntimeInv, RunsOnLiveRuntime
<1>2. QED
  BY <1>1, FfiInvariant, PTL
=============================================================================
