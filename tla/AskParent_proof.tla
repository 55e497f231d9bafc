------------------------------- MODULE AskParent_proof -------------------------------
(***************************************************************************)
(* Theorems about AskParent (lab3), for every number of children.          *)
(***************************************************************************)
EXTENDS AskParent, TLAPS

\* The children in the slots from i on.
From(i) == {child_proc[s] : s \in i .. proc_amount - 1}

\* The child is dead or SIGTERM will end it.
Doomed(c) == Alive(c) => "TERM" \in pending[c]

\* The signals of main's loops and the statements after them.
Callers ==
  {<<"KILL", "exit">>, <<"KILL", "ended">>, <<"TERM", "forget">>, <<"USR1", "menu">>,
   <<"USR2", "menu">>, <<"USR2", "contAll">>, <<"STOP", "choose">>, <<"CONT", "menu">>}

\* main sends one signal to all children, and then goes on as one of its callers does.
LoopShape ==
  pc = "loop" =>
    /\ <<loop.sig, loop.then>> \in Callers
    /\ loop.i <= proc_amount

\* Every counted slot holds a child that was created, and one more is about to be.
ArrayFilled ==
  /\ \A s \in 0 .. proc_amount - 1 : child_proc[s] \in Child
  /\ proc_amount <= created
  /\ pc = "fork" => proc_amount < created
  /\ pc = "killed" => proc_amount > 0
  /\ pc = "choose" \/ (pc = "loop" /\ loop.then = "choose") => chosen \in Slots

\* The handler works on the counted slots for whoever asked, and never after the end
\* of main.
HandlerShape ==
  /\ hpc # "none" => ~Over
  /\ hi <= proc_amount /\ (hpc \in {"none", "ask"} => hi = 0)
  /\ hpc \in {"stop", "ask"} => sender \in Child \cup {Parent}

\* Between the SIGSTOPs of 'p' and its SIGCONTs children may be stopped.
Stopping ==
  \/ pc \in {"choose", "select", "contAll"}
  \/ pc = "loop" /\ (loop.then \in {"choose", "contAll"} \/ loop.sig = "CONT")

\* A stopped child is in a slot that main's or the handler's SIGCONTs are still to reach.
StoppedInReach ==
  /\ stopped \subseteq From(0)
  /\ hpc = "none" /\ pc = "loop" /\ loop.sig = "CONT" => stopped \subseteq From(loop.i)
  /\ hpc = "none" /\ ~Stopping => stopped = {}
  /\ hpc = "cont" => stopped \subseteq From(hi)

\* While the parent lives, a living child is counted, or just forked, or doomed.
LivingCounted ==
  pc # "gone" =>
    \A c \in Child : Alive(c) => \/ c \in From(0)
                                 \/ "TERM" \in pending[c]
                                 \/ pc = "fork" /\ c = created

\* What the killing loops and '-' have reached is doomed or dead.
KilledSoFar ==
  /\ pc = "loop" /\ loop.sig = "TERM" => \A s \in 0 .. loop.i - 1 : Doomed(child_proc[s])
  /\ pc = "forget" => \A s \in 0 .. proc_amount - 1 : Doomed(child_proc[s])
  /\ pc = "loop" /\ loop.sig = "KILL" => \A s \in 0 .. loop.i - 1 : ~Alive(child_proc[s])
  /\ pc = "ended" => \A s \in 0 .. proc_amount - 1 : ~Alive(child_proc[s])
  /\ pc = "killed" => ~Alive(child_proc[proc_amount - 1])

IInv ==
  /\ TypeOK
  /\ LoopShape
  /\ ArrayFilled
  /\ HandlerShape
  /\ StoppedInReach
  /\ LivingCounted
  /\ KilledSoFar

-----------------------------------------------------------------------------
(* Signals and slots *)

Signals == {"KILL", "TERM", "STOP", "CONT", "USR1", "USR2"}

\* The types of the variables that are about the children.
ChildType ==
  /\ state \in [Child -> {"unborn", "exec", "ready", "asked", "dead"}]
  /\ stopped \in SUBSET Child
  /\ pending \in [Child -> SUBSET {"USR1", "USR2", "TERM"}]

\* No child comes to life, and no doomed child gets away.
Ages == \A c \in Child : (Alive(c)' => Alive(c)) /\ (Doomed(c) => Doomed(c)')

\* What one kill does to the child it is sent to, and that it does nothing to the others.
LEMMA SignalEffect ==
  ASSUME ChildType, NEW c \in Child, NEW sig \in Signals, Signal(c, sig)
  PROVE  /\ ChildType' /\ Ages
         /\ stopped' \subseteq stopped \cup {c}
         /\ sig # "STOP" => stopped' \subseteq stopped
         /\ sig \in {"CONT", "KILL"} => stopped' \subseteq stopped \ {c}
         /\ sig = "KILL" => ~Alive(c)'
         /\ sig = "TERM" => Doomed(c)'
<1>1. CASE sig = "KILL"
  <2>1. /\ state' = [state EXCEPT ![c] = "dead"] /\ stopped' = stopped \ {c}
        /\ pending' = [pending EXCEPT ![c] = {}]
    BY <1>1 DEF Signal
  <2> QED
    BY <1>1, <2>1 DEF ChildType, Ages, Alive, Doomed
<1>2. CASE sig \in {"STOP", "CONT"}
  <2>1. /\ state' = state /\ pending' = pending
        /\ stopped' = IF sig = "STOP" /\ Alive(c) THEN stopped \cup {c}
                      ELSE IF sig = "CONT" THEN stopped \ {c} ELSE stopped
    BY <1>2 DEF Signal
  <2> QED
    BY <1>2, <2>1 DEF ChildType, Ages, Alive, Doomed
<1>3. CASE sig \in {"TERM", "USR1", "USR2"}
  <2>1. /\ state' = state /\ stopped' = stopped
        /\ pending' = IF Alive(c) THEN [pending EXCEPT ![c] = @ \cup {sig}] ELSE pending
    BY <1>3 DEF Signal
  <2> QED
    BY <1>3, <2>1 DEF ChildType, Ages, Alive, Doomed
<1> QED
  BY <1>1, <1>2, <1>3 DEF Signals

\* What kill(0, sig) does to the children, and what happens to them with the parent.
LEMMA GroupEffect ==
  ASSUME ChildType
  PROVE  /\ \A sig \in {"USR1", "USR2"} :
              PendingForAll(sig) \in [Child -> SUBSET {"USR1", "USR2", "TERM"}]
         /\ \A c \in Child : pending[c] \subseteq PendingForAll("USR1")[c]
         /\ EveryChildDies => ChildType' /\ stopped' = {}
<1>1. \A sig \in {"USR1", "USR2"} :
        PendingForAll(sig) \in [Child -> SUBSET {"USR1", "USR2", "TERM"}]
  BY DEF ChildType, PendingForAll
<1>2. \A c \in Child : pending[c] \subseteq PendingForAll("USR1")[c]
  BY DEF ChildType, PendingForAll
<1>3. EveryChildDies => ChildType' /\ stopped' = {}
  BY DEF ChildType, EveryChildDies
<1> QED
  BY <1>1, <1>2, <1>3

LEMMA ParentDiesEffect ==
  ASSUME ChildType, NEW new \in [Child -> SUBSET {"USR1", "USR2", "TERM"}], ParentDies(new)
  PROVE  pc' = "gone" /\ ChildType' /\ stopped' = {}
<1>1. CASE stopped # {} /\ EveryChildDies
  BY <1>1, GroupEffect DEF ParentDies
<1>2. CASE stopped = {} /\ pending' = new /\ UNCHANGED <<state, stopped>>
  BY <1>2 DEF ParentDies, ChildType
<1> QED
  BY <1>1, <1>2 DEF ParentDies

LEMMA SlotFacts ==
  ASSUME TypeOK
  PROVE  /\ \A i \in Nat : /\ From(i) \subseteq From(0)
                           /\ From(i) \ {child_proc[i]} \subseteq From(i + 1)
                           /\ i >= proc_amount => From(i) = {}
         /\ proc_amount \in Nat /\ MaxChildren \in Nat /\ proc_amount <= MaxChildren
         /\ \A s \in 0 .. proc_amount - 1 : s \in Slots
<1>1. /\ proc_amount \in Nat /\ MaxChildren \in Nat /\ proc_amount <= MaxChildren
      /\ Length \in Nat /\ MaxChildren <= Length
  BY AskAssumption DEF TypeOK
<1> QED
  BY <1>1 DEF From, Slots

LEMMA SameSlots ==
  ASSUME UNCHANGED <<child_proc, proc_amount>>
  PROVE  \A i : From(i)' = From(i)
BY DEF From

\* While the array and main's place stay, ageing children keep what was reached.
LEMMA AgesKeeps ==
  ASSUME IInv, Ages, UNCHANGED <<pc, loop, arrayVars>>
  PROVE  LivingCounted' /\ KilledSoFar'
<1>1. UNCHANGED <<child_proc, proc_amount, created>>
  BY DEF arrayVars
<1>2. LivingCounted'
  BY <1>1, SameSlots DEF IInv, LivingCounted, Ages, Doomed
<1>3. \A s \in 0 .. proc_amount - 1 : child_proc[s] \in Child
  BY DEF IInv, ArrayFilled
<1>4. KilledSoFar'
  <2>1. proc_amount \in Nat /\ (pc = "loop" => loop.i \in Nat /\ loop.i <= proc_amount)
    BY SlotFacts DEF IInv, TypeOK, LoopShape
  <2>2. pc = "killed" => proc_amount - 1 \in 0 .. proc_amount - 1
    BY <2>1 DEF IInv, ArrayFilled
  <2> QED
    BY <1>1, <1>3, <2>1, <2>2 DEF IInv, KilledSoFar, Ages
<1> QED
  BY <1>2, <1>4

-----------------------------------------------------------------------------
(* The invariant and main's steps *)

LEMMA InvInit == Init => IInv
<1> SUFFICES ASSUME Init PROVE IInv
  OBVIOUS
<1>1. TypeOK
  BY AskAssumption DEF Init, TypeOK, NoLoop, Slots, Child
<1>2. LoopShape /\ ArrayFilled /\ HandlerShape
  BY DEF Init, LoopShape, ArrayFilled, HandlerShape, Over
<1>3. StoppedInReach /\ LivingCounted /\ KilledSoFar
  BY DEF Init, StoppedInReach, LivingCounted, KilledSoFar, Alive
<1> QED
  BY <1>1, <1>2, <1>3 DEF IInv

\* main starts to send a signal to all children.
LEMMA LoopStarts ==
  ASSUME IInv, hpc = "none", pc \in {"menu", "select", "contAll", "exit"},
         NEW sig, NEW then, <<sig, then>> \in Callers, SigForAll(sig, then),
         UNCHANGED <<arrayVars, handlerVars, asking, childVars>>,
         chosen' \in Slots \cup {NoSlot}, then = "choose" => chosen' \in Slots,
         pc \in {"select", "contAll"} => then = "contAll" \/ sig = "CONT"
  PROVE  IInv'
<1>1. /\ pc' = "loop" /\ loop' = [sig |-> sig, i |-> 0, then |-> then]
      /\ sig \in Signals /\ then \in {"menu", "forget", "choose", "contAll", "exit", "ended"}
  BY DEF SigForAll, Callers, Signals
<1>2. UNCHANGED <<child_proc, proc_amount, created, hpc, hi, sender, asking, state, stopped,
                  pending>>
  BY DEF arrayVars, handlerVars, childVars
<1>3. TypeOK'
  BY <1>1, <1>2, AskAssumption DEF IInv, TypeOK, Signals
<1>4. LoopShape' /\ ArrayFilled' /\ HandlerShape'
  <2>1. proc_amount \in Nat
    BY SlotFacts DEF IInv
  <2> QED
    BY <1>1, <1>2, <2>1 DEF IInv, LoopShape, ArrayFilled, HandlerShape, Over, Callers
<1>5. StoppedInReach'
  <2>1. stopped \subseteq From(0) /\ (~Stopping' => stopped = {})
    BY <1>1 DEF IInv, StoppedInReach, Stopping
  <2> QED
    BY <1>1, <1>2, <2>1, SameSlots DEF StoppedInReach
<1>6. LivingCounted' /\ KilledSoFar'
  <2>1. LivingCounted'
    BY <1>1, <1>2, SameSlots DEF IInv, LivingCounted, Alive
  <2>2. KilledSoFar'
    BY <1>1 DEF KilledSoFar
  <2> QED
    BY <2>1, <2>2
<1> QED
  BY <1>3, <1>4, <1>5, <1>6 DEF IInv

LEMMA ForkStep ==
  ASSUME IInv, Fork
  PROVE  IInv'
<1>1. /\ hpc = "none" /\ pc = "menu" /\ pc' = "fork" /\ created < MaxChildren
      /\ created' = created + 1 /\ state' = [state EXCEPT ![created + 1] = "exec"]
      /\ UNCHANGED <<loop, chosen, child_proc, proc_amount, hpc, hi, sender, asking, stopped,
                     pending>>
  BY DEF Fork, MainAt, handlerVars
<1>2. created + 1 \in Child
  BY <1>1, AskAssumption DEF IInv, TypeOK, Child
<1>3. TypeOK'
  <2>1. created' \in 0 .. MaxChildren
    BY <1>1, AskAssumption DEF IInv, TypeOK
  <2>2. state' \in [Child -> {"unborn", "exec", "ready", "asked", "dead"}]
    BY <1>1, <1>2 DEF IInv, TypeOK
  <2> QED
    BY <1>1, <2>1, <2>2 DEF IInv, TypeOK
<1>4. LoopShape' /\ ArrayFilled' /\ HandlerShape'
  <2>1. proc_amount \in Nat /\ created \in Nat
    BY SlotFacts DEF IInv, TypeOK
  <2> QED
    BY <1>1, <2>1 DEF IInv, LoopShape, ArrayFilled, HandlerShape, Over
<1>5. StoppedInReach'
  BY <1>1, SameSlots DEF IInv, StoppedInReach, Stopping
<1>6. LivingCounted' /\ KilledSoFar'
  BY <1>1, <1>2, SameSlots DEF IInv, LivingCounted, KilledSoFar, Alive, TypeOK
<1> QED
  BY <1>3, <1>4, <1>5, <1>6 DEF IInv

LEMMA AddStep ==
  ASSUME IInv, AddChild
  PROVE  IInv'
<1>1. /\ hpc = "none" /\ pc = "fork" /\ pc' = "menu"
      /\ child_proc' = [child_proc EXCEPT ![proc_amount] = created]
      /\ proc_amount' = proc_amount + 1
      /\ UNCHANGED <<loop, chosen, created, hpc, hi, sender, asking, state, stopped,
                     pending>>
  BY DEF AddChild, MainAt, handlerVars, childVars
<1>2. /\ proc_amount \in Nat /\ created \in Nat /\ proc_amount < created /\ created <= MaxChildren
      /\ created \in Child /\ proc_amount \in Slots
  BY <1>1, SlotFacts, AskAssumption DEF IInv, TypeOK, ArrayFilled, Child, Slots
<1>3. /\ child_proc \in [Slots -> Child \cup {Nobody}]
      /\ child_proc'[proc_amount] = created
      /\ \A s \in 0 .. proc_amount - 1 : s \in Slots /\ child_proc'[s] = child_proc[s]
  BY <1>1, <1>2, SlotFacts DEF IInv, TypeOK
<1>4. TypeOK'
  <2>1. child_proc' \in [Slots -> Child \cup {Nobody}]
    BY <1>1, <1>2, <1>3
  <2>2. proc_amount' \in 0 .. MaxChildren
    BY <1>1, <1>2, AskAssumption
  <2> QED
    BY <1>1, <2>1, <2>2 DEF IInv, TypeOK
<1>5. LoopShape' /\ ArrayFilled' /\ HandlerShape'
  <2>1. \A s \in 0 .. proc_amount' - 1 : child_proc'[s] \in Child
    BY <1>1, <1>2, <1>3 DEF IInv, ArrayFilled
  <2> QED
    BY <1>1, <1>2, <2>1 DEF LoopShape, ArrayFilled, HandlerShape, Over, IInv
<1>6. StoppedInReach'
  BY <1>1 DEF IInv, StoppedInReach, Stopping
<1>7. LivingCounted'
  <2>1. From(0) \cup {created} \subseteq From(0)'
    <3>1. From(0)' = {child_proc'[s] : s \in 0 .. proc_amount}
      BY <1>1, <1>2 DEF From
    <3> QED
      BY <1>2, <1>3, <3>1 DEF From
  <2> QED
    BY <1>1, <2>1 DEF IInv, LivingCounted, Alive
<1>8. KilledSoFar'
  BY <1>1 DEF KilledSoFar
<1> QED
  BY <1>4, <1>5, <1>6, <1>7, <1>8 DEF IInv

\* main sends signals to one child or to more, and goes on from the menu or 'p'.
LEMMA SendStep ==
  ASSUME IInv, hpc = "none", ChildType', Ages, stopped' \subseteq stopped,
         asking' \in Child \cup {Nobody, Parent},
         UNCHANGED <<loop, chosen, arrayVars, handlerVars>>,
         \/ pc = "menu" /\ pc' = "menu"
         \/ /\ pc = "menu" /\ pc' = "killed" /\ proc_amount > 0
            /\ ~Alive(child_proc[proc_amount - 1])'
         \/ pc = "choose" /\ pc' = "select"
  PROVE  IInv'
<1>1. UNCHANGED <<child_proc, proc_amount, created, hpc, hi, sender>>
  BY DEF arrayVars, handlerVars
<1>2. TypeOK'
  BY <1>1 DEF IInv, TypeOK, ChildType
<1>3. LoopShape' /\ ArrayFilled' /\ HandlerShape'
  BY <1>1 DEF IInv, LoopShape, ArrayFilled, HandlerShape, Over
<1>4. StoppedInReach'
  <2>1. stopped \subseteq From(0) /\ (~Stopping' => stopped = {})
    BY DEF IInv, StoppedInReach, Stopping
  <2>2. hpc' = "none" /\ pc' # "loop"
    BY <1>1
  <2> QED
    BY <1>1, <2>1, <2>2, SameSlots DEF StoppedInReach
<1>5. LivingCounted'
  BY <1>1, SameSlots DEF IInv, LivingCounted, Ages, Doomed
<1>6. KilledSoFar'
  BY <1>1 DEF KilledSoFar, Alive
<1> QED
  BY <1>2, <1>3, <1>4, <1>5, <1>6 DEF IInv

\* A signal ends the parent: nobody is left stopped.
LEMMA GoneStep ==
  ASSUME IInv, pc' = "gone", hpc' = "none", hi' = 0, sender' \in Child \cup {Nobody, Parent},
         ChildType', stopped' = {}, UNCHANGED <<loop, chosen, arrayVars, asking>>
  PROVE  IInv'
<1>1. UNCHANGED <<child_proc, proc_amount, created>>
  BY DEF arrayVars
<1>2. TypeOK'
  BY <1>1, SlotFacts DEF IInv, TypeOK, ChildType
<1>3. LoopShape' /\ ArrayFilled' /\ HandlerShape'
  BY <1>1, SlotFacts DEF IInv, LoopShape, ArrayFilled, HandlerShape, Over
<1>4. StoppedInReach' /\ LivingCounted' /\ KilledSoFar'
  BY DEF StoppedInReach, LivingCounted, KilledSoFar
<1> QED
  BY <1>2, <1>3, <1>4 DEF IInv

\* main's loop sends its signal to the next child.
LEMMA LoopSends ==
  ASSUME IInv, hpc = "none", pc = "loop", loop.i < proc_amount,
         Signal(child_proc[loop.i], loop.sig), loop' = [loop EXCEPT !.i = @ + 1],
         UNCHANGED <<pc, chosen, arrayVars, handlerVars, asking>>
  PROVE  IInv'
<1>1. UNCHANGED <<child_proc, proc_amount, created, hpc, hi, sender>>
  BY DEF arrayVars, handlerVars
<1>2. PICK n, g, th : /\ n \in Nat /\ n < proc_amount /\ g \in Signals
                      /\ n = loop.i /\ g = loop.sig /\ th = loop.then
                      /\ th \in {"menu", "forget", "choose", "contAll", "exit", "ended"}
                      /\ loop' = [sig |-> g, i |-> n + 1, then |-> th]
  <2>1. /\ loop.i \in Nat /\ loop.sig \in Signals
        /\ loop.then \in {"menu", "forget", "choose", "contAll", "exit", "ended"}
        /\ loop = [sig |-> loop.sig, i |-> loop.i, then |-> loop.then]
    BY AskAssumption DEF IInv, TypeOK, Signals
  <2>2. loop' = [sig |-> loop.sig, i |-> loop.i + 1, then |-> loop.then]
    BY <2>1
  <2> QED
    BY <2>1, <2>2
<1>3. PICK c \in Child : c = child_proc[n]
  BY <1>2, SlotFacts DEF IInv, ArrayFilled
<1>4. ChildType
  BY DEF IInv, TypeOK, ChildType
<1>5. /\ ChildType' /\ Ages
      /\ stopped' \subseteq stopped \cup {c}
      /\ g # "STOP" => stopped' \subseteq stopped
      /\ g \in {"CONT", "KILL"} => stopped' \subseteq stopped \ {c}
      /\ g = "KILL" => ~Alive(c)'
      /\ g = "TERM" => Doomed(c)'
  <2>1. Signal(c, g)
    BY <1>2, <1>3
  <2> QED
    BY <1>2, <1>4, <2>1, SignalEffect
<1>6. proc_amount \in Nat /\ proc_amount <= MaxChildren /\ MaxChildren \in Nat
  BY SlotFacts DEF IInv
<1>7. TypeOK'
  <2>1. loop' \in [sig : Signals, i : 0 .. MaxChildren,
                   then : {"menu", "forget", "choose", "contAll", "exit", "ended"}]
    <3>1. n + 1 \in 0 .. MaxChildren
      BY <1>2, <1>6
    <3> QED
      BY <1>2, <3>1
  <2> QED
    BY <1>1, <1>5, <2>1 DEF IInv, TypeOK, ChildType, Signals
<1>8. LoopShape' /\ ArrayFilled' /\ HandlerShape'
  BY <1>1, <1>2, <1>6 DEF IInv, LoopShape, ArrayFilled, HandlerShape, Over
<1>9. StoppedInReach'
  <2>1. c \in From(0) /\ stopped \subseteq From(0)
    BY <1>2, <1>3, <1>6 DEF IInv, StoppedInReach, From
  <2>2. g = "CONT" => stopped' \subseteq From(n + 1)
    <3>1. g = "CONT" => stopped \subseteq From(n)
      BY <1>2 DEF IInv, StoppedInReach
    <3>2. From(n) \ {c} \subseteq From(n + 1)
      BY <1>2, <1>3, SlotFacts DEF IInv
    <3> QED
      BY <1>5, <3>1, <3>2
  <2>3. ~Stopping' => g # "STOP" /\ stopped = {}
    BY <1>2 DEF IInv, StoppedInReach, Stopping, LoopShape, Callers
  <2> QED
    BY <1>1, <1>2, <1>5, <2>1, <2>2, <2>3, SameSlots DEF StoppedInReach
<1>10. LivingCounted'
  BY <1>1, <1>5, SameSlots DEF IInv, LivingCounted, Ages, Doomed
<1>11. KilledSoFar'
  <2>1. \A s \in 0 .. n - 1 : child_proc[s] \in Child
    BY <1>2, <1>6 DEF IInv, ArrayFilled
  <2>2. g = "TERM" => \A s \in 0 .. n : Doomed(child_proc[s])'
    <3>1. g = "TERM" => \A s \in 0 .. n - 1 : Doomed(child_proc[s])
      BY <1>2 DEF IInv, KilledSoFar
    <3> SUFFICES ASSUME g = "TERM", NEW s \in 0 .. n PROVE Doomed(child_proc[s])'
      OBVIOUS
    <3>2. CASE s = n
      BY <1>1, <1>3, <1>5, <3>2 DEF Doomed, Alive
    <3>3. CASE s \in 0 .. n - 1
      <4>1. PICK d \in Child : d = child_proc[s]
        BY <2>1, <3>3
      <4>2. Doomed(d)'
        BY <1>5, <3>1, <3>3, <4>1 DEF Ages
      <4> QED
        BY <1>1, <4>1, <4>2 DEF Doomed, Alive
    <3> QED
      BY <1>2, <3>2, <3>3
  <2>3. g = "KILL" => \A s \in 0 .. n : ~Alive(child_proc[s])'
    <3>1. g = "KILL" => \A s \in 0 .. n - 1 : ~Alive(child_proc[s])
      BY <1>2 DEF IInv, KilledSoFar
    <3> SUFFICES ASSUME g = "KILL", NEW s \in 0 .. n PROVE ~Alive(child_proc[s])'
      OBVIOUS
    <3>2. CASE s = n
      BY <1>1, <1>3, <1>5, <3>2 DEF Alive
    <3>3. CASE s \in 0 .. n - 1
      <4>1. PICK d \in Child : d = child_proc[s]
        BY <2>1, <3>3
      <4>2. ~Alive(d)'
        BY <1>5, <3>1, <3>3, <4>1 DEF Ages
      <4> QED
        BY <1>1, <4>1, <4>2 DEF Alive
    <3> QED
      BY <1>2, <3>2, <3>3
  <2> QED
    BY <1>2, <2>2, <2>3 DEF KilledSoFar
<1> QED
  BY <1>7, <1>8, <1>9, <1>10, <1>11 DEF IInv

\* The loop has reached the last child.
LEMMA LoopEnds ==
  ASSUME IInv, hpc = "none", pc = "loop", loop.i >= proc_amount, pc' = loop.then, loop' = NoLoop,
         chosen' = IF loop.then = "menu" THEN NoSlot ELSE chosen,
         UNCHANGED <<childVars, arrayVars, handlerVars, asking>>
  PROVE  IInv'
<1>1. UNCHANGED <<child_proc, proc_amount, created, hpc, hi, sender, state, stopped, pending>>
  BY DEF arrayVars, handlerVars, childVars
<1>2. PICK g, th : /\ g = loop.sig /\ th = loop.then /\ pc' = th /\ <<g, th>> \in Callers
                   /\ loop.i = proc_amount
  BY AskAssumption DEF IInv, TypeOK, LoopShape, Callers
<1>3. proc_amount \in Nat
  BY SlotFacts DEF IInv
<1>4. TypeOK'
  <2>1. loop' \in [sig : {"KILL", "TERM", "STOP", "CONT", "USR1", "USR2"}, i : 0 .. MaxChildren,
                   then : {"menu", "forget", "choose", "contAll", "exit", "ended"}]
    BY AskAssumption DEF NoLoop
  <2> QED
    BY <1>1, <1>2, <2>1 DEF IInv, TypeOK
<1>5. LoopShape' /\ ArrayFilled' /\ HandlerShape'
  BY <1>1, <1>2 DEF IInv, LoopShape, ArrayFilled, HandlerShape, Over, Callers
<1>6. StoppedInReach'
  <2>1. g = "CONT" => stopped = {}
    BY <1>2, <1>3, SlotFacts DEF IInv, StoppedInReach
  <2>2. ~Stopping' => stopped = {}
    BY <1>2, <2>1 DEF IInv, StoppedInReach, Stopping, Callers
  <2>3. stopped \subseteq From(0) /\ hpc' = "none" /\ pc' # "loop"
    BY <1>1, <1>2 DEF IInv, StoppedInReach, Callers
  <2> QED
    BY <1>1, <2>2, <2>3, SameSlots DEF StoppedInReach
<1>7. LivingCounted'
  BY <1>1, <1>2, SameSlots DEF IInv, LivingCounted, Alive
<1>8. KilledSoFar'
  BY <1>1, <1>2, <1>3 DEF IInv, KilledSoFar, Callers, Alive, Doomed
<1> QED
  BY <1>4, <1>5, <1>6, <1>7, <1>8 DEF IInv

\* '-' and 'k' forget the children they have killed.
LEMMA ForgetStep ==
  ASSUME IInv, RemoveLast \/ Forget
  PROVE  IInv'
<1>1. /\ hpc = "none" /\ pc \in {"killed", "forget"} /\ pc' = "menu"
      /\ proc_amount' = IF pc = "killed" THEN proc_amount - 1 ELSE 0
      /\ UNCHANGED <<loop, chosen, child_proc, created, hpc, hi, sender, asking, state, stopped,
                     pending>>
  BY DEF RemoveLast, Forget, MainAt, handlerVars, childVars
<1>2. /\ proc_amount \in Nat /\ created \in Nat /\ proc_amount <= MaxChildren /\ MaxChildren \in Nat
      /\ pc = "killed" => proc_amount > 0
  BY SlotFacts DEF IInv, TypeOK, ArrayFilled
<1>3. proc_amount' \in Nat /\ proc_amount' <= proc_amount
  BY <1>1, <1>2
<1>4. TypeOK'
  <2>1. proc_amount' \in 0 .. MaxChildren
    BY <1>2, <1>3
  <2> QED
    BY <1>1, <2>1 DEF IInv, TypeOK
<1>5. LoopShape' /\ ArrayFilled' /\ HandlerShape'
  BY <1>1, <1>2, <1>3 DEF IInv, LoopShape, ArrayFilled, HandlerShape, Over
<1>6. StoppedInReach'
  BY <1>1 DEF IInv, StoppedInReach, Stopping
<1>7. LivingCounted'
  <2>1. \A s \in 0 .. proc_amount - 1 : s \in 0 .. proc_amount' - 1 \/ Doomed(child_proc[s])
    BY <1>1, <1>2 DEF IInv, KilledSoFar, Doomed
  <2>2. \A c \in From(0) : c \in From(0)' \/ Doomed(c)
    BY <1>1, <2>1 DEF From
  <2> QED
    BY <1>1, <2>2 DEF IInv, LivingCounted, Doomed, Alive
<1>8. KilledSoFar'
  BY <1>1 DEF KilledSoFar
<1> QED
  BY <1>4, <1>5, <1>6, <1>7, <1>8 DEF IInv

-----------------------------------------------------------------------------
(* The invariant, the handler and the children *)

LEMMA MainStep ==
  ASSUME IInv, Main \/ Command
  PROVE  IInv'
<1>1. TypeOK /\ ChildType
  BY DEF IInv, TypeOK, ChildType
<1>2. CASE CommandAll \/ InputWait \/ ContinueAll \/ Exit
  <2>1. PICK sig, then : /\ SigForAll(sig, then) /\ <<sig, then>> \in Callers /\ then # "choose"
                         /\ pc \in {"menu", "select", "contAll", "exit"} /\ hpc = "none"
                         /\ pc \in {"select", "contAll"} => then = "contAll" \/ sig = "CONT"
                         /\ chosen' \in {chosen, NoSlot}
                         /\ UNCHANGED <<arrayVars, handlerVars, asking, childVars>>
    BY <1>2 DEF CommandAll, InputWait, ContinueAll, Exit, MainAt, Callers
  <2>2. chosen' \in Slots \cup {NoSlot}
    BY <1>1, <2>1 DEF TypeOK
  <2> QED
    BY <2>1, <2>2, LoopStarts
<1>3. CASE PrintOne
  <2>1. /\ SigForAll("STOP", "choose") /\ <<"STOP", "choose">> \in Callers
        /\ pc = "menu" /\ hpc = "none" /\ chosen' \in Slots
        /\ UNCHANGED <<arrayVars, handlerVars, asking, childVars>>
    BY <1>3 DEF PrintOne, MainAt, Callers
  <2> QED
    BY <2>1, LoopStarts
<1>4. CASE LoopStep
  <2>1. /\ hpc = "none" /\ pc = "loop" /\ UNCHANGED <<arrayVars, handlerVars, asking>>
        /\ \/ /\ loop.i < proc_amount /\ Signal(child_proc[loop.i], loop.sig)
              /\ loop' = [loop EXCEPT !.i = @ + 1] /\ UNCHANGED <<pc, chosen>>
           \/ /\ loop.i >= proc_amount /\ pc' = loop.then /\ loop' = NoLoop
              /\ chosen' = IF loop.then = "menu" THEN NoSlot ELSE chosen
              /\ UNCHANGED childVars
    BY <1>4 DEF LoopStep, MainAt
  <2> QED
    BY <2>1, LoopSends, LoopEnds
<1>5. CASE KillLast
  <2>1. /\ hpc = "none" /\ pc = "menu" /\ UNCHANGED <<loop, chosen, arrayVars, handlerVars, asking>>
        /\ \/ proc_amount > 0 /\ Signal(child_proc[proc_amount - 1], "KILL") /\ pc' = "killed"
           \/ EveryChildDies /\ pc' = "gone"
    BY <1>5 DEF KillLast, MainAt
  <2>2. CASE proc_amount > 0 /\ Signal(child_proc[proc_amount - 1], "KILL") /\ pc' = "killed"
    <3>1. PICK c \in Child : c = child_proc[proc_amount - 1]
      BY <2>2, SlotFacts DEF IInv, ArrayFilled
    <3>2. ChildType' /\ Ages /\ stopped' \subseteq stopped /\ ~Alive(c)'
      <4>1. Signal(c, "KILL") /\ "KILL" \in Signals
        BY <2>2, <3>1 DEF Signals
      <4> QED
        BY <1>1, <4>1, SignalEffect
    <3>3. ~Alive(child_proc[proc_amount - 1])'
      BY <2>1, <3>1, <3>2 DEF Alive, arrayVars
    <3>4. asking' \in Child \cup {Nobody, Parent}
      BY <1>1, <2>1 DEF TypeOK
    <3> QED
      BY <2>1, <2>2, <3>2, <3>3, <3>4, SendStep
  <2>3. CASE EveryChildDies /\ pc' = "gone"
    BY <1>1, <2>1, <2>3, GroupEffect, GoneStep
    DEF handlerVars, HandlerShape, Over, IInv, TypeOK
  <2> QED
    BY <2>1, <2>2, <2>3
<1>6. CASE CommandOne
  <2>1. PICK s \in Slots, sig \in {"USR1", "USR2"} :
          child_proc[s] # Nobody /\ Signal(child_proc[s], sig)
    BY <1>6 DEF CommandOne
  <2>2. /\ hpc = "none" /\ pc = "menu" /\ pc' = "menu"
        /\ UNCHANGED <<loop, chosen, arrayVars, handlerVars, asking>>
    BY <1>6 DEF CommandOne, MainAt, mainVars
  <2>3. child_proc[s] \in Child
    BY <1>1, <2>1 DEF TypeOK
  <2>4. ChildType' /\ Ages /\ stopped' \subseteq stopped
    BY <1>1, <2>1, <2>3, SignalEffect DEF Signals
  <2>5. asking' \in Child \cup {Nobody, Parent}
    BY <1>1, <2>2 DEF TypeOK
  <2> QED
    BY <2>2, <2>4, <2>5, SendStep
<1>7. CASE CommandGroupMute
  <2>1. /\ hpc = "none" /\ pc = "menu" /\ pc' = "menu"
        /\ pending' = PendingForAll("USR1") /\ UNCHANGED <<state, stopped>>
        /\ asking' \in {asking, Parent}
        /\ UNCHANGED <<loop, chosen, arrayVars, handlerVars>>
    BY <1>7 DEF CommandGroupMute, MainAt, mainVars
  <2>2. ChildType' /\ Ages /\ stopped' \subseteq stopped
    <3>1. ChildType'
      BY <1>1, <2>1, GroupEffect DEF ChildType
    <3>2. Ages
      BY <1>1, <2>1, GroupEffect DEF Ages, Alive, Doomed
    <3> QED
      BY <2>1, <3>1, <3>2
  <2>3. asking' \in Child \cup {Nobody, Parent}
    BY <1>1, <2>1 DEF TypeOK
  <2> QED
    BY <2>1, <2>2, <2>3, SendStep
<1>8. CASE CommandGroupAllow
  <2>1. /\ hpc = "none" /\ ParentDies(PendingForAll("USR2"))
        /\ UNCHANGED <<loop, chosen, arrayVars, handlerVars, asking>>
    BY <1>8 DEF CommandGroupAllow, MainAt
  <2> QED
    BY <1>1, <2>1, GroupEffect, ParentDiesEffect, GoneStep
    DEF handlerVars, HandlerShape, Over, IInv, TypeOK
<1>9. CASE AllowChosen
  <2>1. /\ hpc = "none" /\ pc = "choose"
        /\ UNCHANGED <<loop, chosen, arrayVars, handlerVars, asking>>
        /\ \/ child_proc[chosen] # Nobody /\ Signal(child_proc[chosen], "USR2") /\ pc' = "select"
           \/ ParentDies(PendingForAll("USR2"))
    BY <1>9 DEF AllowChosen, MainAt
  <2>2. CASE child_proc[chosen] # Nobody /\ Signal(child_proc[chosen], "USR2") /\ pc' = "select"
    <3>1. chosen \in Slots
      BY <2>1 DEF IInv, ArrayFilled
    <3>2. child_proc[chosen] \in Child
      BY <1>1, <2>2, <3>1 DEF TypeOK
    <3>3. ChildType' /\ Ages /\ stopped' \subseteq stopped
      BY <1>1, <2>2, <3>2, SignalEffect DEF Signals
    <3>4. asking' \in Child \cup {Nobody, Parent}
      BY <1>1, <2>1 DEF TypeOK
    <3> QED
      BY <2>1, <2>2, <3>3, <3>4, SendStep
  <2>3. CASE ParentDies(PendingForAll("USR2"))
    BY <1>1, <2>1, <2>3, GroupEffect, ParentDiesEffect, GoneStep
    DEF handlerVars, HandlerShape, IInv, TypeOK
  <2> QED
    BY <2>1, <2>2, <2>3
<1> QED
  BY <1>2, <1>3, <1>4, <1>5, <1>6, <1>7, <1>8, <1>9, ForkStep, AddStep, ForgetStep DEF Main, Command

\* The handler sends SIGSTOP or SIGCONT to the next child, or goes on.
LEMMA HandlerStep ==
  ASSUME IInv, Handler
  PROVE  IInv'
<1>1. UNCHANGED <<loop, chosen, child_proc, proc_amount, created>>
  BY DEF Handler, HandlerStarts, HandlerStop, HandlerAsk, HandlerContinue, mainVars, arrayVars
<1>2. proc_amount \in Nat /\ proc_amount <= MaxChildren /\ MaxChildren \in Nat /\ hi \in Nat
  BY SlotFacts DEF IInv, TypeOK
<1>3. ChildType
  BY DEF IInv, TypeOK, ChildType
<1>4. CASE HandlerStarts
  <2>1. /\ hpc = "none" /\ ~Over /\ asking # Nobody /\ hpc' = "stop" /\ hi' = 0
        /\ sender' = asking /\ asking' = Nobody
        /\ UNCHANGED <<pc, state, stopped, pending>>
    BY <1>4 DEF HandlerStarts, mainVars, childVars
  <2>2. TypeOK'
    BY <1>1, <1>2, <2>1 DEF IInv, TypeOK
  <2>3. LoopShape' /\ ArrayFilled' /\ HandlerShape'
    BY <1>1, <1>2, <2>1 DEF IInv, LoopShape, ArrayFilled, HandlerShape, TypeOK, Over
  <2>4. StoppedInReach'
    BY <1>1, <2>1, SameSlots DEF IInv, StoppedInReach
  <2>5. Ages
    BY <2>1 DEF Ages, Doomed, Alive
  <2> QED
    BY <1>1, <2>1, <2>2, <2>3, <2>4, <2>5, AgesKeeps DEF IInv, arrayVars
<1>5. CASE HandlerStop
  <2>1. /\ hpc = "stop" /\ UNCHANGED <<pc, sender, asking>> /\ hpc' \in {"stop", "ask"}
        /\ hi' \in Nat /\ hi' <= proc_amount /\ (hpc' = "ask" => hi' = 0)
    BY <1>2, <1>5 DEF HandlerStop, mainVars
  <2>2. ChildType' /\ Ages /\ stopped' \subseteq From(0)
    <3>1. stopped \subseteq From(0)
      BY DEF IInv, StoppedInReach
    <3>2. CASE UNCHANGED childVars
      BY <1>3, <3>1, <3>2 DEF childVars, ChildType, Ages, Doomed, Alive
    <3>3. CASE hi < proc_amount /\ Signal(child_proc[hi], "STOP")
      <4>1. PICK c \in Child : c = child_proc[hi]
        BY <1>2, <3>3 DEF IInv, ArrayFilled
      <4>2. ChildType' /\ Ages /\ stopped' \subseteq stopped \cup {c}
        BY <1>3, <3>3, <4>1, SignalEffect DEF Signals
      <4>3. c \in From(0)
        BY <1>2, <3>3, <4>1 DEF From
      <4> QED
        BY <3>1, <4>2, <4>3
    <3> QED
      BY <1>5, <3>2, <3>3 DEF HandlerStop
  <2>3. TypeOK'
    BY <1>1, <1>2, <2>1, <2>2 DEF IInv, TypeOK, ChildType
  <2>4. LoopShape' /\ ArrayFilled' /\ HandlerShape'
    BY <1>1, <1>2, <2>1 DEF IInv, LoopShape, ArrayFilled, HandlerShape, Over
  <2>5. StoppedInReach'
    BY <1>1, <2>1, <2>2, SameSlots DEF StoppedInReach
  <2> QED
    BY <1>1, <2>1, <2>2, <2>3, <2>4, <2>5, AgesKeeps DEF IInv, arrayVars
<1>6. CASE HandlerAsk
  <2>1. /\ hpc = "ask" /\ sender' = Nobody /\ UNCHANGED <<hi, asking>>
        /\ \/ sender # Parent /\ Signal(sender, "USR2") /\ hpc' = "cont" /\ UNCHANGED pc
           \/ sender = Parent /\ ParentDies(pending) /\ hpc' = "none"
           \/ hpc' = "cont" /\ UNCHANGED <<pc, childVars>>
    BY <1>6 DEF HandlerAsk
  <2>2. hi = 0
    BY <2>1 DEF IInv, HandlerShape, Over
  <2>3. CASE sender = Parent /\ ParentDies(pending) /\ hpc' = "none"
    <3>1. pc' = "gone" /\ ChildType' /\ stopped' = {}
      BY <1>3, <2>3, ParentDiesEffect DEF ChildType
    <3> QED
      BY <1>1, <2>1, <2>2, <2>3, <3>1, GoneStep DEF arrayVars
  <2>4. ASSUME hpc' = "cont", UNCHANGED pc,
               (sender # Parent /\ Signal(sender, "USR2")) \/ UNCHANGED childVars
        PROVE  IInv'
    <3>1. ChildType' /\ Ages /\ stopped' \subseteq stopped
      <4>1. CASE UNCHANGED childVars
        BY <1>3, <4>1 DEF childVars, ChildType, Ages, Doomed, Alive
      <4>2. CASE sender # Parent /\ Signal(sender, "USR2")
        <5>1. sender \in Child /\ "USR2" \in Signals
          BY <2>1, <4>2 DEF Signals, IInv, HandlerShape, Over
        <5> QED
          BY <1>3, <4>2, <5>1, SignalEffect
      <4> QED
        BY <2>4, <4>1, <4>2
    <3>2. TypeOK'
      BY <1>1, <1>2, <2>1, <2>4, <3>1 DEF IInv, TypeOK, ChildType
    <3>3. LoopShape' /\ ArrayFilled' /\ HandlerShape'
      BY <1>1, <1>2, <2>1, <2>4 DEF IInv, LoopShape, ArrayFilled, HandlerShape, Over
    <3>4. StoppedInReach'
      BY <1>1, <2>1, <2>2, <2>4, <3>1, SameSlots DEF IInv, StoppedInReach
    <3> QED
      BY <1>1, <2>1, <2>4, <3>1, <3>2, <3>3, <3>4, AgesKeeps DEF IInv, arrayVars
  <2> QED
    BY <2>1, <2>3, <2>4
<1>7. CASE HandlerContinue /\ hi < proc_amount
  <2>1. /\ hpc = "cont" /\ UNCHANGED <<pc, hpc, sender, asking>> /\ hi' = hi + 1
        /\ Signal(child_proc[hi], "CONT")
    BY <1>2, <1>7 DEF HandlerContinue
  <2>2. PICK c \in Child : c = child_proc[hi]
    BY <1>2, <1>7 DEF IInv, ArrayFilled
  <2>3. ChildType' /\ Ages /\ stopped' \subseteq stopped \ {c}
    BY <1>3, <2>1, <2>2, SignalEffect DEF Signals
  <2>4. TypeOK'
    BY <1>1, <1>2, <1>7, <2>1, <2>3 DEF IInv, TypeOK, ChildType
  <2>5. LoopShape' /\ ArrayFilled' /\ HandlerShape'
    BY <1>1, <1>2, <1>7, <2>1 DEF IInv, LoopShape, ArrayFilled, HandlerShape, Over
  <2>6. StoppedInReach'
    <3>1. stopped \subseteq From(0) /\ stopped \subseteq From(hi)
      BY <2>1 DEF IInv, StoppedInReach
    <3>2. From(hi) \ {c} \subseteq From(hi + 1)
      BY <1>2, <2>2, SlotFacts DEF IInv
    <3>3. stopped' \subseteq From(0) /\ stopped' \subseteq From(hi + 1)
      BY <2>3, <3>1, <3>2
    <3> QED
      BY <1>1, <2>1, <3>3, SameSlots DEF StoppedInReach
  <2> QED
    BY <1>1, <2>1, <2>3, <2>4, <2>5, <2>6, AgesKeeps DEF IInv, arrayVars
<1>8. CASE HandlerContinue /\ hi >= proc_amount
  <2>1. /\ hpc = "cont" /\ hpc' = "none" /\ hi' = 0
        /\ pc' = IF pc = "select" THEN "exit" ELSE pc
        /\ UNCHANGED <<sender, asking, state, stopped, pending>>
    BY <1>2, <1>8 DEF HandlerContinue, childVars
  <2>2. stopped = {}
    BY <1>2, <1>8, <2>1, SlotFacts DEF IInv, StoppedInReach
  <2>3. TypeOK'
    BY <1>1, <1>2, <2>1 DEF IInv, TypeOK
  <2>4. LoopShape' /\ ArrayFilled' /\ HandlerShape'
    BY <1>1, <1>2, <2>1 DEF IInv, LoopShape, ArrayFilled, HandlerShape, Over
  <2>5. StoppedInReach'
    BY <2>1, <2>2 DEF StoppedInReach
  <2>6. LivingCounted'
    BY <1>1, <2>1, SameSlots DEF IInv, LivingCounted, Alive
  <2>7. KilledSoFar'
    BY <1>1, <2>1 DEF IInv, KilledSoFar, Alive, Doomed
  <2> QED
    BY <2>3, <2>4, <2>5, <2>6, <2>7 DEF IInv
<1> QED
  BY <1>2, <1>4, <1>5, <1>6, <1>7, <1>8 DEF Handler, HandlerContinue

LEMMA ChildStep ==
  ASSUME IInv, NEW c \in Child, ChildStarts(c) \/ Deliver(c)
  PROVE  IInv'
<1>1. /\ UNCHANGED <<pc, loop, chosen, child_proc, proc_amount, created, hpc, hi, sender, stopped>>
      /\ asking' \in Child \cup {Nobody, Parent}
  BY DEF ChildStarts, Deliver, mainVars, arrayVars, handlerVars, IInv, TypeOK
<1>2. ChildType' /\ Ages
  <2>1. ChildType
    BY DEF IInv, TypeOK, ChildType
  <2>2. CASE ChildStarts(c)
    BY <2>1, <2>2 DEF ChildStarts, ChildType, Ages, Alive, Doomed
  <2>3. CASE Deliver(c)
    BY <2>1, <2>3 DEF Deliver, ChildType, Ages, Alive, Doomed
  <2> QED
    BY <2>2, <2>3
<1>3. TypeOK'
  BY <1>1, <1>2 DEF IInv, TypeOK, ChildType
<1>4. LoopShape' /\ ArrayFilled' /\ HandlerShape'
  BY <1>1 DEF IInv, LoopShape, ArrayFilled, HandlerShape, Over
<1>5. StoppedInReach'
  BY <1>1, SameSlots DEF IInv, StoppedInReach, Stopping
<1> QED
  BY <1>1, <1>2, <1>3, <1>4, <1>5, AgesKeeps DEF IInv, arrayVars

LEMMA InvStep == IInv /\ [Next]_vars => IInv'
<1> SUFFICES ASSUME IInv, [Next]_vars PROVE IInv'
  OBVIOUS
<1>1. CASE UNCHANGED vars
  <2>1. UNCHANGED <<pc, loop, chosen, child_proc, proc_amount, created, hpc, hi, sender, asking,
                    state, stopped, pending>>
    BY <1>1 DEF vars, mainVars, arrayVars, handlerVars, childVars
  <2> QED
    BY <2>1 DEF IInv, TypeOK, LoopShape, ArrayFilled, HandlerShape, Over, StoppedInReach, Stopping,
                LivingCounted, KilledSoFar, From, Alive, Doomed, Over
<1> QED
  BY <1>1, MainStep, HandlerStep, ChildStep DEF Next

LEMMA Invariance == Spec => []IInv
BY InvInit, InvStep, PTL DEF Spec

-----------------------------------------------------------------------------
(* Theorems *)

\* Every variable keeps its type.  Wherever the handler interrupts main, the count is
\* between 0 and the children created, as many as the array holds, and the counters
\* of both loops are no greater; nothing is said of the pids they meet.
THEOREM TypeCorrect == Spec => []TypeOK
<1>1. IInv => TypeOK
  BY DEF IInv
<1> QED
  BY <1>1, Invariance, PTL

\* Back at the menu no child is left stopped, wherever the handler interrupted main.
THEOREM MenuStopsNobody == Spec => []NobodyStaysStopped
<1>1. IInv => NobodyStaysStopped
  BY DEF IInv, StoppedInReach, Stopping, NobodyStaysStopped, MainAt
<1> QED
  BY <1>1, Invariance, PTL

\* When exit ends the program, no child survives it but those SIGTERM is about to end,
\* and none of these is stopped.
THEOREM NobodySurvives == Spec => []ExitLeavesNobody
<1>1. IInv => ExitLeavesNobody
  <2> SUFFICES ASSUME IInv, pc = "ended", NEW c \in Child, Alive(c)
               PROVE  "TERM" \in pending[c] /\ c \notin stopped
    BY DEF ExitLeavesNobody
  <2>1. hpc = "none"
    BY DEF IInv, HandlerShape, Over
  <2>2. c \notin stopped
    BY <2>1 DEF IInv, StoppedInReach, Stopping
  <2>3. c \notin From(0)
    BY DEF IInv, KilledSoFar, From
  <2> QED
    BY <2>2, <2>3 DEF IInv, LivingCounted
<1> QED
  BY <1>1, Invariance, PTL

=============================================================================
