-------------------------------- MODULE AskParent --------------------------------
(***************************************************************************)
(* lab3/newpar.c with lab3/newchi.c: a parent starts, stops and signals    *)
(* its children from a menu.  Each child sends SIGUSR1 when it starts; the *)
(* parent's handler then stops all children, asks its user whether this    *)
(* one may print, and continues them.  The handler interrupts main at any  *)
(* statement and uses the same array and count.                            *)
(*                                                                         *)
(* main's pc:                                                              *)
(*   menu     scanf of a command         fork     add_childproc            *)
(*   loop     sig_for_all: the next kill killed   kill_childproc: the --   *)
(*   forget   'k': proc_amount = 0       choose   'p': SIGUSR2 to the one  *)
(*   select   input_wait                 contAll  'p': SIGCONT to all      *)
(*   exit     atexit_handler             ended    exit is over             *)
(*   gone     a signal ended the parent                                    *)
(* The handler's hpc: none, stop (its loop), ask (scanf), cont (its loop). *)
(*                                                                         *)
(* The code takes any number after 's', 'g' and 'p' for a slot.  Here it   *)
(* is one of the array's, but it may be a slot that was never filled: pid  *)
(* 0, which is the whole process group with the parent in it.              *)
(***************************************************************************)
EXTENDS Integers

CONSTANTS
  MaxChildren,  \* bound: children ever created; the code does not check that the array holds them
  Length,       \* of child_proc: 100
  Nobody,       \* no child, and the pid 0 of a slot that was never filled
  Parent        \* the parent, where it is a signal's sender

ASSUME AskAssumption ==
  /\ MaxChildren \in Nat \ {0} /\ Length \in Nat /\ MaxChildren <= Length
  /\ Nobody \notin 1 .. MaxChildren /\ Parent \notin 1 .. MaxChildren /\ Nobody # Parent

Child == 1 .. MaxChildren
Slots == 0 .. Length - 1
NoSlot == -1

VARIABLES
  pc,
  loop,         \* main's sig_for_all: the signal, its index, the statement after it
  chosen,       \* 'p': the slot the user named, until another key than 'g' is pressed
  child_proc,   \* the child in each slot
  proc_amount,
  created,      \* children created so far
  hpc, hi,      \* the handler's statement and the index of its loop
  sender,       \* info->si_pid
  asking,       \* the pending SIGUSR1's sender, or Nobody
  state,        \* of each child: "unborn", "exec", "ready", "asked", "dead"
  stopped,      \* children stopped by SIGSTOP
  pending       \* the signals each child has yet to handle

mainVars == <<pc, loop, chosen>>
arrayVars == <<child_proc, proc_amount, created>>
handlerVars == <<hpc, hi, sender>>
childVars == <<state, stopped, pending>>
vars == <<mainVars, arrayVars, handlerVars, asking, childVars>>

NoLoop == [sig |-> "KILL", i |-> 0, then |-> "menu"]

Init ==
  /\ pc = "menu" /\ loop = NoLoop /\ chosen = NoSlot
  /\ child_proc = [s \in Slots |-> Nobody]
  /\ proc_amount = 0 /\ created = 0
  /\ hpc = "none" /\ hi = 0 /\ sender = Nobody
  /\ asking = Nobody
  /\ state = [c \in Child |-> "unborn"]
  /\ stopped = {}
  /\ pending = [c \in Child |-> {}]

Alive(c) == state[c] \notin {"unborn", "dead"}
Over == pc \in {"ended", "gone"}

-----------------------------------------------------------------------------
(* kill *)

\* SIGKILL, SIGSTOP and SIGCONT act at once, on a stopped child too; other signals
\* wait until the child runs.  A child that is dead, and never reaped, ignores all.
Signal(c, sig) ==
  /\ state' = IF sig = "KILL" THEN [state EXCEPT ![c] = "dead"] ELSE state
  /\ stopped' = IF sig = "STOP" /\ Alive(c) THEN stopped \cup {c}
                ELSE IF sig \in {"CONT", "KILL"} THEN stopped \ {c} ELSE stopped
  /\ pending' = IF sig = "KILL" THEN [pending EXCEPT ![c] = {}]
                ELSE IF sig \in {"USR1", "USR2", "TERM"} /\ Alive(c)
                THEN [pending EXCEPT ![c] = @ \cup {sig}] ELSE pending

\* What the children have to handle after kill(0, sig), stopped or not.
PendingForAll(sig) == [c \in Child |-> IF Alive(c) THEN pending[c] \cup {sig} ELSE pending[c]]

EveryChildDies ==
  /\ state' = [c \in Child |-> IF Alive(c) THEN "dead" ELSE state[c]]
  /\ stopped' = {} /\ pending' = [c \in Child |-> {}]

\* SIGUSR2 ends the parent, which has no handler for it, without exit.  Its process
\* group is orphaned: if one of it is stopped the kernel sends SIGHUP and SIGCONT to
\* all, else the children live on with the signals newPending.
ParentDies(newPending) ==
  /\ pc' = "gone"
  /\ \/ stopped # {} /\ EveryChildDies
     \/ stopped = {} /\ pending' = newPending /\ UNCHANGED <<state, stopped>>

-----------------------------------------------------------------------------
(* main, which runs while the handler does not *)

MainAt(label) == hpc = "none" /\ pc = label
SigForAll(sig, then) == pc' = "loop" /\ loop' = [sig |-> sig, i |-> 0, then |-> then]

\* '+': the child exists before it is entered in the array.  A fork that fails
\* changes nothing.  The program at child_path is there: after an execve that fails
\* (73) the child would go on as a second parent at the same terminal.
Fork ==
  /\ MainAt("menu")
  /\ created < MaxChildren
  /\ created' = created + 1
  /\ state' = [state EXCEPT ![created + 1] = "exec"]
  /\ pc' = "fork"
  /\ UNCHANGED <<loop, chosen, child_proc, proc_amount, handlerVars, asking, stopped, pending>>

AddChild ==
  /\ MainAt("fork")
  /\ child_proc' = [child_proc EXCEPT ![proc_amount] = created]
  /\ proc_amount' = proc_amount + 1
  /\ pc' = "menu"
  /\ UNCHANGED <<loop, chosen, created, handlerVars, asking, childVars>>

\* Fault: the count is decremented with the kill and after it.
KillLastDecrements ==
  /\ MainAt("menu")
  /\ proc_amount > 0
  /\ Signal(child_proc[proc_amount - 1], "KILL")
  /\ proc_amount' = proc_amount - 1
  /\ pc' = "killed"
  /\ UNCHANGED <<loop, chosen, child_proc, created, handlerVars, asking>>

\* '-'.  Without children the pid is read from before the array, where the program's
\* .bss is zero: kill(0, SIGKILL) ends everybody.
KillLast ==
  /\ MainAt("menu")
  /\ \/ proc_amount > 0 /\ Signal(child_proc[proc_amount - 1], "KILL") /\ pc' = "killed"
     \/ proc_amount = 0 /\ EveryChildDies /\ pc' = "gone"
  /\ UNCHANGED <<loop, chosen, arrayVars, handlerVars, asking>>

RemoveLast ==
  /\ MainAt("killed")
  /\ proc_amount' = proc_amount - 1
  /\ pc' = "menu"
  /\ UNCHANGED <<loop, chosen, child_proc, created, handlerVars, asking, childVars>>

\* 'q', 'k', 's' and 'g' for all children.
CommandAll ==
  /\ MainAt("menu")
  /\ \/ SigForAll("KILL", "exit") \/ SigForAll("TERM", "forget")
     \/ SigForAll("USR1", "menu") \/ SigForAll("USR2", "menu")
  /\ UNCHANGED <<chosen, arrayVars, handlerVars, asking, childVars>>

\* 's<num>' and 'g<num>', for a child that is counted, or forgotten but in its slot.
CommandOne ==
  /\ MainAt("menu")
  /\ \E s \in Slots, sig \in {"USR1", "USR2"} :
       child_proc[s] # Nobody /\ Signal(child_proc[s], sig)
  /\ UNCHANGED <<mainVars, arrayVars, handlerVars, asking>>

\* 's<num>' for a slot that was never filled: the parent is one of those that are
\* sent SIGUSR1, and its handler will ask about itself.
CommandGroupMute ==
  /\ MainAt("menu")
  /\ \E s \in Slots : child_proc[s] = Nobody
  /\ pending' = PendingForAll("USR1")
  /\ asking' = IF asking = Nobody THEN Parent ELSE asking
  /\ UNCHANGED <<mainVars, arrayVars, handlerVars, state, stopped>>

\* 'g<num>' for such a slot.
CommandGroupAllow ==
  /\ MainAt("menu")
  /\ \E s \in Slots : child_proc[s] = Nobody
  /\ ParentDies(PendingForAll("USR2"))
  /\ UNCHANGED <<loop, chosen, arrayVars, handlerVars, asking>>

\* 'p<num>' stops all children first.
PrintOne ==
  /\ MainAt("menu")
  /\ chosen' \in Slots
  /\ SigForAll("STOP", "choose")
  /\ UNCHANGED <<arrayVars, handlerVars, asking, childVars>>

LoopStep ==
  /\ MainAt("loop")
  /\ \/ /\ loop.i < proc_amount
        /\ Signal(child_proc[loop.i], loop.sig)
        /\ loop' = [loop EXCEPT !.i = @ + 1]
        /\ UNCHANGED <<pc, chosen>>
     \/ /\ loop.i >= proc_amount
        /\ pc' = loop.then /\ loop' = NoLoop
        /\ chosen' = IF loop.then = "menu" THEN NoSlot ELSE chosen
        /\ UNCHANGED childVars
  /\ UNCHANGED <<arrayVars, handlerVars, asking>>

Forget ==
  /\ MainAt("forget")
  /\ proc_amount' = 0
  /\ pc' = "menu"
  /\ UNCHANGED <<loop, chosen, child_proc, created, handlerVars, asking, childVars>>

AllowChosen ==
  /\ MainAt("choose")
  /\ \/ child_proc[chosen] # Nobody /\ Signal(child_proc[chosen], "USR2") /\ pc' = "select"
     \/ child_proc[chosen] = Nobody /\ ParentDies(PendingForAll("USR2"))
  /\ UNCHANGED <<loop, chosen, arrayVars, handlerVars, asking>>

\* input_wait: 'g' continues all children; another key, or none within five
\* seconds, first allows all of them to print.
InputWait ==
  /\ MainAt("select")
  /\ \/ SigForAll("CONT", "menu") /\ UNCHANGED chosen
     \/ SigForAll("USR2", "contAll") /\ chosen' = NoSlot
  /\ UNCHANGED <<arrayVars, handlerVars, asking, childVars>>

\* Fault: after another key the children are allowed to print but not continued.
ContinueNone ==
  /\ MainAt("contAll")
  /\ pc' = "menu"
  /\ UNCHANGED <<loop, chosen, arrayVars, handlerVars, asking, childVars>>

ContinueAll ==
  /\ MainAt("contAll")
  /\ SigForAll("CONT", "menu")
  /\ UNCHANGED <<chosen, arrayVars, handlerVars, asking, childVars>>

\* Fault: nothing is registered with atexit.
ExitAtOnce ==
  /\ MainAt("exit")
  /\ pc' = "ended"
  /\ UNCHANGED <<loop, chosen, arrayVars, handlerVars, asking, childVars>>

\* exit calls atexit_handler.
Exit ==
  /\ MainAt("exit")
  /\ SigForAll("KILL", "ended")
  /\ UNCHANGED <<chosen, arrayVars, handlerVars, asking, childVars>>

\* What main does by itself.
Main ==
  \/ AddChild \/ RemoveLast \/ LoopStep \/ Forget \/ AllowChosen \/ InputWait \/ ContinueAll
  \/ Exit

Command ==
  \/ Fork \/ KillLast \/ CommandAll \/ CommandOne \/ CommandGroupMute \/ CommandGroupAllow
  \/ PrintOne

-----------------------------------------------------------------------------
(* child_sigrecieve; SIGUSR1 is blocked while it runs *)

HandlerStarts ==
  /\ hpc = "none" /\ ~Over /\ asking # Nobody
  /\ hpc' = "stop" /\ hi' = 0
  /\ sender' = asking /\ asking' = Nobody
  /\ UNCHANGED <<mainVars, arrayVars, childVars>>

HandlerStop ==
  /\ hpc = "stop"
  /\ \/ /\ hi < proc_amount
        /\ Signal(child_proc[hi], "STOP")
        /\ hi' = hi + 1 /\ UNCHANGED hpc
     \/ hi >= proc_amount /\ hpc' = "ask" /\ hi' = 0 /\ UNCHANGED childVars
  /\ UNCHANGED <<mainVars, arrayVars, sender, asking>>

\* Fault: the answer "n" returns from the handler at once.
HandlerAskReturns ==
  /\ hpc = "ask"
  /\ sender' = Nobody
  /\ \/ sender # Parent /\ Signal(sender, "USR2") /\ hpc' = "cont" /\ UNCHANGED pc
     \/ hpc' = "none" /\ UNCHANGED <<pc, childVars>>
  /\ UNCHANGED <<loop, chosen, arrayVars, hi, asking>>

\* "y" sends SIGUSR2 to the sender, a child, counted or not, or the parent itself.
HandlerAsk ==
  /\ hpc = "ask"
  /\ sender' = Nobody
  /\ \/ sender # Parent /\ Signal(sender, "USR2") /\ hpc' = "cont" /\ UNCHANGED pc
     \/ sender = Parent /\ ParentDies(pending) /\ hpc' = "none"
     \/ hpc' = "cont" /\ UNCHANGED <<pc, childVars>>
  /\ UNCHANGED <<loop, chosen, arrayVars, hi, asking>>

\* A select that the handler has interrupted fails: err ends the program.
HandlerContinue ==
  /\ hpc = "cont"
  /\ \/ /\ hi < proc_amount
        /\ Signal(child_proc[hi], "CONT")
        /\ hi' = hi + 1 /\ UNCHANGED <<hpc, pc>>
     \/ /\ hi >= proc_amount
        /\ hpc' = "none" /\ hi' = 0
        /\ pc' = IF pc = "select" THEN "exit" ELSE pc
        /\ UNCHANGED childVars
  /\ UNCHANGED <<loop, chosen, arrayVars, sender, asking>>

Handler == HandlerStarts \/ HandlerStop \/ HandlerAsk \/ HandlerContinue

-----------------------------------------------------------------------------
(* The children *)

\* init_sigaction, then ask_to_print; of two requests the parent has not seen the
\* second is lost.
ChildStarts(c) ==
  /\ c \notin stopped
  /\ \/ state[c] = "exec" /\ state' = [state EXCEPT ![c] = "ready"] /\ UNCHANGED asking
     \/ /\ state[c] = "ready"
        /\ state' = [state EXCEPT ![c] = "asked"]
        /\ asking' = IF asking = Nobody /\ ~Over THEN c ELSE asking
  /\ UNCHANGED <<mainVars, arrayVars, handlerVars, stopped, pending>>

\* A child that runs handles all its pending signals; what SIGUSR1 and SIGUSR2 set
\* is ChildStatistics's.  SIGTERM, or any of them before the handlers are installed,
\* ends it.
Deliver(c) ==
  /\ Alive(c) /\ c \notin stopped
  /\ pending[c] # {}
  /\ pending' = [pending EXCEPT ![c] = {}]
  /\ state' = IF "TERM" \in pending[c] \/ state[c] = "exec"
              THEN [state EXCEPT ![c] = "dead"] ELSE state
  /\ UNCHANGED <<mainVars, arrayVars, handlerVars, asking, stopped>>

Next ==
  \/ Command \/ Main \/ Handler
  \/ \E c \in Child : ChildStarts(c) \/ Deliver(c)

Spec == Init /\ [][Next]_vars

\* All processes are scheduled, and the user answers what the program asks: the
\* question of the handler and, or its five seconds pass, that of input_wait.
\* Nobody has to give a command, and the commands leave the children time to run.
Fairness ==
  /\ WF_vars(Main) /\ WF_vars(Handler)
  /\ \A c \in Child : SF_vars(Deliver(c))

FairSpec == Spec /\ Fairness

-----------------------------------------------------------------------------
(* Properties *)

\* Every variable has the type its declaration gives it.
TypeOK ==
  /\ pc \in {"menu", "fork", "loop", "killed", "forget", "choose", "select", "contAll", "exit",
             "ended", "gone"}
  /\ loop \in [sig : {"KILL", "TERM", "STOP", "CONT", "USR1", "USR2"}, i : 0 .. MaxChildren,
               then : {"menu", "forget", "choose", "contAll", "exit", "ended"}]
  /\ chosen \in Slots \cup {NoSlot}
  /\ child_proc \in [Slots -> Child \cup {Nobody}]
  /\ proc_amount \in 0 .. MaxChildren /\ created \in 0 .. MaxChildren
  /\ hpc \in {"none", "stop", "ask", "cont"} /\ hi \in 0 .. MaxChildren
  /\ sender \in Child \cup {Nobody, Parent} /\ asking \in Child \cup {Nobody, Parent}
  /\ state \in [Child -> {"unborn", "exec", "ready", "asked", "dead"}]
  /\ stopped \in SUBSET Child
  /\ pending \in [Child -> SUBSET {"USR1", "USR2", "TERM"}]

\* Back at the menu no child is left stopped, wherever the handler interrupted
\* main's own stopping and continuing, forking or killing.  So it is after 'g' too,
\* although input_wait's prompt promises otherwise: GContinuesOnlyChosen.
NobodyStaysStopped == MainAt("menu") => stopped = {}

\* After 'p<num>' and 'g' main continues the child the user named, and the others
\* stay stopped, as the prompt says (31).  It fails: main continues them all (263).
GContinuesOnlyChosen ==
  [][MainAt("loop") /\ loop.sig = "CONT" /\ chosen # NoSlot
       => stopped \ stopped' \subseteq {child_proc[chosen]}]_vars

\* When exit ends the program, by 'q' or by the select that the handler interrupts,
\* it leaves no child behind but those SIGTERM is about to end.
ExitLeavesNobody ==
  pc = "ended" => \A c \in Child : Alive(c) => "TERM" \in pending[c] /\ c \notin stopped

\* A child gets the signals sent to it, or is killed: it is never stopped for ever.
SignalsArrive == \A c \in Child : pending[c] # {} ~> pending[c] = {}

=================================================================================
