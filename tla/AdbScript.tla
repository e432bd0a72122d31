----------------------------- MODULE AdbScript -----------------------------
(***************************************************************************)
(* How Dive's host code drives an Android device: a sequence of adb        *)
(* commands, each of which may fail, under three rules of C++ control flow *)
(* that the device manager uses everywhere:                                *)
(*                                                                         *)
(*   - RETURN_IF_ERROR: a failed command ends the function, and its        *)
(*     callers, up to the first one that ignores the error;                *)
(*   - IgnoreError: the failure of a command or of a call is dropped;      *)
(*   - absl::Cleanup: commands that run when the scope is left, however    *)
(*     it is left, in reverse order of their creation.                     *)
(*                                                                         *)
(* The program is the sequence todo: the rest of the function that runs,   *)
(* its end, the rest of its caller, and so on.  A call is replaced by the  *)
(* body of the function and an end only when it is executed, so that every *)
(* end in todo belongs to a function that has been entered.  A "landing"   *)
(* is where a failing function goes: its last armed cleanup, or its end.   *)
(***************************************************************************)
EXTENDS Naturals, Sequences, FiniteSets, SequencesExt

CONSTANT MaxFaults   \* commands that fail, and host crashes, in a behaviour

ASSUME MaxFaultsAssumption == MaxFaults \in Nat

VARIABLES
    device,   \* the marks that commands have left on the device
    todo,     \* what the host still has to execute
    ok,       \* FALSE while an error is being returned
    dev,      \* the AndroidDevice object
    app,      \* its m_app
    faults,   \* number of faults so far
    history   \* of the session: what it found, and what went wrong

(***************************************************************************)
(* Instructions.  fn is the effect of a command on the host's objects, or  *)
(* the function that is called.                                            *)
(***************************************************************************)
Instruction(op, fn) ==
    [op |-> op, fn |-> fn, add |-> {}, del |-> {}, need |-> {}, must |-> TRUE,
     landing |-> FALSE, arg |-> <<>>]

Adb(fn) == Instruction("adb", fn)

\* One or more commands in a row that leave nothing on the device: whichever of
\* them fails, the outcome is the same.
Run == Adb("none")

Set(m) == [Run EXCEPT !.add = {m}]

Clear(ms) == [Run EXCEPT !.del = ms]

\* A command that fails unless the device has the given marks.
Needing(c, ms) == [c EXCEPT !.need = ms]

\* The error of the call is returned by the caller, or dropped.
Call(fn) == Instruction("call", fn)

CallOn(fn, arg) == [Call(fn) EXCEPT !.arg = arg]

Ignoring(fn) == [Call(fn) EXCEPT !.must = FALSE]

\* The end of a function, called while no error was being returned unless it is
\* called by a cleanup.
End(must, wasOk) ==
    [Instruction("end", "none") EXCEPT !.landing = TRUE, !.must = must, !.arg = wasOk]

\* An assignment to one of the host's objects.
Note(fn) == Instruction("note", fn)

Defer(s) == [Instruction("defer", "none") EXCEPT !.arg = s]

\* IgnoreError() on every command of s.
Ignored(s) == [i \in DOMAIN s |-> [s[i] EXCEPT !.must = FALSE]]

FirstLanding(s) ==
    LET landings == {i \in DOMAIN s : s[i].landing}
    IN  IF landings = {} THEN Len(s) + 1 ELSE CHOOSE i \in landings : \A j \in landings : i <= j

\* Returning an error skips the rest of the function that runs.
Unwind(s) == SubSeq(s, FirstLanding(s), Len(s))

\* A cleanup runs before those that were armed earlier in the same scope.
Arm(body, s) ==
    LET n == FirstLanding(s)
    IN  SubSeq(s, 1, n - 1)
            \o [i \in DOMAIN body |-> [body[i] EXCEPT !.landing = TRUE, !.must = FALSE]]
            \o SubSeq(s, n, Len(s))

Busy == todo # <<>>

Running(op) == Busy /\ Head(todo).op = op

\* A crash of the host need only be considered where the host is waiting for the
\* device or the user: its other instructions leave the device alone.
Waiting == ~Busy \/ Running("adb")

DeviceAfter(c) == (device \ c.del) \cup c.add

----------------------------------------------------------------------------
ArmCleanup ==
    /\ Running("defer")
    /\ todo' = Arm(Head(todo).arg, Tail(todo))
    /\ UNCHANGED <<device, ok, dev, app, faults, history>>

\* The function that is called, as a script.
Enter(body) ==
    /\ todo' = body \o <<End(Head(todo).must, ok)>> \o Tail(todo)
    /\ ok' = TRUE

EndScope ==
    /\ Running("end")
    /\ LET returned == ~ok /\ Head(todo).must
       IN  /\ todo' = IF returned THEN Unwind(Tail(todo)) ELSE Tail(todo)
           /\ ok' = (Head(todo).arg /\ ~returned)
    /\ UNCHANGED <<device, dev, app, faults, history>>

(***************************************************************************)
(* A command fails because the device refuses it, or by a fault: the       *)
(* connection is lost before or after the device has executed it.  lsof is *)
(* the one command whose failure aborts the host: see HostCrash.           *)
(***************************************************************************)
Fails(c) ==
    /\ todo' = IF c.must THEN Unwind(Tail(todo)) ELSE Tail(todo)
    /\ ok' = (ok /\ ~c.must)

CommandRefused ==
    /\ Running("adb")
    /\ ~(Head(todo).need \subseteq device)
    /\ Fails(Head(todo))
    /\ UNCHANGED <<device, dev, app, faults, history>>

CommandLost ==
    /\ Running("adb")
    /\ Head(todo).fn \notin {"lsof", "forward"}
    /\ Head(todo).need \subseteq device
    /\ faults < MaxFaults
    /\ faults' = faults + 1
    /\ \E executed \in BOOLEAN :
          /\ device' = IF executed THEN DeviceAfter(Head(todo)) ELSE device
          /\ history' = [history EXCEPT !.faulty = TRUE,
                             !.misled = @ \/ device' # device
                                          \/ Head(todo).del \cap device # {}]
    /\ Fails(Head(todo))
    /\ UNCHANGED <<dev, app>>
============================================================================
