----------------------------- MODULE Exceptions -----------------------------
(***************************************************************************)
(* Exceptions in one thread (exception.h, exception.cpp, debug.h,          *)
(* debug.cpp): the callbacks on the stack, which hear of an exception      *)
(* before anything is unwound, runCatchingExceptions(), and destructors    *)
(* that ask an UnwindDetector why they are called.                         *)
(*                                                                         *)
(* The stack is a sequence of frames.  Several exceptions are in flight at *)
(* once when a destructor that is called by unwinding runs code that       *)
(* throws; such an exception must not leave the destructor.                *)
(***************************************************************************)
EXTENDS Integers, SequencesExt

CONSTANTS
    MaxDepth,        \* bound: frames
    MaxFaults        \* bound: exceptions raised

VARIABLES
    stack,           \* the frames, innermost last
    callback,        \* threadLocalCallback: the index of a frame, 0 for the root
    uncaught,        \* the exceptions in flight, newest last
    unwinding,       \* the newest of them is unwinding the stack
    dead,            \* what ended the program: "no", or the kind of an exception
    told,            \* history: the context wrapped around the last exception, and
                     \* the frames it should name
    faults,          \* exceptions raised so far
    misjudged        \* history: an UnwindDetector was wrong

exceptions == << stack, callback, uncaught, unwinding, dead, told, faults, misjudged >>

\* What code may put on the stack: KJ_CONTEXT, a callback that lets recoverable
\* exceptions go by, runCatchingExceptions, KJ_ON_SCOPE_FAILURE, and an object whose
\* destructor uses catchExceptionsIfUnwinding.  A frame "destructor" is the code of
\* one of the last two.
Kinds == {"context", "tolerant", "catch", "scope", "guarded"}
IsCallback(frame) == frame.kind \in {"context", "tolerant"}

Running == ~unwinding /\ dead = "no"
Top == stack[Len(stack)]

\* next: ExceptionCallback::next; count: UnwindDetector::uncaughtCount; unwound: a
\* destructor that unwinding has called, secondary: whose exceptions are dropped.
Frame(kind) ==
    [kind |-> kind, next |-> callback, count |-> Len(uncaught), unwound |-> unwinding,
     secondary |-> FALSE]

\* A constructor of one of these runs.
Enter(kind) ==
    /\ Running /\ Len(stack) < MaxDepth
    /\ stack' = Append(stack, Frame(kind))
    /\ callback' = IF IsCallback(Frame(kind)) THEN Len(stack) + 1 ELSE callback
    /\ UNCHANGED << uncaught, unwinding, dead, told, faults, misjudged >>

IsUnwinding(frame) == Len(uncaught) > frame.count

\* Mutant of Popped: the destructor of a callback leaves threadLocalCallback alone.
PoppedOnly == stack' = Front(stack) /\ UNCHANGED callback

\* The top frame is gone; ~ExceptionCallback makes the next callback current.
Popped ==
    /\ stack' = Front(stack)
    /\ callback' = IF IsCallback(Top) THEN Top.next ELSE callback

\* The code of a destructor takes the place of its object.
RunDestructor(secondary) ==
    /\ stack' = Append(Front(stack), [Frame("destructor") EXCEPT !.secondary = secondary])
    /\ unwinding' = FALSE
    /\ UNCHANGED callback

\* A scope is left normally, the outermost runCatchingExceptions() excepted.
Leave ==
    /\ Running /\ Len(stack) > 1
    /\ IF Top.kind = "guarded" \/ (Top.kind = "scope" /\ IsUnwinding(Top))
       THEN RunDestructor(FALSE)
       ELSE Popped /\ unwinding' = Top.unwound
    /\ misjudged' = (misjudged \/ (Top.kind \in {"scope", "guarded"} /\ IsUnwinding(Top)))
    /\ UNCHANGED << uncaught, dead, told, faults >>

-----------------------------------------------------------------------------
(* throwFatalException() and throwRecoverableException(), which the macros *)
(* of debug.h call through ~Fault() and Fault::fatal().                    *)

\* What becomes of an exception that frame i hears of, by way of the next of each: the
\* contexts around it, outermost first, since each Debug::Context wraps the exception
\* before it passes it on; and whether a callback lets it go by before the root hears.
Told(kind) ==
    LET from[i \in 0 .. Len(stack)] ==
            IF i = 0
            THEN [wrapped |-> << >>, tolerated |-> FALSE]
            ELSE IF stack[i].kind = "tolerant" /\ kind = "recoverable"
            THEN [wrapped |-> << >>, tolerated |-> TRUE]
            ELSE IF stack[i].kind = "context"
            THEN [from[stack[i].next] EXCEPT !.wrapped = Append(@, i)]
            ELSE from[stack[i].next]
    IN  from[callback]

\* The frames whose context it should have: back to the first callback that lets the
\* exception go by.
ShouldWrap(kind) ==
    LET stop == {i \in DOMAIN stack : stack[i].kind = "tolerant" /\ kind = "recoverable"}
    IN  {i \in DOMAIN stack : stack[i].kind = "context" /\ \A j \in stop : j < i}

\* RootExceptionCallback: a recoverable exception is only logged while another one
\* is in flight.
RootThrows(kind) == kind = "fatal" \/ uncaught = << >>

Raise(kind) ==
    /\ Running /\ faults < MaxFaults
    /\ faults' = faults + 1
    /\ told' = [wrapped |-> Told(kind).wrapped, should |-> ShouldWrap(kind)]
    /\ IF ~Told(kind).tolerated /\ RootThrows(kind)
       THEN uncaught' = Append(uncaught, kind) /\ unwinding' = TRUE
       ELSE UNCHANGED << uncaught, unwinding >>
    /\ UNCHANGED << stack, callback, dead, misjudged >>

-----------------------------------------------------------------------------
(* Unwinding, one frame at a time.                                         *)

UnwindCallback ==
    /\ unwinding /\ dead = "no" /\ IsCallback(Top)
    /\ Popped
    /\ UNCHANGED << uncaught, unwinding, dead, told, faults, misjudged >>

\* runCatchingExceptions() returns the exception; the outermost one is called again.
Catch ==
    /\ unwinding /\ dead = "no" /\ Top.kind = "catch"
    /\ uncaught' = Front(uncaught)
    /\ unwinding' = FALSE
    /\ stack' = IF Len(stack) = 1 THEN stack ELSE Front(stack)
    /\ UNCHANGED << callback, dead, told, faults, misjudged >>

\* KJ_ON_SCOPE_FAILURE and catchExceptionsIfUnwinding run their code.
UnwindScope ==
    /\ unwinding /\ dead = "no" /\ Top.kind \in {"scope", "guarded"}
    /\ misjudged' = (misjudged \/ ~IsUnwinding(Top))
    /\ IF Top.kind = "guarded" \/ IsUnwinding(Top)
       THEN RunDestructor(Top.kind = "guarded" /\ IsUnwinding(Top))
       ELSE Popped /\ UNCHANGED unwinding
    /\ UNCHANGED << uncaught, dead, told, faults >>

\* An exception reaches the end of a destructor.  If it is that of another unwinding,
\* it is dropped as a secondary fault, or the program ends.
LeaveDestructor ==
    /\ unwinding /\ dead = "no" /\ Top.kind = "destructor"
    /\ IF Top.unwound /\ ~Top.secondary
       THEN dead' = uncaught[Len(uncaught)] /\ UNCHANGED << stack, callback, uncaught >>
       ELSE /\ Popped /\ UNCHANGED dead
            /\ uncaught' = IF Top.unwound THEN Front(uncaught) ELSE uncaught
    /\ UNCHANGED << unwinding, told, faults, misjudged >>

-----------------------------------------------------------------------------
Init ==
    /\ stack = << [kind |-> "catch", next |-> 0, count |-> 0, unwound |-> FALSE,
                   secondary |-> FALSE] >>
    /\ callback = 0 /\ uncaught = << >> /\ unwinding = FALSE /\ dead = "no"
    /\ told = [wrapped |-> << >>, should |-> {}]
    /\ faults = 0 /\ misjudged = FALSE

Next ==
    \/ \E kind \in Kinds : Enter(kind)
    \/ Leave
    \/ \E kind \in {"fatal", "recoverable"} : Raise(kind)
    \/ UnwindCallback \/ Catch \/ UnwindScope \/ LeaveDestructor

Spec == Init /\ [][Next]_exceptions

-----------------------------------------------------------------------------
\* exception.h:109-112, 141-145: whether scopes are left normally, by an exception or
\* by one inside the destructors that another one calls, the current callback is the
\* newest on the stack, and an exception is told to it and from there outwards, each
\* context around those inside it.
CallbacksFollowTheStack ==
    /\ LET all == {i \in DOMAIN stack : IsCallback(stack[i])}
       IN  /\ \A i \in all : i <= callback
           /\ callback # 0 => callback \in all
           /\ \A i \in all : /\ stack[i].next < i
                             /\ \A j \in all : j < i => j <= stack[i].next
    /\ ToSet(told.wrapped) = told.should
    /\ \A i, j \in DOMAIN told.wrapped : i < j => told.wrapped[i] < told.wrapped[j]

\* exception.h:209-217, exception.cpp:297-303: a destructor knows whether it is
\* called by an exception of its own scope, also if it is itself part of another
\* unwinding; and no recoverable exception, only a fatal one, ever ends the program
\* by leaving a destructor.
DestructorsSurvive ==
    /\ ~misjudged
    /\ dead # "recoverable"
=============================================================================
