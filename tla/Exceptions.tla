----------------------------- MODULE Exceptions -----------------------------
(***************************************************************************)
(* The exceptions of util.h and util.c: a stack of frames, each with       *)
(* catchers (ON_ERROR) and finalizers (FINALLY), and the unwinding of the  *)
(* top frame.  A handler may use TRY blocks of its own.  A handler that    *)
(* raises an exception jumps back to the setjmp of the frame that is being *)
(* unwound, which is unwound anew with the handlers that are left: the     *)
(* local captured of exception_unwind starts again at 0 (util.c:19), so an *)
(* exception that a handler raises is handled by the catchers that are     *)
(* left or else goes on outside, also when catchers of this frame have run *)
(* before.                                                                 *)
(***************************************************************************)
EXTENDS Integers, Sequences, FiniteSets

CONSTANTS
  MaxFrames,     \* depth of nested TRY blocks
  MaxHandlers    \* catchers, and finalizers, of a frame

ASSUME ExceptionAssumption == MaxFrames \in Nat /\ MaxHandlers \in Nat

VARIABLES
  context,       \* the frames, the innermost last
  owed,          \* finalizers that are registered and have not run
  unsettled      \* exceptions that nobody has handled yet (history variable)

exceptionVars == <<context, owed, unsettled>>

(* Where the block of a frame is; the handlers it has left; errcode and    *)
(* captured of the exception_unwind that works on it; and whether an       *)
(* exception has come to it since its last catcher was called (history).   *)
Frame ==
  [at : {"body", "unwind", "catcher", "finalizer"}, catchers : 0 .. MaxHandlers, finalizers : 0 .. MaxHandlers,
   errcode : {0, 1}, captured : BOOLEAN, raised : BOOLEAN]

ExceptionTypeOK ==
  /\ Len(context) <= MaxFrames
  /\ \A k \in 1 .. Len(context) : context[k] \in Frame
  /\ owed \in 0 .. MaxFrames * MaxHandlers /\ unsettled \in 0 .. MaxFrames

ExceptionInit == context = <<>> /\ owed = 0 /\ unsettled = 0

(* Mutants: the catchers stay at the regular end of a block; finalizers    *)
(* are left out; a handled exception goes on outside.                      *)
KeepCatchers(f)      == f
SkipFinalizers(f)    == f.catchers = 0
RethrowAll(f)        == f.errcode = 1

Depth == Len(context)
Top   == context[Depth]

(* The program runs in frame f: in its body or in one of its handlers.     *)
Running(f) == f.at # "unwind"

(* The top frame becomes f.                                                *)
SetTop(f) == context' = [context EXCEPT ![Depth] = f]

-----------------------------------------------------------------------------
NewFrame ==
  [at |-> "body", catchers |-> 0, finalizers |-> 0, errcode |-> 0, captured |-> FALSE, raised |-> FALSE]

TRY_WITH ==
  /\ Depth > 0 => Running(Top)
  /\ Depth < MaxFrames
  /\ context' = Append(context, NewFrame)
  /\ UNCHANGED <<owed, unsettled>>

ON_ERROR ==
  /\ Depth > 0 /\ Top.at = "body" /\ Top.catchers < MaxHandlers
  /\ SetTop([Top EXCEPT !.catchers = @ + 1])
  /\ UNCHANGED <<owed, unsettled>>

FINALLY ==
  /\ Depth > 0 /\ Top.at = "body" /\ Top.finalizers < MaxHandlers
  /\ SetTop([Top EXCEPT !.finalizers = @ + 1])
  /\ owed' = owed + 1
  /\ UNCHANGED unsettled

(* An exception comes to frame f: longjmp to its setjmp, and __exc_try     *)
(* calls exception_unwind with errcode 1.                                  *)
Raised(f) == [f EXCEPT !.at = "unwind", !.errcode = 1, !.captured = FALSE, !.raised = TRUE]

(* raise_exception, in a body or in a handler.  It takes the place of an   *)
(* exception that is still pending in the frame.                           *)
raise_exception ==
  /\ Depth > 0 /\ Running(Top)
  /\ SetTop(Raised(Top))
  /\ unsettled' = IF Top.raised THEN unsettled ELSE unsettled + 1
  /\ UNCHANGED owed

(* The end of the block: __exc_exit_try drops the catchers, and calls      *)
(* exception_unwind with errcode 0.                                        *)
WithoutCatchers(f) == [f EXCEPT !.catchers = 0]

exc_exit_try ==
  /\ Depth > 0 /\ Top.at = "body"
  /\ SetTop([WithoutCatchers(Top) EXCEPT !.at = "unwind"])
  /\ UNCHANGED <<owed, unsettled>>

(* The next catcher is popped and called.                                  *)
RunCatcher ==
  /\ Depth > 0 /\ Top.at = "unwind" /\ Top.catchers > 0
  /\ SetTop([Top EXCEPT !.at = "catcher", !.catchers = @ - 1, !.captured = TRUE, !.raised = FALSE])
  /\ unsettled' = IF Top.raised THEN unsettled - 1 ELSE unsettled
  /\ UNCHANGED owed

(* The next finalizer, when no catcher is left.                            *)
RunFinalizer ==
  /\ Depth > 0 /\ Top.at = "unwind" /\ Top.catchers = 0 /\ Top.finalizers > 0
  /\ SetTop([Top EXCEPT !.at = "finalizer", !.finalizers = @ - 1])
  /\ owed' = owed - 1
  /\ UNCHANGED unsettled

HandlerReturns ==
  /\ Depth > 0 /\ Top.at \in {"catcher", "finalizer"}
  /\ SetTop([Top EXCEPT !.at = "unwind"])
  /\ UNCHANGED <<owed, unsettled>>

HandlersDone(f) == f.catchers = 0 /\ f.finalizers = 0
Propagates(f)   == f.errcode = 1 /\ ~ f.captured

(* The frame is popped, and raise_exception is called for an exception     *)
(* that was not captured: it comes to the frame outside, which is in its   *)
(* body or in a handler, or is dropped when there is none, since           *)
(* raise_exception just returns when the context is empty.                 *)
PopFrame ==
  LET rest == SubSeq(context, 1, Depth - 1)
  IN  /\ Depth > 0 /\ Top.at = "unwind" /\ HandlersDone(Top)
      /\ context' = IF Propagates(Top) /\ Depth > 1 THEN [rest EXCEPT ![Depth - 1] = Raised(@)] ELSE rest
      /\ unsettled' = IF Top.raised /\ (Depth > 1 => context[Depth - 1].raised) THEN unsettled - 1 ELSE unsettled
      /\ UNCHANGED owed

exception_unwind == RunCatcher \/ RunFinalizer \/ HandlerReturns \/ PopFrame

ExceptionNext ==
  TRY_WITH \/ ON_ERROR \/ FINALLY \/ raise_exception \/ exc_exit_try \/ exception_unwind

-----------------------------------------------------------------------------
(* The frames that an exception has come to which no catcher has handled.  *)
Unhandled == {k \in 1 .. Depth : context[k].raised}

(* However handlers raise exceptions, and use TRY blocks, while others are *)
(* still to run: every exception is either handled by a catcher called     *)
(* after it was raised, or it is pending in a frame that is being unwound, *)
(* and none is in a frame whose body runs; it is lost only when another    *)
(* takes its place in a frame, or with the outermost frame.  The variable  *)
(* captured tells the two cases apart at every point of the unwinding.     *)
(* And once the outermost block is left every finalizer that was           *)
(* registered has run.                                                     *)
ExceptionInvariant ==
  /\ ExceptionTypeOK
  /\ unsettled = Cardinality(Unhandled)
  /\ \A k \in 1 .. Depth :
       LET f == context[k]
       IN  /\ f.at = "unwind" => k = Depth
           /\ IF f.at = "body" THEN ~ f.raised ELSE f.captured = (f.errcode = 1 /\ ~ f.raised)
  /\ Depth = 0 => owed = 0
=============================================================================
