---------------------------- MODULE ReplaySession ----------------------------
(***************************************************************************)
(* A replay debugger session: the evaluator runs the update and emits one  *)
(* trace step per expression entered or left, definition called or         *)
(* returned from, and ledger effect; the session loader rebuilds a stack   *)
(* of frames from those steps alone and keeps the navigable ones; the      *)
(* session store then moves a cursor over what was kept.                   *)
(*                                                                         *)
(* The loader folds the trace once the evaluation has ended.  The fold     *)
(* looks at one step at a time, so it is done here as each step is         *)
(* emitted.  Expressions are reduced to what decides the steps they emit.  *)
(* The evaluator's own recursion is the variable open, the loader never    *)
(* sees it: the activations of a frame (the entrypoint, a call, an         *)
(* exercised choice or an applied closure) that are under way, each with   *)
(* the expressions being evaluated in it.                                  *)
(***************************************************************************)
EXTENDS Integers, Sequences, SequencesExt

CONSTANTS
  SourceMappers,  (* whether the loader may have a source mapper           *)
  MaxFrames,      (* bound: frames of one evaluation                       *)
  MaxSteps        (* bound: steps of one trace, with a mapper and without  *)

ASSUME SessionAssumption ==
  /\ SourceMappers \in (SUBSET BOOLEAN) \ {{}}
  /\ MaxFrames \in Nat \ {0}
  /\ MaxSteps \in [BOOLEAN -> Nat \ {0}]

Frames == 1..MaxFrames
Activations == {"entry", "call", "choice", "apply"}

VARIABLES
  phase,          (* evaluating, failed, loaded or disposed                *)
  sourceMapped,   (* whether the loader has a source mapper                *)
  open,           (* the evaluator's recursion: activations, outermost     *)
                  (* first                                                 *)
  frames,         (* frames created so far                                 *)
  owner,          (* the entrypoint's or choice's frame each frame is for  *)
  captured,       (* frames that have evaluated an expression: a closure   *)
                  (* made there may be applied from now on                 *)
  last,           (* kind of the last step                                 *)
  emitted,        (* steps emitted so far, retained or not                 *)
  ordinal,        (* effects emitted so far                                *)
  activeFrames,   (* the loader's stack                                    *)
  frameExpressionDepth,
  frameCallDepth,
  steps,          (* the retained steps                                    *)
  currentStepIndex,
  plain           (* history: no frame re-entered above itself, no throw   *)

evalVars == <<open, frames, owner, captured, plain>>
foldVars == <<last, emitted, ordinal, activeFrames, frameExpressionDepth,
              frameCallDepth, steps>>
sessionVars == <<evalVars, foldVars, phase, sourceMapped, currentStepIndex>>

SessionInit ==
  /\ phase = "evaluating"
  /\ sourceMapped \in SourceMappers
  /\ open = <<[kind |-> "entry", frame |-> 1, id |-> 0, exprs |-> <<>>]>>
  /\ frames = 1
  /\ owner = [f \in Frames |-> 1]
  /\ captured = {}
  /\ last = "none"
  /\ emitted = 0
  /\ ordinal = 0
  /\ activeFrames = <<>>
  /\ frameExpressionDepth = [f \in Frames |-> 0]
  /\ frameCallDepth = [f \in Frames |-> 0]
  /\ steps = <<>>
  /\ currentStepIndex = 1
  /\ plain = TRUE

-----------------------------------------------------------------------------
(* The loader: one step of projectRawReplaySteps and the filter after it.  *)

\* An active frame becomes the top again, whatever was above it.
pushFrameIfMissing(stack, f) ==
  IF Contains(stack, f)
    THEN SubSeq(stack, 1, CHOOSE i \in DOMAIN stack : stack[i] = f)
    ELSE Append(stack, f)

popFrameIfTop(stack, f) ==
  IF stack # <<>> /\ Last(stack) = f THEN Front(stack) ELSE stack

\* Slip: the frame's expressions that are still open are not counted.
ExitPopsEarly(stack, f) ==
  IF frameCallDepth[f] = 0 THEN popFrameIfTop(stack, f) ELSE stack

\* An expression of the frame was left.
ExitPops(stack, f) ==
  IF frameExpressionDepth[f] <= 1 /\ frameCallDepth[f] = 0
    THEN popFrameIfTop(stack, f) ELSE stack

\* Without a source mapper everything is kept; with one, every effect, and
\* of the rest what the source locations and the locals decide.
Retains(kind) ==
  IF sourceMapped /\ kind # "effect" THEN BOOLEAN ELSE {TRUE}

\* Bound: room is kept for the steps that end what is under way.
EndingSteps(activation) ==
  Len(activation.exprs) + (IF activation.kind = "call" THEN 1 ELSE 0)
Room(recursion) ==
  emitted + 1 + FoldLeft(LAMBDA n, activation : n + EndingSteps(activation), 0, recursion)
    <= MaxSteps[sourceMapped]

\* The activations of a recursion, without what each is evaluating.
ActivationsOf(recursion) ==
  [i \in DOMAIN recursion |-> [frame |-> recursion[i].frame, id |-> recursion[i].id]]

\* A step of kind in frame f, emitted while control was at the recursion now.
Emit(kind, f, now) ==
  LET stack == pushFrameIfMissing(activeFrames, f)
  IN
  /\ kind \in {"exit", "return"} \/ Room(now)
  /\ emitted' = emitted + 1
  /\ last' = kind
  /\ ordinal' = IF kind = "effect" THEN ordinal + 1 ELSE ordinal
  /\ \E keep \in Retains(kind) :
       steps' = IF keep
                  THEN Append(steps, [phase |-> kind, stackFrames |-> stack,
                                      control |-> ActivationsOf(now), eventOrdinal |-> ordinal'])
                  ELSE steps
  /\ activeFrames' = CASE kind = "exit" -> ExitPops(stack, f)
                       [] kind = "return" -> popFrameIfTop(stack, f)
                       [] OTHER -> stack
  /\ frameExpressionDepth' =
       CASE kind = "enter" -> [frameExpressionDepth EXCEPT ![f] = @ + 1]
         [] kind = "exit" -> [frameExpressionDepth EXCEPT ![f] = IF @ = 0 THEN 0 ELSE @ - 1]
         [] OTHER -> frameExpressionDepth
  /\ frameCallDepth' =
       CASE kind = "call" -> [frameCallDepth EXCEPT ![f] = @ + 1]
         [] kind = "return" -> [frameCallDepth EXCEPT ![f] = IF @ = 0 THEN 0 ELSE @ - 1]
         [] OTHER -> frameCallDepth

-----------------------------------------------------------------------------
(* The evaluator.                                                          *)

Top == Last(open)
Inner == Last(Top.exprs)
Evaluating == phase = "evaluating" /\ open # <<>>
InExpression == Evaluating /\ Top.exprs # <<>>
OpenFrames == {open[i].frame : i \in DOMAIN open}
Activation(kind, f) == [kind |-> kind, frame |-> f, id |-> emitted + 1, exprs |-> <<>>]

\* The recursion with other expressions under way in its innermost activation.
Inside(exprs) == [open EXCEPT ![Len(open)].exprs = exprs]
InnerAs(kind) == [Top.exprs EXCEPT ![Len(Top.exprs)].kind = kind]

\* The entrypoint's own effect, before its expression.
EntryEffect ==
  /\ Evaluating /\ Top.kind = "entry" /\ last = "none"
  /\ Emit("effect", Top.frame, open)
  /\ UNCHANGED <<evalVars, phase, sourceMapped, currentStepIndex>>

\* The body of an activation, a subexpression, the body of a closure of the
\* same frame, or the handler of a try.
Enter ==
  /\ Evaluating
  /\ \/ Top.exprs = <<>> /\ (Top.kind = "apply" \/ last \in {"none", "call", "effect"})
     \/ Top.exprs # <<>> /\ Inner.kind \in {"open", "caught"}
  /\ LET outer == IF Top.exprs # <<>> /\ Inner.kind = "caught" THEN InnerAs("done") ELSE Top.exprs
     IN  open' = Inside(Append(outer, [kind |-> "open", id |-> emitted + 1]))
  /\ Emit("enter", Top.frame, open')
  /\ UNCHANGED <<frames, owner, captured, plain, phase, sourceMapped, currentStepIndex>>

\* The expression has its value; the activation it was the body of, unless
\* it is a call, ends with it.
Exit ==
  /\ InExpression
  /\ Inner.kind # "caught"
  /\ Emit("exit", Top.frame, open)
  /\ open' = IF Len(Top.exprs) = 1 /\ Top.kind # "call"
               THEN Front(open) ELSE Inside(Front(Top.exprs))
  /\ captured' = captured \cup {Top.frame}
  /\ UNCHANGED <<frames, owner, plain, phase, sourceMapped, currentStepIndex>>

\* A reference to a definition evaluates it in a frame of its own.
Call ==
  /\ InExpression /\ Inner.kind = "open" /\ last = "enter"
  /\ frames < MaxFrames
  /\ frames' = frames + 1
  /\ owner' = [owner EXCEPT ![frames'] = owner[Top.frame]]
  /\ open' = Append(Inside(InnerAs("done")), Activation("call", frames'))
  /\ Emit("call", frames', open')
  /\ UNCHANGED <<captured, plain, phase, sourceMapped, currentStepIndex>>

Return ==
  /\ Evaluating /\ Top.kind = "call" /\ Top.exprs = <<>> /\ last = "exit"
  /\ Emit("return", Top.frame, open)
  /\ open' = Front(open)
  /\ UNCHANGED <<frames, owner, captured, plain, phase, sourceMapped, currentStepIndex>>

\* A create, a fetch or an exercise, once its arguments are evaluated; an
\* exercise goes on with the choice's body in a frame of its own.
Effect ==
  /\ InExpression /\ Inner.kind = "open" /\ last = "exit"
  /\ Emit("effect", Top.frame, open)
  /\ \/ open' = Inside(InnerAs("done")) /\ UNCHANGED <<frames, owner>>
     \/ /\ frames < MaxFrames
        /\ frames' = frames + 1
        /\ owner' = [owner EXCEPT ![frames'] = frames']
        /\ open' = Append(Inside(InnerAs("done")), Activation("choice", frames'))
  /\ UNCHANGED <<captured, plain, phase, sourceMapped, currentStepIndex>>

\* An application runs the closure's body in the frame that made the closure,
\* after the last argument, or after the body of the closure it got it from.
\* A choice takes and returns ledger values, never closures.  Nothing is
\* emitted until the body is entered.
Apply(f) ==
  /\ InExpression /\ Inner.kind = "open" /\ last = "exit"
  /\ f \in captured \ {Top.frame} /\ owner[f] = owner[Top.frame]
  /\ open' = Append(open, Activation("apply", f))
  /\ plain' = (plain /\ f \notin OpenFrames)
  /\ UNCHANGED <<frames, owner, captured, foldVars, phase, sourceMapped, currentStepIndex>>

\* A thrown Daml exception unwinds to a try expression that is evaluating
\* what it guards: its first subexpression, entered right after itself.
\* Nothing is emitted on the way; the handler is evaluated next.
Throw ==
  /\ InExpression
  /\ \E i \in DOMAIN open : \E j \in 1..(Len(open[i].exprs) - 1) :
       LET exprs == open[i].exprs
       IN  /\ exprs[j].kind = "open" /\ exprs[j + 1].id = exprs[j].id + 1
           /\ open' = [SubSeq(open, 1, i) EXCEPT
                         ![i].exprs = [SubSeq(exprs, 1, j) EXCEPT ![j].kind = "caught"]]
  /\ plain' = FALSE
  /\ UNCHANGED <<frames, owner, captured, foldVars, phase, sourceMapped, currentStepIndex>>

\* An exception nothing catches, or a construct the evaluator refuses: the
\* session is not created.
Fail ==
  /\ Evaluating
  /\ phase' = "failed"
  /\ UNCHANGED <<evalVars, foldVars, sourceMapped, currentStepIndex>>

\* The evaluation has ended.  The update shows at least the event its
\* entrypoint came from, so the effects can only match it if there are any.
Load ==
  /\ phase = "evaluating" /\ open = <<>>
  /\ phase' \in IF ordinal = 0 THEN {"failed"} ELSE {"failed", "loaded"}
  /\ UNCHANGED <<evalVars, foldVars, sourceMapped, currentStepIndex>>

-----------------------------------------------------------------------------
(* The session store.                                                      *)

MoveTo(i) ==
  /\ phase = "loaded"
  /\ currentStepIndex' = i
  /\ UNCHANGED <<evalVars, foldVars, phase, sourceMapped>>

Current == steps[currentStepIndex]

\* Slip: the search also stops at the depth it started from.
NoDeeper(i) == Len(steps[i].stackFrames) <= Len(Current.stackFrames)

Shallower(i) == Len(steps[i].stackFrames) < Len(Current.stackFrames)

\* The next shallower step, or the last step.
findNextIndexOrCurrent ==
  LET found == {i \in (currentStepIndex + 1)..Len(steps) : Shallower(i)}
  IN  IF found = {} THEN Len(steps) ELSE CHOOSE i \in found : \A j \in found : i <= j

IntoIndex ==
  IF currentStepIndex < Len(steps) THEN currentStepIndex + 1 ELSE Len(steps)

StepInto == MoveTo(IntoIndex)
StepBack == MoveTo(IF currentStepIndex > 1 THEN currentStepIndex - 1 ELSE 1)
StepOver ==
  MoveTo(IF Current.phase # "call" THEN IntoIndex ELSE findNextIndexOrCurrent)
StepOut == MoveTo(findNextIndexOrCurrent)
Continue == MoveTo(Len(steps))
JumpToStep == \E i \in DOMAIN steps : MoveTo(i)

Dispose ==
  /\ phase = "loaded"
  /\ phase' = "disposed"
  /\ UNCHANGED <<evalVars, foldVars, sourceMapped, currentStepIndex>>

SessionNext ==
  \/ EntryEffect \/ Enter \/ Exit \/ Call \/ Return \/ Effect
  \/ \E f \in Frames : Apply(f)
  \/ Throw \/ Fail \/ Load
  \/ StepInto \/ StepBack \/ StepOver \/ StepOut \/ Continue \/ JumpToStep
  \/ Dispose

SessionSpec == SessionInit /\ [][SessionNext]_sessionVars

-----------------------------------------------------------------------------

FramesOf(control) == [i \in DOMAIN control |-> control[i].frame]

\* The stack shown with a step is the evaluator's own: one frame for each
\* activation under way, outermost first, although the loader only ever sees
\* the frame of each step and applied closures and exercised choices have no
\* call and return steps.  As long as no closure is applied above its own
\* frame and no exception has been caught.
StackIsControl ==
  plain => \A i \in DOMAIN steps : steps[i].stackFrames = FramesOf(steps[i].control)

ActivationAt(i) == Last(steps[i].control)
UnderWay(a, i) == Contains(steps[i].control, a)
Callers(i) == Front(steps[i].control)

\* From step i to step j: the activation of step i has ended at j, or j is
\* the last step, and no step that was passed over runs in a caller of it.
ReturnsToCaller(i, j) ==
  /\ ~UnderWay(ActivationAt(i), j) \/ j = Len(steps)
  /\ \A k \in (i + 1)..(j - 1) : ~Contains(Callers(i), ActivationAt(k))

\* Stepping out of a frame, or over a call, neither stops inside what it
\* leaves nor runs past the first step of a caller that is shown.
SkipsExactlyTheCallee ==
  [][plain /\ (StepOut \/ (StepOver /\ Current.phase = "call"))
       => ReturnsToCaller(currentStepIndex, currentStepIndex')]_sessionVars
=============================================================================
