-------------------------- MODULE CallbacksProofs --------------------------
(***************************************************************************)
(* That a call reports the error that made it fail, for any number of      *)
(* goroutines and threads and any nesting.  The invariant says what makes  *)
(* it so: a goroutine with a call open has its thread to itself, only the  *)
(* innermost call is not waiting in a callback, a callback's variable is   *)
(* that of a call that looks at it, and once the C function has failed     *)
(* either the variable or the thread holds the failure.                    *)
(***************************************************************************)
EXTENDS Callbacks, TLAPS

\* Threads are not shared, and are kept while a call is open.
Threading ==
  /\ \A g1, g2 \in Goroutines :
       g1 # g2 /\ thread[g1] # None => thread[g1] # thread[g2]
  /\ \A g \in Goroutines : Pinned(g) => thread[g] # None

\* Nothing has been decided about a call that is not back from C.
Undecided(f) == f.ret = "OK" /\ f.cause = None /\ f.by = "none"

\* A call of these patterns looks at its variable err.
HasVariable(f) == f.shape \in {"direct", "message"}

Nesting == \A g \in Goroutines : \A d \in 1..depth[g] :
  LET f == frame[g][d]
  IN  /\ f.call # 0
      /\ d < depth[g] => f.pc = "callback"
      /\ ~HasVariable(f) => f.err = None
      /\ f.pc # "back" => Undecided(f)
      /\ f.variable # 0 => f.variable \in 1..d /\ HasVariable(frame[g][f.variable])
      /\ f.shape = "message" => f.variable = d

\* MakeGitError is asked, and not the variable.
Asks(f) == ~(f.ret = "User" /\ f.err # None)

\* What a call that is back from C, with the given text for its thread's error,
\* has in its hands is the failure.
Told(f, text) ==
  /\ f.ret = "OK" <=> f.cause = None
  /\ f.ret = "OK" => f.by = "none"
  /\ f.ret # "OK" /\ Asks(f) => f.ret = CodeOf(f.cause)
  /\ f.ret \notin {"OK", "IterOver"} /\ Asks(f) /\ f.by # "code" => text = f.cause.text
  /\ ~Asks(f) /\ f.by = "subtransport" => CodeOf(f.cause) = "User"
  /\ ~Asks(f) /\ f.by # "subtransport" => f.err = f.cause
  /\ f.shape = "direct" /\ f.ret # "OK" /\ Asks(f) =>
       f.by = "C" /\ f.ret = "Code" /\ IsGitError(f.cause)
  /\ f.shape = "direct" => f.by # "subtransport"
  /\ f.shape = "message" /\ f.by = "callback" /\ ~IsGitError(f.cause) => ~Asks(f)

Failures == \A g \in Goroutines :
  At(g, "back") => Told(Top(g), lastError[thread[g]])

IInv == TypeOK /\ Threading /\ Nesting /\ Failures

-----------------------------------------------------------------------------
\* Nothing is open at the start.
LEMMA InitIInv == Init => IInv
<1> SUFFICES ASSUME Init PROVE IInv
  OBVIOUS
<1>1. NoFrame \in Frames
  BY BoundAssumption DEF NoFrame, NewFrame, Frames, Shapes, Failers
<1>2. TypeOK
  BY <1>1, BoundAssumption DEF Init, TypeOK
<1>3. \A g \in Goroutines : depth[g] = 0 /\ thread[g] = None
  BY DEF Init
<1> QED BY <1>2, <1>3 DEF IInv, Threading, Nesting, Failures, Pinned, At

\* The innermost frame of a goroutine with a call open, and its thread.
LEMMA TopFrame ==
  ASSUME IInv, NEW g \in Goroutines, depth[g] > 0
  PROVE  /\ depth[g] \in Depths /\ depth[g] \in 1..depth[g]
         /\ Top(g) \in Frames /\ Top(g) = frame[g][depth[g]]
         /\ frame[g] \in [Depths -> Frames]
         /\ thread[g] \in Threads
         /\ \A k \in Goroutines \ {g} : thread[k] # thread[g]
<1>1. depth[g] \in Depths /\ depth[g] \in 1..depth[g]
  BY BoundAssumption DEF IInv, TypeOK, Depths
<1>2. frame[g] \in [Depths -> Frames]
  BY DEF IInv, TypeOK
<1>3. thread[g] # None
  BY DEF IInv, Threading, Pinned
<1>4. thread[g] \in Threads /\ \A k \in Goroutines \ {g} : thread[k] # thread[g]
  BY <1>3 DEF IInv, TypeOK, Threading
<1> QED BY <1>1, <1>2, <1>4 DEF Top

\* A failure of the innermost call is a new event.
LEMMA NewEventType ==
  ASSUME IInv, NEW g \in Goroutines, depth[g] > 0, MayFail(g)
  PROVE  /\ NewEvent(g) \in Events
         /\ Top(g).failures + 1 \in 0..MaxFailures
<1>1. Top(g) \in Frames /\ depth[g] \in 1..depth[g] /\ Top(g) = frame[g][depth[g]]
  BY TopFrame
<1>2. Top(g).call # 0
  BY <1>1 DEF IInv, Nesting
<1>3. Top(g).call \in 1..MaxCalls /\ Top(g).failures + 1 \in 1..MaxFailures
  BY <1>1, <1>2, BoundAssumption DEF Frames, MayFail
<1> QED BY <1>3, BoundAssumption DEF NewEvent, Events

\* A step of the innermost call of g, which may change the thread's error and
\* the variables of the calls around it.
LEMMA StepIInv ==
  ASSUME IInv, NEW g \in Goroutines, depth[g] > 0,
         NEW fs \in [Depths -> Frames], frame' = [frame EXCEPT ![g] = fs],
         depth' = depth, thread' = thread, calls' = calls,
         got' \in [Goroutines -> Errors \cup {None}],
         lastError' \in [Threads -> Events \cup {None}],
         \A t \in Threads \ {thread[g]} : lastError'[t] = lastError[t],
         \A d \in 1..depth[g] :
           /\ fs[d].call = frame[g][d].call
           /\ fs[d].shape = frame[g][d].shape
           /\ fs[d].variable = frame[g][d].variable
           /\ d < depth[g] => fs[d].pc = "callback"
           /\ ~HasVariable(fs[d]) => fs[d].err = None
           /\ fs[d].pc # "back" => Undecided(fs[d]),
         fs[depth[g]].pc = "back" => Told(fs[depth[g]], lastError'[thread[g]])
  PROVE  IInv'
<1>1. frame'[g] = fs /\ \A k \in Goroutines \ {g} : frame'[k] = frame[k]
  BY DEF IInv, TypeOK
<1>2. TypeOK'
  BY DEF IInv, TypeOK
<1>3. Threading'
  BY DEF IInv, Threading, Pinned
<1>4. Nesting'
  <2> SUFFICES ASSUME NEW k \in Goroutines, NEW d \in 1..depth[k]
               PROVE  LET f == frame'[k][d]
                      IN  /\ f.call # 0
                          /\ d < depth[k] => f.pc = "callback"
                          /\ ~HasVariable(f) => f.err = None
                          /\ f.pc # "back" => Undecided(f)
                          /\ f.variable # 0 => /\ f.variable \in 1..d
                                              /\ HasVariable(frame'[k][f.variable])
                          /\ f.shape = "message" => f.variable = d
    BY DEF Nesting, Undecided, HasVariable
  <2>1. CASE k # g
    BY <2>1, <1>1 DEF IInv, Nesting, HasVariable, Undecided
  <2>2. CASE k = g
    <3> DEFINE f == fs[d]
    <3>1. /\ f.call # 0
          /\ f.shape = "message" => f.variable = d
          /\ f.variable # 0 => f.variable \in 1..d /\ HasVariable(frame[g][f.variable])
      BY <2>2 DEF IInv, Nesting
    <3>2. ASSUME f.variable # 0
          PROVE  f.variable \in 1..d /\ HasVariable(fs[f.variable])
      <4>1. f.variable \in 1..d /\ f.variable \in 1..depth[g]
        BY <3>1, <3>2, <2>2, BoundAssumption DEF IInv, TypeOK
      <4>2. fs[f.variable].shape = frame[g][f.variable].shape
        BY <4>1
      <4> QED BY <4>1, <4>2, <3>1, <3>2 DEF HasVariable
    <3>3. frame'[k][d] = f
      BY <2>2, <1>1
    <3> QED BY <2>2, <1>1, <3>1, <3>2, <3>3
  <2> QED BY <2>1, <2>2
<1>5. Failures'
  <2> SUFFICES ASSUME NEW k \in Goroutines, At(k, "back")'
               PROVE  Told(Top(k)', lastError'[thread'[k]])
    BY DEF Failures, Told, Asks
  <2>1. CASE k # g
    <3>1. At(k, "back") /\ Top(k)' = Top(k) /\ thread'[k] = thread[k] /\ depth[k] > 0
      BY <2>1, <1>1 DEF At, Top
    <3>2. thread[k] \in Threads /\ thread[k] # thread[g]
      BY <2>1, <3>1, TopFrame
    <3>3. lastError'[thread[k]] = lastError[thread[k]]
      BY <3>2
    <3> QED BY <3>1, <3>3 DEF IInv, Failures
  <2>2. CASE k = g
    BY <2>2, <1>1 DEF At, Top
  <2> QED BY <2>1, <2>2
<1> QED BY <1>2, <1>3, <1>4, <1>5 DEF IInv

\* The same for a step that changes the innermost frame only.
LEMMA TopIInv ==
  ASSUME IInv, NEW g \in Goroutines, depth[g] > 0,
         NEW f \in Frames, SetTop(g, f),
         depth' = depth, thread' = thread, calls' = calls,
         got' \in [Goroutines -> Errors \cup {None}],
         lastError' \in [Threads -> Events \cup {None}],
         \A t \in Threads \ {thread[g]} : lastError'[t] = lastError[t],
         f.call = Top(g).call, f.shape = Top(g).shape, f.variable = Top(g).variable,
         ~HasVariable(f) => f.err = None,
         f.pc # "back" => Undecided(f),
         f.pc = "back" => Told(f, lastError'[thread[g]])
  PROVE  IInv'
<1> DEFINE fs == [frame[g] EXCEPT ![depth[g]] = f]
<1>1. /\ depth[g] \in Depths /\ frame[g] \in [Depths -> Frames]
      /\ Top(g) = frame[g][depth[g]]
  BY TopFrame
<1>2. fs \in [Depths -> Frames] /\ fs[depth[g]] = f
  BY <1>1
<1>3. frame' = [frame EXCEPT ![g] = fs]
  BY DEF SetTop, IInv, TypeOK
<1>4. ASSUME NEW d \in 1..depth[g]
      PROVE  /\ fs[d].call = frame[g][d].call
             /\ fs[d].shape = frame[g][d].shape
             /\ fs[d].variable = frame[g][d].variable
             /\ d < depth[g] => fs[d].pc = "callback"
             /\ ~HasVariable(fs[d]) => fs[d].err = None
             /\ fs[d].pc # "back" => Undecided(fs[d])
  <2>1. CASE d = depth[g]
    BY <2>1, <1>1, <1>2, BoundAssumption DEF Depths
  <2>2. CASE d # depth[g]
    <3>1. fs[d] = frame[g][d] /\ d < depth[g]
      BY <2>2, <1>1, BoundAssumption DEF Depths
    <3> QED BY <3>1 DEF IInv, Nesting
  <2> QED BY <2>1, <2>2
<1> HIDE DEF fs
<1> QED BY <1>2, <1>3, <1>4, StepIInv

\* What the frame of a call that gives up is.
LEMMA GivesUpFacts ==
  ASSUME NEW f \in Frames, NEW code \in Codes, NEW err \in Errors, NEW by \in Failers
  PROVE  LET n == GivesUp(f, code, err, by)
         IN  /\ n \in Frames
             /\ n.call = f.call /\ n.shape = f.shape /\ n.variable = f.variable
             /\ n.err = f.err /\ n.pc = "back"
             /\ n.ret = code /\ n.cause = err /\ n.by = by
             /\ n.ret # "OK" /\ n.cause # None
BY NoneAssumption DEF GivesUp, Frames, Codes

-----------------------------------------------------------------------------
\* The scheduler moves a goroutine.
LEMMA ScheduleIInv ==
  ASSUME IInv, NEW g \in Goroutines, NEW t \in Threads \cup {None}, Schedule(g, t)
  PROVE  IInv'
<1>1. TypeOK'
  BY DEF IInv, TypeOK, Schedule
<1>2. Threading'
  BY NoneAssumption DEF IInv, TypeOK, Schedule, Threading, Pinned
<1>3. Nesting'
  BY DEF IInv, Schedule, Nesting, Undecided, HasVariable
<1>4. Failures'
  <2> SUFFICES ASSUME NEW k \in Goroutines, At(k, "back")'
               PROVE  Told(Top(k)', lastError'[thread'[k]])
    BY DEF Failures, Told, Asks
  <2>1. At(k, "back") /\ Top(k)' = Top(k) /\ depth[k] > 0
    BY DEF Schedule, At, Top
  <2>2. k # g /\ thread'[k] = thread[k] /\ lastError' = lastError
    BY <2>1 DEF Schedule, Pinned, IInv, TypeOK
  <2> QED BY <2>1, <2>2 DEF IInv, Failures
<1> QED BY <1>1, <1>2, <1>3, <1>4 DEF IInv

\* A call is opened in user code, outside of all calls or in a callback.
LEMMA OpenIInv ==
  ASSUME IInv, NEW g \in Goroutines, NEW shape \in Shapes, NEW v \in 0..MaxDepth,
         Open(g, NewFrame(calls + 1, shape, v)),
         shape = "message" => v = depth[g] + 1,
         v # 0 => v \in 1..(depth[g] + 1),
         v = depth[g] + 1 => shape \in {"direct", "message"},
         v \in 1..depth[g] => frame[g][v].shape = "message"
  PROVE  IInv'
<1> DEFINE new == NewFrame(calls + 1, shape, v)
<1>1. /\ depth[g] \in 0..MaxDepth /\ depth[g] + 1 \in Depths /\ calls \in Nat
      /\ calls + 1 \in 0..MaxCalls /\ thread' = thread /\ lastError' = lastError
      /\ depth' = [depth EXCEPT ![g] = depth[g] + 1] /\ depth'[g] = depth[g] + 1
  BY BoundAssumption DEF IInv, TypeOK, Open, Depths
<1>2. /\ new \in Frames /\ new.call # 0 /\ new.shape = shape /\ new.variable = v
      /\ new.pc = "C" /\ new.err = None /\ Undecided(new)
  <2>1. v \in 0..MaxDepth /\ calls + 1 \in 0..MaxCalls /\ calls + 1 # 0
        /\ 0 \in 0..MaxFailures
    BY <1>1, BoundAssumption
  <2> QED BY <2>1 DEF NewFrame, Frames, Undecided, Failers
<1>3. /\ frame' = [frame EXCEPT ![g][depth[g] + 1] = new]
      /\ got' = [got EXCEPT ![g] = None] /\ calls' = calls + 1
      /\ depth[g] > 0 => At(g, "callback")
  BY DEF Open, InUserCode
<1> HIDE DEF new
<1>4. /\ frame' \in [Goroutines -> [Depths -> Frames]]
      /\ frame'[g][depth[g] + 1] = new
      /\ \A d \in Depths \ {depth[g] + 1} : frame'[g][d] = frame[g][d]
      /\ \A k \in Goroutines \ {g} : frame'[k] = frame[k] /\ depth'[k] = depth[k]
  BY <1>1, <1>2, <1>3 DEF IInv, TypeOK
<1>5. TypeOK'
  BY <1>1, <1>3, <1>4, BoundAssumption DEF IInv, TypeOK, Depths
<1>6. thread[g] # None
  BY DEF Open
<1>7. Threading'
  BY <1>1, <1>4, <1>6 DEF IInv, Threading, Pinned
<1>8. Nesting'
  <2> SUFFICES ASSUME NEW k \in Goroutines, NEW d \in 1..depth'[k]
               PROVE  LET f == frame'[k][d]
                      IN  /\ f.call # 0
                          /\ d < depth'[k] => f.pc = "callback"
                          /\ ~HasVariable(f) => f.err = None
                          /\ f.pc # "back" => Undecided(f)
                          /\ f.variable # 0 => /\ f.variable \in 1..d
                                              /\ HasVariable(frame'[k][f.variable])
                          /\ f.shape = "message" => f.variable = d
    BY DEF Nesting, Undecided, HasVariable
  <2>1. CASE k # g
    BY <2>1, <1>4 DEF IInv, Nesting, HasVariable, Undecided
  <2>2. CASE k = g /\ d = depth[g] + 1
    <3>1. frame'[k][d] = new /\ depth'[k] = d
      BY <2>2, <1>1, <1>4
    <3>2. ASSUME v # 0 PROVE v \in 1..d /\ HasVariable(frame'[k][v])
      <4>1. CASE v = depth[g] + 1
        BY <4>1, <2>2, <1>1, <1>2, <1>4 DEF HasVariable
      <4>2. CASE v # depth[g] + 1
        <5>1. v \in 1..depth[g] /\ v \in Depths \ {depth[g] + 1}
          BY <4>2, <3>2, <1>1, BoundAssumption DEF Depths
        <5>2. frame'[g][v] = frame[g][v]
          BY <5>1, <1>4
        <5> QED BY <5>1, <5>2, <2>2, <1>1 DEF HasVariable
      <4> QED BY <4>1, <4>2
    <3> QED BY <3>1, <3>2, <1>2, <2>2
  <2>3. CASE k = g /\ d # depth[g] + 1
    <3>1. d \in 1..depth[g] /\ d \in Depths \ {depth[g] + 1} /\ depth[g] > 0
      BY <2>3, <1>1, BoundAssumption DEF Depths
    <3>2. frame'[g][d] = frame[g][d]
      BY <3>1, <1>4
    <3>3. frame[g][d].pc = "callback"
      BY <3>1, <1>1, <1>3 DEF IInv, Nesting, At, Top
    <3>4. ASSUME frame[g][d].variable # 0
          PROVE  /\ frame[g][d].variable \in 1..d
                 /\ HasVariable(frame'[g][frame[g][d].variable])
      <4>1. /\ frame[g][d].variable \in 1..d
            /\ HasVariable(frame[g][frame[g][d].variable])
        BY <3>1, <3>4 DEF IInv, Nesting
      <4>2. frame[g][d].variable \in Depths \ {depth[g] + 1}
        BY <4>1, <3>1, <1>1, BoundAssumption DEF Depths
      <4> QED BY <4>1, <4>2, <1>4
    <3> QED BY <2>3, <3>1, <3>2, <3>3, <3>4 DEF IInv, Nesting
  <2> QED BY <2>1, <2>2, <2>3
<1>9. Failures'
  <2> SUFFICES ASSUME NEW k \in Goroutines, At(k, "back")'
               PROVE  Told(Top(k)', lastError'[thread'[k]])
    BY DEF Failures, Told, Asks
  <2>1. k # g
    BY <1>1, <1>2, <1>4 DEF At, Top
  <2>2. At(k, "back") /\ Top(k)' = Top(k)
    BY <2>1, <1>4 DEF At, Top
  <2> QED BY <2>2, <1>1 DEF IInv, Failures
<1> QED BY <1>5, <1>7, <1>8, <1>9 DEF IInv

\* User code makes a call.
LEMMA BeginIInv ==
  ASSUME IInv, NEW g \in Goroutines, NEW shape \in Shapes \ {"smart"}, Begin(g, shape)
  PROVE  IInv'
<1> DEFINE v == IF shape \in {"direct", "message"} THEN depth[g] + 1 ELSE 0
<1>1. Open(g, NewFrame(calls + 1, shape, v))
  BY DEF Begin
<1>2. v \in 0..MaxDepth /\ depth[g] \in 0..MaxDepth
  BY <1>1, BoundAssumption DEF Open, IInv, TypeOK
<1> QED BY <1>1, <1>2, OpenIInv

\* A subtransport makes a call for the call that it belongs to.
LEMMA BeginSmartIInv ==
  ASSUME IInv, NEW g \in Goroutines, NEW d \in 1..depth[g], BeginSmart(g, d)
  PROVE  IInv'
<1>1. /\ d \in 0..MaxDepth /\ d \in 1..(depth[g] + 1) /\ d # depth[g] + 1
      /\ "smart" \in Shapes
  BY BoundAssumption DEF IInv, TypeOK, Shapes
<1> QED BY <1>1, OpenIInv DEF BeginSmart

-----------------------------------------------------------------------------
\* The C function succeeds.
LEMMA SucceedIInv ==
  ASSUME IInv, NEW g \in Goroutines, Succeed(g)
  PROVE  IInv'
<1> DEFINE f == [Top(g) EXCEPT !.pc = "back"]
<1>1. depth[g] > 0 /\ Top(g) \in Frames /\ SetTop(g, f) /\ Top(g).pc = "C"
  BY TopFrame DEF Succeed, At
<1>2. Undecided(Top(g)) /\ (~HasVariable(Top(g)) => Top(g).err = None)
  BY <1>1, TopFrame DEF IInv, Nesting
<1>3. /\ f \in Frames /\ f.call = Top(g).call /\ f.shape = Top(g).shape
      /\ f.variable = Top(g).variable /\ f.err = Top(g).err /\ f.pc = "back"
      /\ f.ret = "OK" /\ f.cause = None /\ f.by = "none"
  BY <1>1, <1>2 DEF Frames, Undecided
<1>4. Told(f, lastError'[thread[g]])
  BY <1>3 DEF Told, Asks
<1> HIDE DEF f
<1> QED BY <1>1, <1>2, <1>3, <1>4, TopIInv DEF Succeed, IInv, TypeOK, HasVariable

\* The C function fails by itself.
LEMMA FailIInv ==
  ASSUME IInv, NEW g \in Goroutines, Fail(g)
  PROVE  IInv'
<1> DEFINE err == [object |-> "git", code |-> "Code", text |-> NewEvent(g)]
           f == GivesUp(Top(g), "Code", err, "C")
<1>1. /\ depth[g] > 0 /\ Top(g) \in Frames /\ SetTop(g, f) /\ Top(g).pc = "C"
      /\ thread[g] \in Threads
  BY TopFrame DEF Fail, At
<1>2. ~HasVariable(Top(g)) => Top(g).err = None
  BY <1>1, TopFrame DEF IInv, Nesting
<1>3. NewEvent(g) \in Events /\ err \in Errors
  BY <1>1, NewEventType DEF Fail, Errors, Codes
<1>4. lastError' = [lastError EXCEPT ![thread[g]] = NewEvent(g)]
  BY DEF Fail
<1>5. /\ lastError' \in [Threads -> Events \cup {None}]
      /\ lastError'[thread[g]] = NewEvent(g)
      /\ \A t \in Threads \ {thread[g]} : lastError'[t] = lastError[t]
  BY <1>1, <1>3, <1>4 DEF IInv, TypeOK
<1>6. /\ f \in Frames /\ f.call = Top(g).call /\ f.shape = Top(g).shape
      /\ f.variable = Top(g).variable /\ f.err = Top(g).err /\ f.pc = "back"
      /\ f.ret = "Code" /\ f.cause = err /\ f.by = "C" /\ f.cause # None
  BY <1>1, <1>3, GivesUpFacts DEF Codes, Failers
<1>7. Told(f, lastError'[thread[g]])
  BY <1>5, <1>6 DEF Told, Asks, CodeOf, IsGitError
<1> HIDE DEF f
<1> QED BY <1>1, <1>2, <1>5, <1>6, <1>7, TopIInv DEF Fail, IInv, TypeOK, HasVariable

\* An iteration ends.
LEMMA EndIInv ==
  ASSUME IInv, NEW g \in Goroutines, End(g)
  PROVE  IInv'
<1> DEFINE f == GivesUp(Top(g), "IterOver", IterOver, "C")
<1>1. depth[g] > 0 /\ Top(g) \in Frames /\ SetTop(g, f) /\ Top(g).shape = "plain"
  BY TopFrame DEF End, At
<1>2. Top(g).err = None
  BY <1>1, TopFrame DEF IInv, Nesting, HasVariable
<1>3. IterOver \in Errors /\ "IterOver" \in Codes /\ "C" \in Failers
  BY DEF IterOver, Errors, Codes, Failers
<1>4. /\ f \in Frames /\ f.call = Top(g).call /\ f.shape = Top(g).shape
      /\ f.variable = Top(g).variable /\ f.err = Top(g).err /\ f.pc = "back"
      /\ f.ret = "IterOver" /\ f.cause = IterOver /\ f.by = "C" /\ f.cause # None
  BY <1>1, <1>3, GivesUpFacts
<1>5. Told(f, lastError'[thread[g]])
  BY <1>1, <1>4 DEF Told, Asks, CodeOf, IsGitError, IterOver
<1> HIDE DEF f
<1> QED BY <1>1, <1>2, <1>4, <1>5, TopIInv DEF End, IInv, TypeOK

-----------------------------------------------------------------------------
\* C calls back.
LEMMA CallBackIInv ==
  ASSUME IInv, NEW g \in Goroutines, CallBack(g)
  PROVE  IInv'
<1> DEFINE f == [Top(g) EXCEPT !.pc = "callback"]
<1>1. depth[g] > 0 /\ Top(g) \in Frames /\ SetTop(g, f) /\ Top(g).pc = "C"
  BY TopFrame DEF CallBack, At
<1>2. Undecided(Top(g)) /\ (~HasVariable(Top(g)) => Top(g).err = None)
  BY <1>1, TopFrame DEF IInv, Nesting
<1>3. /\ f \in Frames /\ f.call = Top(g).call /\ f.shape = Top(g).shape
      /\ f.variable = Top(g).variable /\ f.err = Top(g).err /\ f.pc = "callback"
      /\ Undecided(f)
  BY <1>1, <1>2 DEF Frames, Undecided
<1> HIDE DEF f
<1> QED BY <1>1, <1>2, <1>3, TopIInv DEF CallBack, IInv, TypeOK, HasVariable

\* The callback returns no error.
LEMMA CallbackOKIInv ==
  ASSUME IInv, NEW g \in Goroutines, CallbackOK(g)
  PROVE  IInv'
<1> DEFINE f == [Top(g) EXCEPT !.pc = "C"]
<1>1. depth[g] > 0 /\ Top(g) \in Frames /\ SetTop(g, f) /\ Top(g).pc = "callback"
  BY TopFrame DEF CallbackOK, At
<1>2. Undecided(Top(g)) /\ (~HasVariable(Top(g)) => Top(g).err = None)
  BY <1>1, TopFrame DEF IInv, Nesting
<1>3. /\ f \in Frames /\ f.call = Top(g).call /\ f.shape = Top(g).shape
      /\ f.variable = Top(g).variable /\ f.err = Top(g).err /\ f.pc = "C"
      /\ Undecided(f)
  BY <1>1, <1>2 DEF Frames, Undecided
<1> HIDE DEF f
<1> QED BY <1>1, <1>2, <1>3, TopIInv DEF CallbackOK, IInv, TypeOK, HasVariable

\* What a failing callback may return is an error.
LEMMA CallbackErrorsType ==
  ASSUME IInv, NEW g \in Goroutines, depth[g] > 0, MayFail(g), NEW err \in CallbackErrors(g)
  PROVE  err \in Errors /\ err.text \in Events \cup {None} /\ err.code \in Codes
<1>1. err \in Errors
  BY NewEventType DEF CallbackErrors, Errors, Codes, IInv, TypeOK
<1> QED BY <1>1 DEF Errors

\* A callback without a text fails.
LEMMA DirectErrorIInv ==
  ASSUME IInv, NEW g \in Goroutines, NEW err \in CallbackErrors(g), DirectError(g, err)
  PROVE  IInv'
<1> DEFINE n == GivesUp(Top(g), "User", err, "callback")
           f == [n EXCEPT !.err = err]
<1>1. /\ depth[g] > 0 /\ Top(g) \in Frames /\ SetTop(g, f) /\ HasVariable(Top(g))
  BY TopFrame DEF DirectError, At, HasVariable
<1>2. err \in Errors /\ err # None /\ "User" \in Codes /\ "callback" \in Failers
  BY <1>1, CallbackErrorsType, NoneAssumption DEF DirectError, Codes, Failers
<1>3. /\ n \in Frames /\ n.call = Top(g).call /\ n.shape = Top(g).shape
      /\ n.variable = Top(g).variable /\ n.pc = "back"
      /\ n.ret = "User" /\ n.cause = err /\ n.by = "callback"
  BY <1>1, <1>2, GivesUpFacts
<1> HIDE DEF n
<1>4. /\ f \in Frames /\ f.call = Top(g).call /\ f.shape = Top(g).shape
      /\ f.variable = Top(g).variable /\ f.err = err /\ f.pc = "back"
      /\ f.ret = "User" /\ f.cause = err /\ f.by = "callback"
  BY <1>2, <1>3 DEF Frames
<1>5. Told(f, lastError'[thread[g]])
  BY <1>2, <1>4 DEF Told, Asks
<1> HIDE DEF f
<1> QED BY <1>1, <1>4, <1>5, TopIInv DEF DirectError, IInv, TypeOK, HasVariable

\* A callback that leaves its text with C fails.
LEMMA MessageErrorIInv ==
  ASSUME IInv, NEW g \in Goroutines, NEW err \in CallbackErrors(g),
         NEW by \in {"callback", "subtransport"}, NEW ignored \in BOOLEAN,
         MessageError(g, err, by, ignored)
  PROVE  IInv'
<1> DEFINE old == Stored(g, err, by)
           top == old[depth[g]]
           f == IF ignored THEN GoesOn(top)
                           ELSE GivesUp(top, CodeOf(err), err, by)
           fs == [old EXCEPT ![depth[g]] = f]
           v == Top(g).variable
<1>1. /\ depth[g] > 0 /\ depth[g] \in Depths /\ Top(g) \in Frames
      /\ Top(g) = frame[g][depth[g]] /\ frame[g] \in [Depths -> Frames]
      /\ thread[g] \in Threads /\ Top(g).pc = "callback" /\ MayFail(g)
  BY TopFrame DEF MessageError, At
<1>2. /\ err \in Errors /\ err # None /\ err.text \in Events \cup {None}
      /\ CodeOf(err) \in Codes
  BY <1>1, CallbackErrorsType, NoneAssumption DEF CodeOf, Codes
<1>3. /\ by = "callback" => Top(g).shape \in {"message", "object", "smart"}
      /\ by = "subtransport" => Top(g).shape = "message"
      /\ frame' = [frame EXCEPT ![g] = fs]
      /\ lastError' = [lastError EXCEPT ![thread[g]] = err.text]
      /\ thread' = thread /\ depth' = depth /\ calls' = calls /\ got' = got
  <2>1. frame' = [frame EXCEPT ![g] = fs]
    BY DEF MessageError
  <2>2. /\ by = "callback" => Top(g).shape \in {"message", "object", "smart"}
        /\ by = "subtransport" => Top(g).shape = "message"
        /\ lastError' = [lastError EXCEPT ![thread[g]] = err.text]
        /\ thread' = thread /\ depth' = depth /\ calls' = calls /\ got' = got
    BY DEF MessageError
  <2> HIDE DEF fs
  <2> QED BY <2>1, <2>2
<1>4. /\ lastError' \in [Threads -> Events \cup {None}]
      /\ lastError'[thread[g]] = err.text
      /\ \A t \in Threads \ {thread[g]} : lastError'[t] = lastError[t]
  BY <1>1, <1>2, <1>3 DEF IInv, TypeOK
<1>5. /\ v # 0 => v \in 1..depth[g] /\ v \in Depths /\ HasVariable(frame[g][v])
      /\ Top(g).shape = "message" => v = depth[g]
      /\ Undecided(Top(g)) /\ (~HasVariable(Top(g)) => Top(g).err = None)
  BY <1>1, TopFrame, BoundAssumption DEF IInv, Nesting, Depths
\* Storing the error changes no more than the variable.
<1>6. ASSUME NEW d \in Depths
      PROVE  /\ old \in [Depths -> Frames]
             /\ old[d].call = frame[g][d].call /\ old[d].shape = frame[g][d].shape
             /\ old[d].variable = frame[g][d].variable /\ old[d].pc = frame[g][d].pc
             /\ old[d].failures = frame[g][d].failures
             /\ old[d].ret = frame[g][d].ret /\ old[d].cause = frame[g][d].cause
             /\ old[d].by = frame[g][d].by
             /\ old[d].err = IF by = "callback" /\ v # 0 /\ d = v THEN err
                                                                ELSE frame[g][d].err
  <2>1. CASE by = "callback" /\ v # 0
    <3>1. old = [frame[g] EXCEPT ![v] = [frame[g][v] EXCEPT !.err = err]]
      BY <2>1 DEF Stored
    <3>2. frame[g][v] \in Frames /\ [frame[g][v] EXCEPT !.err = err] \in Frames
      BY <2>1, <1>1, <1>2, <1>5 DEF Frames
    <3>3. old \in [Depths -> Frames]
      BY <3>1, <3>2, <1>1
    <3>4. CASE d = v
      <4>1. old[d] = [frame[g][v] EXCEPT !.err = err]
        BY <3>1, <3>4, <1>1
      <4> QED BY <2>1, <3>2, <3>3, <3>4, <4>1 DEF Frames
    <3>5. CASE d # v
      <4>1. old[d] = frame[g][d]
        BY <3>1, <3>5, <1>1
      <4> QED BY <3>3, <3>5, <4>1
    <3> QED BY <3>4, <3>5
  <2>2. CASE ~(by = "callback" /\ v # 0)
    <3>1. old = frame[g]
      BY <2>2 DEF Stored
    <3> QED BY <2>2, <3>1, <1>1
  <2> QED BY <2>1, <2>2
<1>7. /\ old \in [Depths -> Frames] /\ top \in Frames
      /\ top.call = Top(g).call /\ top.shape = Top(g).shape
      /\ top.variable = v /\ top.failures = Top(g).failures /\ Undecided(top)
  BY <1>1, <1>5, <1>6 DEF Undecided
<1>8. /\ ~HasVariable(top) => top.err = None
      /\ top.shape = "message" /\ by = "callback" => top.err = err
  <2>1. ~HasVariable(top) => top.err = None
    <3> SUFFICES ASSUME ~HasVariable(top) PROVE top.err = None
      OBVIOUS
    <3>1. ~HasVariable(Top(g)) /\ Top(g).err = None
      BY <1>5, <1>7 DEF HasVariable
    <3>2. v # depth[g] \/ v = 0
      BY <3>1, <1>1, <1>5
    <3> QED BY <3>1, <3>2, <1>1, <1>6 DEF Depths
  <2>2. top.shape = "message" /\ by = "callback" => top.err = err
    <3> SUFFICES ASSUME top.shape = "message", by = "callback" PROVE top.err = err
      OBVIOUS
    <3>1. v = depth[g] /\ v # 0
      BY <1>1, <1>5, <1>7
    <3> QED BY <3>1, <1>1, <1>6
  <2> QED BY <2>1, <2>2
<1>9. /\ f \in Frames /\ f.call = Top(g).call /\ f.shape = Top(g).shape
      /\ f.variable = v /\ f.err = top.err
      /\ f.pc = IF ignored THEN "C" ELSE "back"
      /\ ignored => Undecided(f)
      /\ ~ignored => f.ret = CodeOf(err) /\ f.cause = err /\ f.by = by
  <2> HIDE DEF top
  <2>1. CASE ignored
    <3>1. top.failures + 1 \in 0..MaxFailures
      BY <1>1, <1>7, NewEventType
    <3> QED BY <2>1, <3>1, <1>7 DEF GoesOn, Frames, Undecided
  <2>2. CASE ~ignored
    <3>1. f = GivesUp(top, CodeOf(err), err, by)
      BY <2>2
    <3> HIDE DEF f
    <3> QED BY <2>2, <3>1, <1>2, <1>7, GivesUpFacts DEF Failers
  <2> QED BY <2>1, <2>2
<1>10. ASSUME ~ignored PROVE Told(f, lastError'[thread[g]])
  <2> HIDE DEF f, top
  <2>1. /\ f.ret = CodeOf(err) /\ f.ret \in Codes /\ f.ret # "OK" /\ f.cause = err
        /\ f.by = by /\ f.by # "none"
    BY <1>2, <1>9, <1>10 DEF Codes
  <2>2. f.err # None /\ by = "callback" => f.err = err
    BY <1>3, <1>7, <1>8, <1>9 DEF HasVariable
  <2>3. ~Asks(f) /\ by = "callback" => f.err = err
    BY <2>2 DEF Asks
  <2>4. f.shape # "direct"
    BY <1>3, <1>9
  <2>5. f.shape = "message" /\ by = "callback" /\ ~IsGitError(err) => ~Asks(f)
    BY <1>2, <1>7, <1>8, <1>9, <2>1 DEF Asks, CodeOf
  <2> QED BY <1>2, <1>4, <2>1, <2>3, <2>4, <2>5 DEF Told, Asks
<1>11. ASSUME NEW d \in 1..depth[g]
       PROVE  /\ fs[d].call = frame[g][d].call
              /\ fs[d].shape = frame[g][d].shape
              /\ fs[d].variable = frame[g][d].variable
              /\ d < depth[g] => fs[d].pc = "callback"
              /\ ~HasVariable(fs[d]) => fs[d].err = None
              /\ fs[d].pc # "back" => Undecided(fs[d])
  <2> HIDE DEF f, old, top, v
  <2>1. CASE d = depth[g]
    <3>1. fs[d] = f
      BY <2>1, <1>1, <1>7
    <3> QED BY <2>1, <3>1, <1>1, <1>7, <1>8, <1>9 DEF HasVariable, v
  <2>2. CASE d # depth[g]
    <3>1. d < depth[g] /\ d \in Depths /\ fs[d] = old[d]
      BY <2>2, <1>1, <1>7, BoundAssumption DEF Depths
    <3>2. /\ frame[g][d].pc = "callback" /\ Undecided(frame[g][d])
          /\ ~HasVariable(frame[g][d]) => frame[g][d].err = None
      BY <3>1 DEF IInv, Nesting
    <3>3. ~HasVariable(frame[g][d]) /\ v # 0 => d # v
      BY <1>5
    <3> QED BY <3>1, <3>2, <3>3, <1>6 DEF HasVariable, Undecided
  <2> QED BY <2>1, <2>2
<1>12. fs \in [Depths -> Frames] /\ fs[depth[g]] = f
  <2> HIDE DEF f, old
  <2> QED BY <1>1, <1>7, <1>9
<1>13. fs[depth[g]].pc = "back" => Told(fs[depth[g]], lastError'[thread[g]])
  BY <1>9, <1>10, <1>12
<1>14. got' \in [Goroutines -> Errors \cup {None}]
  BY <1>3 DEF IInv, TypeOK
<1> HIDE DEF fs
<1> QED BY <1>1, <1>3, <1>4, <1>11, <1>12, <1>13, <1>14, StepIInv

\* A callback that is not set gives a code.
LEMMA BareCodeIInv ==
  ASSUME IInv, NEW g \in Goroutines, NEW text \in Events \cup {None}, BareCode(g, text)
  PROVE  IInv'
<1> DEFINE err == [object |-> "git", code |-> "Code", text |-> None]
           f == GivesUp(Top(g), "Code", err, "code")
<1>1. /\ depth[g] > 0 /\ Top(g) \in Frames /\ SetTop(g, f)
      /\ thread[g] \in Threads /\ Top(g).shape # "direct"
  BY TopFrame DEF BareCode, At
<1>2. ~HasVariable(Top(g)) => Top(g).err = None
  BY <1>1, TopFrame DEF IInv, Nesting
<1>3. err \in Errors
  BY DEF Errors, Codes
<1>4. lastError' = [lastError EXCEPT ![thread[g]] = text]
  BY DEF BareCode
<1>5. /\ lastError' \in [Threads -> Events \cup {None}]
      /\ \A t \in Threads \ {thread[g]} : lastError'[t] = lastError[t]
  BY <1>1, <1>4 DEF IInv, TypeOK
<1>6. /\ f \in Frames /\ f.call = Top(g).call /\ f.shape = Top(g).shape
      /\ f.variable = Top(g).variable /\ f.err = Top(g).err /\ f.pc = "back"
      /\ f.ret = "Code" /\ f.cause = err /\ f.by = "code" /\ f.cause # None
  BY <1>1, <1>3, GivesUpFacts DEF Codes, Failers
<1>7. Told(f, lastError'[thread[g]])
  BY <1>1, <1>6 DEF Told, Asks, CodeOf, IsGitError
<1> HIDE DEF f
<1> QED BY <1>1, <1>2, <1>5, <1>6, <1>7, TopIInv DEF BareCode, IInv, TypeOK, HasVariable

\* The call returns.
LEMMA ReturnIInv ==
  ASSUME IInv, NEW g \in Goroutines, Return(g)
  PROVE  IInv'
<1>1. /\ depth[g] > 0 /\ depth[g] \in Depths /\ Top(g) \in Frames
      /\ thread[g] \in Threads /\ depth[g] \in 1..MaxDepth
  BY TopFrame DEF Return, At, Depths
<1>2. /\ depth' = [depth EXCEPT ![g] = depth[g] - 1] /\ depth'[g] = depth[g] - 1
      /\ depth[g] - 1 \in 0..MaxDepth /\ thread' = thread
      /\ lastError' = lastError /\ calls' = calls
  BY <1>1, BoundAssumption DEF Return, IInv, TypeOK
<1>3. NoFrame \in Frames
  BY BoundAssumption DEF NoFrame, NewFrame, Frames, Shapes, Failers
<1>4. /\ frame' \in [Goroutines -> [Depths -> Frames]]
      /\ \A d \in Depths \ {depth[g]} : frame'[g][d] = frame[g][d]
      /\ \A k \in Goroutines \ {g} : frame'[k] = frame[k] /\ depth'[k] = depth[k]
  BY <1>1, <1>3 DEF Return, SetTop, IInv, TypeOK
<1>5. Result(g) \in Errors \cup {None}
  <2>1. Top(g).ret \in Codes \cup {"OK"} /\ Top(g).err \in Errors \cup {None}
    BY <1>1 DEF Frames
  <2>2. CASE Top(g).ret = "OK"
    BY <2>2 DEF Result
  <2>3. CASE Top(g).ret # "OK" /\ AsksTheThread(g)
    <3>1. MakeGitError(Top(g).ret, thread[g]) \in Errors
      BY <1>1, <2>1, <2>3 DEF MakeGitError, Errors, IInv, TypeOK
    <3> QED BY <2>3, <3>1 DEF Result
  <2>4. CASE Top(g).ret # "OK" /\ ~AsksTheThread(g)
    BY <2>1, <2>4 DEF Result
  <2> QED BY <2>2, <2>3, <2>4
<1>6. TypeOK'
  BY <1>2, <1>4, <1>5 DEF Return, IInv, TypeOK
<1>7. Threading'
  BY <1>2, <1>4, BoundAssumption DEF IInv, TypeOK, Threading, Pinned
<1>8. Nesting'
  <2> SUFFICES ASSUME NEW k \in Goroutines, NEW d \in 1..depth'[k]
               PROVE  LET f == frame'[k][d]
                      IN  /\ f.call # 0
                          /\ d < depth'[k] => f.pc = "callback"
                          /\ ~HasVariable(f) => f.err = None
                          /\ f.pc # "back" => Undecided(f)
                          /\ f.variable # 0 => /\ f.variable \in 1..d
                                              /\ HasVariable(frame'[k][f.variable])
                          /\ f.shape = "message" => f.variable = d
    BY DEF Nesting, Undecided, HasVariable
  <2>1. CASE k # g
    BY <2>1, <1>4 DEF IInv, Nesting, HasVariable, Undecided
  <2>2. CASE k = g
    <3>1. d \in 1..depth[g] /\ d < depth[g] /\ d \in Depths \ {depth[g]}
      BY <2>2, <1>1, <1>2, BoundAssumption DEF Depths
    <3>2. frame'[g][d] = frame[g][d]
      BY <3>1, <1>4
    <3>3. ASSUME frame[g][d].variable # 0
          PROVE  /\ frame[g][d].variable \in 1..d
                 /\ HasVariable(frame'[g][frame[g][d].variable])
      <4>1. /\ frame[g][d].variable \in 1..d
            /\ HasVariable(frame[g][frame[g][d].variable])
        BY <3>1, <3>3 DEF IInv, Nesting
      <4>2. frame[g][d].variable \in Depths \ {depth[g]}
        BY <4>1, <3>1, <1>1, BoundAssumption DEF Depths
      <4> QED BY <4>1, <4>2, <1>4
    <3> QED BY <2>2, <3>1, <3>2, <3>3 DEF IInv, Nesting
  <2> QED BY <2>1, <2>2
<1>9. Failures'
  <2> SUFFICES ASSUME NEW k \in Goroutines, At(k, "back")'
               PROVE  Told(Top(k)', lastError'[thread'[k]])
    BY DEF Failures, Told, Asks
  <2>1. CASE k # g
    <3>1. At(k, "back") /\ Top(k)' = Top(k)
      BY <2>1, <1>4 DEF At, Top
    <3> QED BY <3>1, <1>2 DEF IInv, Failures
  <2>2. CASE k = g
    <3>1. depth'[g] > 0 /\ frame'[g][depth'[g]].pc = "back"
      BY <2>2 DEF At, Top
    <3>2. /\ depth'[g] \in 1..depth[g] /\ depth'[g] < depth[g]
          /\ depth'[g] \in Depths \ {depth[g]}
      BY <3>1, <1>1, <1>2, BoundAssumption DEF Depths
    <3>3. frame'[g][depth'[g]].pc = "callback"
      BY <3>2, <1>4 DEF IInv, Nesting
    <3> QED BY <3>1, <3>3
  <2> QED BY <2>1, <2>2
<1> QED BY <1>6, <1>7, <1>8, <1>9 DEF IInv

-----------------------------------------------------------------------------
\* Every step keeps the invariant.
LEMMA NextIInv == IInv /\ [Next]_vars => IInv'
<1> SUFFICES ASSUME IInv, [Next]_vars PROVE IInv'
  OBVIOUS
<1>1. CASE UNCHANGED vars
  <2>1. TypeOK'
    BY <1>1 DEF vars, IInv, TypeOK
  <2>2. Threading'
    BY <1>1 DEF vars, IInv, Threading, Pinned
  <2>3. Nesting'
    BY <1>1 DEF vars, IInv, Nesting, HasVariable, Undecided
  <2>4. Failures'
    BY <1>1 DEF vars, IInv, Failures, At, Top, Told, Asks
  <2> QED BY <2>1, <2>2, <2>3, <2>4 DEF IInv
<1>2. ASSUME NEW g \in Goroutines, At(g, "callback"),
             \/ \E err \in CallbackErrors(g) :
                  \/ DirectError(g, err)
                  \/ \E by \in {"callback", "subtransport"}, ignored \in BOOLEAN :
                       MessageError(g, err, by, ignored)
             \/ \E text \in Events \cup {None} : BareCode(g, text)
      PROVE  IInv'
  BY <1>2, DirectErrorIInv, MessageErrorIInv, BareCodeIInv
<1> QED BY <1>1, <1>2, ScheduleIInv, BeginIInv, BeginSmartIInv, SucceedIInv, FailIInv,
  EndIInv, CallBackIInv, CallbackOKIInv, ReturnIInv DEF Next

\* IInv is an invariant of the calls.
THEOREM Invariance == Spec => []IInv
<1>1. Init => IInv
  BY InitIInv
<1>2. IInv /\ [Next]_vars => IInv'
  BY NextIInv
<1> QED BY <1>1, <1>2, PTL DEF Spec

\* Frames, threads and errors keep the types of what they stand for.
THEOREM TypeCorrect == Spec => []TypeOK
<1>1. IInv => TypeOK
  BY DEF IInv
<1> QED BY <1>1, Invariance, PTL

\* What a call that is back from C reports.
LEMMA ResultFacts ==
  ASSUME IInv, NEW g \in Goroutines, At(g, "back")
  PROVE  /\ Told(Top(g), lastError[thread[g]])
         /\ Top(g).cause \in Errors \cup {None} /\ Top(g).err \in Errors \cup {None}
         /\ Top(g).ret = "OK" => Result(g) = None
         /\ Top(g).ret # "OK" /\ Asks(Top(g)) =>
              /\ Result(g) = MakeGitError(Top(g).ret, thread[g])
              /\ MakeGitError(Top(g).ret, thread[g]) \in Errors
         /\ ~Asks(Top(g)) => Result(g) = Top(g).err /\ Top(g).err \in Errors
<1>1. depth[g] > 0 /\ Top(g) \in Frames /\ thread[g] \in Threads
  BY TopFrame DEF At
<1>2. Told(Top(g), lastError[thread[g]])
  BY DEF IInv, Failures
<1>3. /\ Top(g).cause \in Errors \cup {None} /\ Top(g).err \in Errors \cup {None}
      /\ Top(g).ret \in Codes \cup {"OK"}
  BY <1>1 DEF Frames
<1>4. lastError[thread[g]] \in Events \cup {None}
  BY <1>1 DEF IInv, TypeOK
<1>5. AsksTheThread(g) <=> Asks(Top(g))
  BY DEF AsksTheThread, Asks
<1>6. Top(g).ret # "OK" => MakeGitError(Top(g).ret, thread[g]) \in Errors
  BY <1>3, <1>4 DEF MakeGitError, Errors
<1>7. ~Asks(Top(g)) => Top(g).ret # "OK" /\ Top(g).err \in Errors
  BY <1>3 DEF Asks
<1> QED BY <1>2, <1>3, <1>5, <1>6, <1>7 DEF Result

\* A call reports the failure that made it fail and no other, unless the error
\* of an earlier callback of its own wins over that of a subtransport.
THEOREM RightError == Spec => []ReportsTheCause
<1>1. IInv => ReportsTheCause
  <2> SUFFICES ASSUME IInv, NEW g \in Goroutines, At(g, "back")
               PROVE  LET f == Top(g)
                          err == Result(g)
                      IN  /\ err = None <=> f.cause = None
                          /\ err # None /\ ~EarlierErrorWins(f) =>
                               /\ CodeOf(err) = CodeOf(f.cause)
                               /\ \/ err.text = f.cause.text
                                  \/ err.text = None /\ CodeOf(f.cause) = "IterOver"
                                  \/ f.by = "code"
    BY DEF ReportsTheCause
  <2>1. CASE Top(g).ret = "OK"
    BY <2>1, ResultFacts DEF Told
  <2>2. CASE Top(g).ret # "OK" /\ Asks(Top(g))
    <3> DEFINE err == MakeGitError(Top(g).ret, thread[g])
    <3>1. /\ Result(g) = err /\ err \in Errors /\ err # None
          /\ Told(Top(g), lastError[thread[g]])
      BY <2>2, ResultFacts, NoneAssumption
    <3>2. /\ CodeOf(err) = Top(g).ret
          /\ Top(g).ret # "IterOver" => err.text = lastError[thread[g]]
          /\ Top(g).ret = "IterOver" => err.text = None
      BY DEF MakeGitError, CodeOf, IsGitError
    <3> HIDE DEF err
    <3> QED BY <2>2, <3>1, <3>2 DEF Told
  <2>3. CASE ~Asks(Top(g))
    <3>1. /\ Result(g) = Top(g).err /\ Top(g).err # None
          /\ Told(Top(g), lastError[thread[g]]) /\ Top(g).ret = "User"
      BY <2>3, ResultFacts, NoneAssumption DEF Asks
    <3>2. Top(g).cause # None
      BY <3>1 DEF Told
    <3>3. CASE Top(g).by = "subtransport"
      <4>1. EarlierErrorWins(Top(g))
        BY <2>3, <3>1, <3>3 DEF Told, EarlierErrorWins
      <4> QED BY <3>1, <3>2, <4>1
    <3>4. CASE Top(g).by # "subtransport"
      <4>1. Top(g).err = Top(g).cause
        BY <2>3, <3>1, <3>4 DEF Told
      <4> QED BY <3>1, <3>2, <4>1
    <3> QED BY <3>3, <3>4
  <2> QED BY <2>1, <2>2, <2>3
<1> QED BY <1>1, Invariance, PTL

\* The thread's error cannot be overwritten before it is read.
THEOREM ErrorIsKept == Spec => []ErrorStays
<1>1. IInv => ErrorStays
  <2> SUFFICES ASSUME IInv, NEW g \in Goroutines, At(g, "back"),
                      Top(g).ret \notin {"OK", "IterOver"}, AsksTheThread(g),
                      Top(g).by # "code"
               PROVE  /\ thread[g] # None
                      /\ lastError[thread[g]] = Top(g).cause.text
                      /\ \A other \in Goroutines \ {g} : thread[other] # thread[g]
    BY DEF ErrorStays
  <2>1. thread[g] # None /\ \A k \in Goroutines \ {g} : thread[k] # thread[g]
    BY TopFrame, NoneAssumption DEF At
  <2>2. Told(Top(g), lastError[thread[g]]) /\ Asks(Top(g))
    BY ResultFacts DEF AsksTheThread, Asks
  <2> QED BY <2>1, <2>2 DEF Told
<1> QED BY <1>1, Invariance, PTL

\* A callback passed to the function that runs it keeps its error object.
THEOREM ObjectIsKept == Spec => []KeepsTheObject
<1>1. IInv => KeepsTheObject
  <2> SUFFICES ASSUME IInv, NEW g \in Goroutines, At(g, "back"),
                      \/ Top(g).shape = "direct"
                      \/ /\ Top(g).shape = "message" /\ Top(g).by = "callback"
                         /\ ~IsGitError(Top(g).cause)
               PROVE  Result(g) = Top(g).cause
    BY DEF KeepsTheObject
  <2>0. Told(Top(g), lastError[thread[g]])
    BY ResultFacts
  <2>1. CASE Top(g).ret = "OK"
    BY <2>0, <2>1, ResultFacts DEF Told
  <2>2. CASE Top(g).ret # "OK" /\ Asks(Top(g))
    <3> DEFINE err == MakeGitError(Top(g).ret, thread[g])
    <3>1. /\ Top(g).shape = "direct" /\ Top(g).by = "C" /\ Top(g).ret = "Code"
          /\ IsGitError(Top(g).cause) /\ Top(g).cause # None
          /\ CodeOf(Top(g).cause) = "Code"
          /\ lastError[thread[g]] = Top(g).cause.text
      BY <2>0, <2>2 DEF Told
    <3>2. Top(g).cause \in Errors /\ Top(g).cause.object = "git" /\ Top(g).cause.code = "Code"
      BY <3>1, ResultFacts DEF IsGitError, CodeOf
    <3>3. err = [object |-> "git", code |-> "Code", text |-> Top(g).cause.text]
      BY <3>1 DEF MakeGitError
    <3>4. err = Top(g).cause
      BY <3>2, <3>3 DEF Errors
    <3>5. Result(g) = err
      BY <2>2, ResultFacts
    <3> QED BY <3>4, <3>5
  <2>3. CASE ~Asks(Top(g))
    <3>1. Result(g) = Top(g).err
      BY <2>3, ResultFacts
    <3>2. CASE Top(g).by # "subtransport"
      BY <2>0, <2>3, <3>1, <3>2 DEF Told
    <3>3. CASE Top(g).by = "subtransport"
      BY <2>0, <2>3, <3>3 DEF Told
    <3> QED BY <3>2, <3>3
  <2> QED BY <2>1, <2>2, <2>3
<1> QED BY <1>1, Invariance, PTL
=============================================================================
