------------------------ MODULE SessionRunner_proofs ------------------------
(***************************************************************************)
(* Theorems about SessionRunner, for every set of definitions, however     *)
(* they need, undo and run each other, and every host.                     *)
(*                                                                         *)
(* The invariant says, of every call on the stack, what its last and its   *)
(* own result can be where it stands (FrameInv) and that it waits for the  *)
(* task its section has come to (ChildInv); that the state ROLLBACK, the   *)
(* last result and the culprit tell the same (LastInv); that from a        *)
(* failure on either a rollback is under way or the failure is on its way  *)
(* to the bottom of the stack (GoingInv); and that what a call has behind  *)
(* it has gone well, unless a failure is on its way to it (MetInv).        *)
(***************************************************************************)
EXTENDS MCSessionRunner, SequenceTheorems, TLAPS

Waiting == Sections \cup {"own", "rolling"}

\* A failure that the calls on the stack will return, and no new one.
Up ==
    \/ returned \in {"error", "BearException", "Error"}
    \/ /\ stack # <<>> /\ returned = "none" /\ Top.last = "error"
       /\ Top.at = "returning" \/ (Top.at = "storing" /\ Top.mine = "ok")

\* The same or a new one.
Failing ==
    \/ returned \in {"error", "BearException", "Error"}
    \/ stack # <<>> /\ returned = "none" /\ Top.last = "error" /\ Top.at \in {"storing", "returning"}

FrameInv ==
    \A i \in 1 .. Len(stack) :
        /\ stack[i].at \in Sections \cup {"own"} => stack[i].last = "ok" /\ stack[i].mine = "ok"
        /\ stack[i].mine = "error" => stack[i].last = "error"
        /\ stack[i].at = "rolling" => stack[i].mine = "error"
        /\ stack[i].at = "rolling" => state = "ROLLBACK"
        /\ stack[i].last = "error" /\ (stack[i].at = "returning" \/ stack[i].mine = "ok")
                => state = "ROLLBACK"
        /\ (i < Len(stack) \/ returned # "none") => stack[i].at \in Waiting

Wanted(frame) == Tasks[frame.at][frame.def]

ChildInv ==
    \A i \in 1 .. Len(stack) :
        stack[i].at \in Sections =>
            /\ i < Len(stack) => /\ stack[i].next <= Len(Wanted(stack[i]))
                                 /\ stack[i + 1].def = Wanted(stack[i])[stack[i].next]
            /\ i = Len(stack) /\ returned = "ok" =>
                    /\ stack[i].next <= Len(Wanted(stack[i]))
                    /\ latest[Wanted(stack[i])[stack[i].next]] = "ok"

LastInv ==
    /\ (myLastResult = "error") <=> (state = "ROLLBACK")
    /\ returned = "error" => state = "ROLLBACK"
    /\ (culprit = NoDef) <=> (state # "ROLLBACK")
    /\ culprit = NoDef => undone = <<>>

GoingInv == (state = "ROLLBACK" /\ ~forgiven) => (RollingBack \/ Up)

\* The tasks of a section before the k-th have gone well.
Behind(section, def, k) ==
    \A j \in 1 .. Len(Tasks[section][def]) :
        j < k /\ Tasks[section][def][j] \in Here => latest[Tasks[section][def][j]] = "ok"

AllBehind(section, def) ==
    \A j \in 1 .. Len(Tasks[section][def]) :
        Tasks[section][def][j] \in Here => latest[Tasks[section][def][j]] = "ok"

Met(frame) ==
    /\ frame.at = "depends" => Behind("depends", frame.def, frame.next)
    /\ frame.at = "before" => /\ AllBehind("depends", frame.def)
                              /\ Behind("before", frame.def, frame.next)
    /\ frame.at = "own" => AllBehind("depends", frame.def) /\ AllBehind("before", frame.def)

MetInv ==
    ~forgiven /\ ~Failing =>
        \A i \in 1 .. Len(stack) :
            (\A k \in i .. Len(stack) : stack[k].at # "rolling") => Met(stack[i])

IInv == TypeOK /\ FrameInv /\ ChildInv /\ LastInv /\ GoingInv /\ MetInv /\ RolledBackOnce
-----------------------------------------------------------------------------
(* What the operations on the stack leave of it *)

LEMMA TopType ==
    ASSUME TypeOK, stack # <<>>
    PROVE  /\ Len(stack) \in Nat \ {0}
           /\ Len(stack) \in 1 .. Len(stack)
           /\ Top \in Frames
           /\ \A i \in 1 .. Len(stack) : stack[i] \in Frames
BY DEF TypeOK, Top

LEMMA Updates ==
    ASSUME NEW frame \in Frames
    PROVE  /\ [frame EXCEPT !.next = @ + 1] \in Frames
           /\ [frame EXCEPT !.next = @ + 1, !.inner = 0] \in Frames
           /\ [frame EXCEPT !.last = "error", !.at = "storing"] \in Frames
           /\ [frame EXCEPT !.mine = "error", !.last = "error", !.at = "storing"] \in Frames
           /\ [frame EXCEPT !.next = 1, !.inner = 0, !.at = "after"] \in Frames
           /\ [frame EXCEPT !.at = "returning"] \in Frames
           /\ [frame EXCEPT !.at = "rolling"] \in Frames
           /\ \A at \in {"before", "own", "storing"} : [frame EXCEPT !.next = 1, !.at = at] \in Frames
           /\ frame.inner < MaxInner => [frame EXCEPT !.inner = @ + 1] \in Frames
<1>1. /\ frame.next + 1 \in Nat \ {0} /\ 1 \in Nat \ {0}
      /\ 0 \in 0 .. MaxInner
      /\ frame.inner < MaxInner => frame.inner + 1 \in 0 .. MaxInner
  BY SessionAssumption DEF Frames
<1>2. \A n \in Nat \ {0}, at \in Sections \cup {"own", "storing"} :
        /\ [frame EXCEPT !.next = n] \in Frames
        /\ [frame EXCEPT !.next = n, !.inner = 0] \in Frames
        /\ [frame EXCEPT !.next = n, !.at = at] \in Frames
        /\ [frame EXCEPT !.next = n, !.inner = 0, !.at = at] \in Frames
  BY <1>1 DEF Frames
<1>3. \A n \in 0 .. MaxInner : [frame EXCEPT !.inner = n] \in Frames
  BY DEF Frames
<1>4. /\ [frame EXCEPT !.last = "error", !.at = "storing"] \in Frames
      /\ [frame EXCEPT !.mine = "error", !.last = "error", !.at = "storing"] \in Frames
      /\ [frame EXCEPT !.at = "returning"] \in Frames
      /\ [frame EXCEPT !.at = "rolling"] \in Frames
  BY DEF Frames
<1> QED
  BY <1>1, <1>2, <1>3, <1>4 DEF Sections

LEMMA Changed ==
    ASSUME TypeOK, stack # <<>>, NEW frame \in Frames, Change(frame)
    PROVE  /\ stack' \in Seq(Frames) /\ stack' # <<>>
           /\ Len(stack') = Len(stack)
           /\ stack'[Len(stack)] = frame
           /\ \A i \in 1 .. Len(stack) - 1 : stack'[i] = stack[i]
BY DEF TypeOK, Change

LEMMA Called == \A def \in Defs : Call(def) \in Frames
BY SessionAssumption DEF Call, Frames, Sections

LEMMA Pushed ==
    ASSUME TypeOK, NEW def \in Defs, Push(def)
    PROVE  /\ stack' \in Seq(Frames) /\ stack' # <<>>
           /\ Len(stack') = Len(stack) + 1
           /\ stack'[Len(stack) + 1] = Call(def)
           /\ \A i \in 1 .. Len(stack) : stack'[i] = stack[i]
<1>1. stack \in Seq(Frames) /\ Call(def) \in Frames
  BY Called DEF TypeOK
<1> QED
  BY <1>1, AppendProperties DEF Push

LEMMA PushedAfter ==
    ASSUME TypeOK, stack # <<>>, NEW frame \in Frames, NEW def \in Defs, PushAfter(frame, def)
    PROVE  /\ stack' \in Seq(Frames) /\ stack' # <<>>
           /\ Len(stack') = Len(stack) + 1
           /\ stack'[Len(stack) + 1] = Call(def)
           /\ stack'[Len(stack)] = frame
           /\ \A i \in 1 .. Len(stack) - 1 : stack'[i] = stack[i]
<1> DEFINE below == [stack EXCEPT ![Len(stack)] = frame]
<1>1. /\ below \in Seq(Frames) /\ Len(below) = Len(stack)
      /\ below[Len(stack)] = frame
      /\ \A i \in 1 .. Len(stack) - 1 : below[i] = stack[i]
      /\ Len(stack) \in Nat \ {0}
  BY DEF TypeOK
<1>2. Call(def) \in Frames
  BY Called
<1>3. stack' = Append(below, Call(def))
  BY DEF PushAfter
<1> HIDE DEF below
<1> QED
  BY <1>1, <1>2, <1>3, AppendProperties

LEMMA Popped ==
    ASSUME TypeOK, stack # <<>>, Pop
    PROVE  /\ stack' \in Seq(Frames)
           /\ Len(stack') = Len(stack) - 1
           /\ \A i \in 1 .. Len(stack) - 1 : stack'[i] = stack[i]
<1> DEFINE last == Len(stack) - 1
<1>1. /\ Len(stack) \in Nat \ {0} /\ last \in Nat
      /\ \A i \in 1 .. last : stack[i] \in Frames
  BY DEF TypeOK
<1>2. stack' = SubSeq(stack, 1, last)
  BY DEF Pop
<1> HIDE DEF last
<1>3. 1 \in Int /\ last \in Int /\ last - 1 + 1 = last /\ (IF 1 <= last THEN last - 1 + 1 ELSE 0) = last
  <2>1. \A n \in Nat : n \in Int /\ n - 1 + 1 = n /\ (IF 1 <= n THEN n - 1 + 1 ELSE 0) = n
    OBVIOUS
  <2> QED
    BY <1>1, <2>1
<1>4. /\ SubSeq(stack, 1, last) \in Seq(Frames)
      /\ Len(SubSeq(stack, 1, last)) = last
      /\ \A i \in 1 .. last - 1 + 1 : SubSeq(stack, 1, last)[i] = stack[1 + i - 1]
  BY <1>1, <1>3, SubSeqProperties
<1>5. ASSUME NEW i \in 1 .. last
      PROVE  SubSeq(stack, 1, last)[i] = stack[i]
  <2>1. i \in 1 .. last - 1 + 1 /\ 1 + i - 1 = i
    BY <1>1
  <2>2. SubSeq(stack, 1, last)[i] = stack[1 + i - 1]
    BY <1>4, <2>1
  <2> QED
    BY <2>1, <2>2
<1> QED
  BY <1>2, <1>4, <1>5 DEF last

LEMMA ListType ==
    ASSUME TypeOK, stack # <<>>, InSection
    PROVE  List \in Seq(Defs) /\ List = Wanted(Top)
BY TopType, SessionAssumption DEF InSection, List, Frames, Wanted

-----------------------------------------------------------------------------
LEMMA InitInv == Init => IInv
<1> SUFFICES ASSUME Init
             PROVE  IInv
  OBVIOUS
<1>1. stack = <<>> /\ Len(stack) = 0 /\ Len(Script) \in Nat /\ culprit = NoDef
  BY SessionAssumption DEF Init
<1>2. TypeOK
  <2>1. stack \in Seq(Frames) /\ undone \in Seq(Defs) /\ phase \in 0 .. Len(Script)
    BY <1>1 DEF Init
  <2> QED
    BY <2>1 DEF Init, TypeOK
<1>3. FrameInv /\ ChildInv /\ LastInv /\ GoingInv /\ MetInv /\ RolledBackOnce
  BY <1>1 DEF Init, FrameInv, ChildInv, LastInv, GoingInv, MetInv, RolledBackOnce
<1> QED
  BY <1>2, <1>3 DEF IInv

LEMMA TypeNext == TypeOK /\ [Next]_vars => TypeOK'
<1> SUFFICES ASSUME TypeOK, [Next]_vars
             PROVE  TypeOK'
  OBVIOUS
<1> USE SessionAssumption
<1>1. CASE UNCHANGED vars
  BY <1>1 DEF vars, results, history, TypeOK
<1>2. CASE BeginPhase
  <2>1. Script[phase + 1] \in Defs /\ phase + 1 \in 0 .. Len(Script)
    BY <1>2 DEF BeginPhase, TypeOK
  <2> QED
    BY <1>2, <2>1, Pushed DEF BeginPhase, TypeOK, history
<1>3. CASE SkipTask
  <2>1. [Top EXCEPT !.next = @ + 1] \in Frames
    BY <1>3, TopType, Updates DEF SkipTask, Busy
  <2> QED
    BY <1>3, <2>1, Changed DEF SkipTask, Busy, TypeOK, results, history
<1>4. CASE RunTask
  <2>1. List[Top.next] \in Defs
    BY <1>4, ListType, TopType DEF RunTask, Busy, Frames
  <2> QED
    BY <1>4, <2>1, Pushed DEF RunTask, TypeOK, results, history
<1>5. CASE TaskEnds
  <2>1. /\ [Top EXCEPT !.next = @ + 1] \in Frames
        /\ [Top EXCEPT !.last = "error", !.at = "storing"] \in Frames
    BY <1>5, TopType, Updates DEF TaskEnds
  <2> QED
    BY <1>5, <2>1, Changed DEF TaskEnds, TypeOK, results, history
<1>6. CASE EndSection
  <2>1. Top \in Frames /\ Top.at \in Sections
    BY <1>6, TopType DEF EndSection, Busy, InSection
  <2>2. \A at \in {"before", "own", "storing"} : [Top EXCEPT !.next = 1, !.at = at] \in Frames
    BY <2>1, Updates
  <2>3. PICK at \in {"before", "own", "storing"} : Change([Top EXCEPT !.next = 1, !.at = at])
    BY <1>6, <2>1 DEF EndSection, Sections
  <2> QED
    BY <1>6, <2>2, <2>3, Changed DEF EndSection, Busy, TypeOK, results, history
<1>7. CASE CallableOk
  <2>1. [Top EXCEPT !.next = @ + 1, !.inner = 0] \in Frames
    BY <1>7, TopType, Updates DEF CallableOk, Busy
  <2> QED
    BY <1>7, <2>1, Changed DEF CallableOk, Busy, TypeOK, results, history
<1>8. CASE CallableFails
  <2>1. [Top EXCEPT !.mine = "error", !.last = "error", !.at = "storing"] \in Frames
    BY <1>8, TopType, Updates DEF CallableFails, Busy
  <2> QED
    BY <1>8, <2>1, Changed DEF CallableFails, Busy, TypeOK, results, history
<1>9. CASE CallableRuns
  <2>1. /\ Inner[Top.def] \subseteq Defs
        /\ [Top EXCEPT !.inner = @ + 1] \in Frames
    <3>1. Top \in Frames
      BY <1>9, TopType DEF CallableRuns, Busy
    <3>2. Top.def \in Defs
      BY <3>1 DEF Frames
    <3> QED
      BY <1>9, <3>1, <3>2, Updates DEF CallableRuns
  <2>2. PICK d \in Defs : PushAfter([Top EXCEPT !.inner = @ + 1], d)
    BY <1>9, <2>1 DEF CallableRuns
  <2> QED
    BY <1>9, <2>1, <2>2, PushedAfter DEF CallableRuns, Busy, TypeOK, results, history
<1>10. CASE InnerEnds
  BY <1>10 DEF InnerEnds, TypeOK, results
<1>11. CASE CallableThrows
  BY <1>11, Popped DEF CallableThrows, Busy, TypeOK, results, history
<1>12. CASE EndOwn
  <2>1. [Top EXCEPT !.next = 1, !.inner = 0, !.at = "after"] \in Frames
    BY <1>12, TopType, Updates DEF EndOwn, Busy
  <2> QED
    BY <1>12, <2>1, Changed DEF EndOwn, Busy, TypeOK, results, history
<1>13. CASE Store
  <2>1. [Top EXCEPT !.at = "returning"] \in Frames
    BY <1>13, TopType, Updates DEF Store, Busy
  <2> QED
    BY <1>13, <2>1, Changed DEF Store, StoreResult, Busy, TypeOK, history
<1>14. CASE StoreFailure
  <2>1. /\ Top.def \in Defs
        /\ [Top EXCEPT !.at = "returning"] \in Frames
        /\ [Top EXCEPT !.at = "rolling"] \in Frames
    <3>1. Top \in Frames
      BY <1>14, TopType DEF StoreFailure, Busy
    <3>2. Top.def \in Defs
      BY <3>1 DEF Frames
    <3> QED
      BY <3>1, <3>2, Updates
  <2>2. stack' \in Seq(Frames)
    BY <1>14, <2>1, Changed, PushedAfter DEF StoreFailure, Busy
  <2>3. undone' \in Seq(Defs)
    <3>1. undone \in Seq(Defs) /\ undone' \in {undone, Append(undone, Top.def)}
      BY <1>14 DEF StoreFailure, TypeOK
    <3>2. \A def \in Defs : Append(undone, def) \in Seq(Defs)
      BY <3>1, AppendProperties
    <3> QED
      BY <2>1, <3>1, <3>2
  <2>4. {myLastResult', myLastRollbackResult'} \subseteq {"ok", "error"}
    BY <1>14 DEF StoreFailure, StoreResult, TypeOK
  <2> QED
    BY <1>14, <2>1, <2>2, <2>3, <2>4 DEF StoreFailure, TypeOK
<1>15. CASE RollbackEnds
  <2>1. [Top EXCEPT !.at = "returning"] \in Frames
    BY <1>15, TopType, Updates DEF RollbackEnds
  <2> QED
    BY <1>15, <2>1, Changed DEF RollbackEnds, TypeOK, results, history
<1>16. CASE Return
  <2>1. Top.def \in Defs /\ Top.last \in {"ok", "error"}
    BY <1>16, TopType DEF Return, Busy, Frames
  <2> QED
    BY <1>16, <2>1, Popped DEF Return, Busy, TypeOK, results
<1>17. CASE Unwind
  BY <1>17, Popped DEF Unwind, TypeOK, results, history
<1> QED
  BY <1>1, <1>2, <1>3, <1>4, <1>5, <1>6, <1>7, <1>8, <1>9, <1>10, <1>11, <1>12, <1>13, <1>14,
     <1>15, <1>16, <1>17 DEF Next

-----------------------------------------------------------------------------
(* The steps *)

\* What a step leaves of the stack below its top.
Kept == \A i \in 1 .. Len(stack) - 1 : stack'[i] = stack[i]

\* What IInv adds to the types.
Rest == FrameInv /\ ChildInv /\ LastInv /\ GoingInv /\ MetInv /\ RolledBackOnce

\* A call that returns leaves the calls below it waiting as they were.
LEMMA FramePopped ==
    ASSUME FrameInv, Len(stack) \in Nat, Len(stack') = Len(stack) - 1, Kept, state' = state
    PROVE  FrameInv'
<1> SUFFICES ASSUME NEW i \in 1 .. Len(stack')
             PROVE  /\ stack'[i].at \in Sections \cup {"own"} => stack'[i].last = "ok" /\ stack'[i].mine = "ok"
                    /\ stack'[i].mine = "error" => stack'[i].last = "error"
                    /\ stack'[i].at = "rolling" => stack'[i].mine = "error"
                    /\ stack'[i].at = "rolling" => state = "ROLLBACK"
                    /\ stack'[i].last = "error" /\ (stack'[i].at = "returning" \/ stack'[i].mine = "ok")
                            => state = "ROLLBACK"
                    /\ stack'[i].at \in Waiting
  BY DEF FrameInv
<1>1. i \in 1 .. Len(stack) /\ i < Len(stack) /\ i \in 1 .. Len(stack) - 1
  OBVIOUS
<1>2. stack'[i] = stack[i]
  BY <1>1 DEF Kept
<1> QED
  BY <1>1, <1>2 DEF FrameInv

\* A rollback under way goes on while a call above it runs its tasks.
LEMMA RollbackKept ==
    ASSUME GoingInv, ~Up, Len(stack) \in Nat, Len(stack') \in {Len(stack), Len(stack) + 1}, Kept,
           Top.at # "rolling", state' = state, forgiven' = forgiven
    PROVE  GoingInv'
<1>1. SUFFICES ASSUME RollingBack
               PROVE  RollingBack'
  BY DEF GoingInv
<1>2. PICK i \in 1 .. Len(stack) : stack[i].at = "rolling"
  BY <1>1 DEF RollingBack
<1>3. i # Len(stack)
  BY <1>2 DEF Top
<1>4. i \in 1 .. Len(stack) - 1 /\ i \in 1 .. Len(stack')
  BY <1>3
<1>5. stack'[i] = stack[i]
  BY <1>4 DEF Kept
<1> QED
  BY <1>2, <1>4, <1>5 DEF RollingBack

\* A step within the top call disturbs nothing of what lies below it.
LEMMA ChildKept ==
    ASSUME TypeOK, ChildInv, stack # <<>>, Kept, Len(stack') = Len(stack),
           stack'[Len(stack)].def = Top.def, returned' = "none", latest' = latest
    PROVE  ChildInv'
<1> DEFINE n == Len(stack)
<1>1. n \in Nat \ {0}
  BY DEF TypeOK
<1>2. \A i \in 1 .. n : stack'[i].def = stack[i].def
  BY <1>1 DEF Kept, Top
<1>3. SUFFICES ASSUME NEW i \in 1 .. n - 1, stack[i].at \in Sections
               PROVE  /\ stack[i].next <= Len(Wanted(stack[i]))
                      /\ stack'[i + 1].def = Wanted(stack[i])[stack[i].next]
  <2>1. \A i \in 1 .. n : i < n => i \in 1 .. n - 1
    BY <1>1
  <2> QED
    BY <1>1, <1>3, <2>1 DEF ChildInv, Kept, Wanted
<1>4. i \in 1 .. n /\ i < n /\ i + 1 \in 1 .. n
  BY <1>1
<1> QED
  BY <1>2, <1>3, <1>4 DEF ChildInv

LEMMA MetKept ==
    ASSUME TypeOK, MetInv, stack # <<>>, Kept, Len(stack') = Len(stack), latest' = latest,
           ~forgiven' /\ ~Failing' => ~forgiven /\ ~Failing /\ Top.at # "rolling",
           ~forgiven' /\ ~Failing' /\ Met(Top) => Met(Top)'
    PROVE  MetInv'
<1> DEFINE n == Len(stack)
<1> SUFFICES ASSUME ~forgiven', ~Failing', NEW i \in 1 .. n,
                    \A k \in i .. n : stack'[k].at # "rolling"
             PROVE  Met(stack[i])'
  BY DEF MetInv
<1>1. n \in Nat \ {0} /\ i \in Nat /\ (i < n => i \in 1 .. n - 1)
  BY DEF TypeOK
<1>2. \A k \in i .. n - 1 : k \in i .. n /\ k \in 1 .. n - 1
  BY <1>1
<1>3. \A k \in i .. n : k = n \/ k \in i .. n - 1
  BY <1>1
<1>4. \A k \in i .. n : stack[k].at # "rolling"
  BY <1>2, <1>3 DEF Kept, Top
<1>5. Met(stack[i])
  BY <1>4 DEF MetInv
<1>6. CASE i = n
  BY <1>5, <1>6 DEF Top
<1>7. CASE i < n
  <2>1. stack'[i] = stack[i]
    BY <1>1, <1>7 DEF Kept
  <2> QED
    BY <1>5, <2>1 DEF Met, Behind, AllBehind
<1> QED
  BY <1>1, <1>6, <1>7

\* Nor does a call, which finds nothing behind it yet.
LEMMA ChildPushed ==
    ASSUME TypeOK, ChildInv, stack # <<>>, Kept, Len(stack') = Len(stack) + 1, NEW def \in Defs,
           stack'[Len(stack) + 1] = Call(def), returned' = "none", latest' = latest,
           stack'[Len(stack)].def = Top.def,
           stack'[Len(stack)].at \in Sections =>
                /\ stack'[Len(stack)].next <= Len(Wanted(stack'[Len(stack)]))
                /\ def = Wanted(stack'[Len(stack)])[stack'[Len(stack)].next]
    PROVE  ChildInv'
<1> DEFINE n == Len(stack)
<1> SUFFICES ASSUME NEW i \in 1 .. n, stack'[i].at \in Sections
             PROVE  /\ stack'[i].next <= Len(Wanted(stack'[i]))
                    /\ stack'[i + 1].def = Wanted(stack'[i])[stack'[i].next]
  <2>1. n \in Nat
    BY DEF TypeOK
  <2>2. \A i \in 1 .. n + 1 : i < n + 1 => i \in 1 .. n
    BY <2>1
  <2> QED
    BY <2>1, <2>2 DEF ChildInv, Wanted
<1>1. n \in Nat \ {0}
  BY DEF TypeOK
<1>2. CASE i = n
  BY <1>2 DEF Call
<1>3. CASE i < n
  <2>1. i \in 1 .. n - 1 /\ i + 1 \in 1 .. n /\ i \in 1 .. n
    BY <1>1, <1>3
  <2>2. stack'[i] = stack[i] /\ stack'[i + 1].def = stack[i + 1].def
    BY <1>1, <2>1 DEF Kept, Top
  <2> QED
    BY <1>3, <2>1, <2>2 DEF ChildInv
<1> QED
  BY <1>1, <1>2, <1>3

LEMMA MetPushed ==
    ASSUME TypeOK, MetInv, stack # <<>>, Kept, Len(stack') = Len(stack) + 1, NEW def \in Defs,
           stack'[Len(stack) + 1] = Call(def), latest' = latest, ~forgiven' => ~forgiven,
           \/ stack'[Len(stack)].at = "rolling"
           \/ /\ ~Failing /\ Top.at # "rolling"
              /\ stack'[Len(stack)].at = Top.at /\ stack'[Len(stack)].def = Top.def
              /\ stack'[Len(stack)].next = Top.next
    PROVE  MetInv'
<1> DEFINE n == Len(stack)
<1>1. n \in Nat \ {0}
  BY DEF TypeOK
<1> SUFFICES ASSUME ~forgiven', NEW i \in 1 .. n + 1,
                    \A k \in i .. n + 1 : stack'[k].at # "rolling"
             PROVE  Met(stack[i])'
  BY DEF MetInv
<1>2. CASE i = n + 1
  <2>1. stack'[i].at = "depends" /\ stack'[i].next = 1
    BY <1>2 DEF Call
  <2>2. Len(Tasks["depends"][def]) \in Nat
    BY SessionAssumption DEF Sections
  <2>3. \A j \in 1 .. Len(Tasks["depends"][def]) : ~(j < 1)
    BY <2>2
  <2> QED
    BY <1>2, <2>1, <2>3 DEF Met, Behind, Call
<1>3. CASE i # n + 1
  <2>1. i \in 1 .. n /\ n \in i .. n + 1 /\ (\A k \in i .. n : k \in i .. n + 1)
    BY <1>1, <1>3
  <2>2. stack'[n].at # "rolling"
    BY <2>1
  <2>3. \A k \in i .. n : k = n \/ k \in 1 .. n - 1
    BY <1>1, <2>1
  <2>4. \A k \in i .. n : stack[k].at # "rolling"
    BY <2>1, <2>2, <2>3 DEF Kept, Top
  <2>5. Met(stack[i])
    BY <2>1, <2>2, <2>4 DEF MetInv
  <2>6. stack'[i].at = stack[i].at /\ stack'[i].def = stack[i].def /\ stack'[i].next = stack[i].next
    BY <1>1, <2>1, <2>2, <2>3 DEF Kept, Top
  <2> QED
    BY <2>5, <2>6 DEF Met, Behind, AllBehind
<1> QED
  BY <1>2, <1>3

LEMMA ChildPopped ==
    ASSUME TypeOK, ChildInv, stack # <<>>, Kept, Len(stack') = Len(stack) - 1,
           \A d \in Defs : d # Top.def \/ returned' # "ok" \/ latest'[d] = "ok"
    PROVE  ChildInv'
<1> DEFINE n == Len(stack)
<1>1. n \in Nat \ {0}
  BY DEF TypeOK
<1> SUFFICES ASSUME NEW i \in 1 .. n - 1, stack'[i].at \in Sections
             PROVE  /\ i < n - 1 => /\ stack'[i].next <= Len(Wanted(stack'[i]))
                                    /\ stack'[i + 1].def = Wanted(stack'[i])[stack'[i].next]
                    /\ i = n - 1 /\ returned' = "ok" =>
                            /\ stack'[i].next <= Len(Wanted(stack'[i]))
                            /\ latest'[Wanted(stack'[i])[stack'[i].next]] = "ok"
  BY DEF ChildInv, Wanted
<1>2. i \in 1 .. n /\ i < n /\ stack'[i] = stack[i]
  BY <1>1 DEF Kept
<1>3. /\ stack[i].next <= Len(Wanted(stack[i]))
      /\ stack[i + 1].def = Wanted(stack[i])[stack[i].next]
  BY <1>2 DEF ChildInv
<1>4. CASE i < n - 1
  <2>1. i + 1 \in 1 .. n - 1
    BY <1>1, <1>4
  <2> QED
    BY <1>2, <1>3, <1>4, <2>1 DEF Kept
<1>5. CASE i = n - 1
  <2>1. Top = stack[i + 1] /\ Top.def \in Defs
    BY <1>1, <1>5, TopType DEF Top, Frames
  <2> QED
    BY <1>2, <1>3, <1>5, <2>1
<1> QED
  BY <1>1, <1>4, <1>5

LEMMA StepInv == IInv /\ TypeOK' /\ [Next]_vars => Rest'
<1> SUFFICES ASSUME IInv, TypeOK', [Next]_vars
             PROVE  Rest'
  OBVIOUS
<1> DEFINE n == Len(stack)
<1> USE DEF Rest
<1>1. TypeOK /\ FrameInv /\ ChildInv /\ LastInv /\ GoingInv /\ MetInv /\ RolledBackOnce
  BY DEF IInv
<1>2. /\ n \in Nat /\ (n = 0 <=> stack = <<>>)
      /\ \A i \in 1 .. n : /\ stack[i] \in Frames
                          /\ stack[i].at \in Waiting \cup {"storing", "returning"}
                          /\ stack[i].next \in Nat \ {0}
                          /\ {stack[i].last, stack[i].mine} \subseteq {"ok", "error"}
  <2>1. stack \in Seq(Frames)
    BY <1>1 DEF TypeOK
  <2>2. \A f \in Frames : /\ f.at \in Waiting \cup {"storing", "returning"}
                          /\ f.next \in Nat \ {0}
                          /\ {f.last, f.mine} \subseteq {"ok", "error"}
    BY DEF Frames, Waiting
  <2> QED
    BY <2>1, <2>2
<1>3. CASE UNCHANGED vars
  <2>1. /\ stack' = stack /\ returned' = returned /\ results' = results /\ phase' = phase
        /\ history' = history
    BY <1>3 DEF vars
  <2>2. FrameInv'
    BY <1>1, <2>1 DEF results, FrameInv
  <2>3. ChildInv'
    BY <1>1, <2>1 DEF history, ChildInv, Wanted
  <2>4. LastInv'
    BY <1>1, <2>1 DEF results, history, LastInv
  <2>5. GoingInv'
    BY <1>1, <2>1 DEF results, history, GoingInv, RollingBack, Up, Top
  <2>6. MetInv'
    BY <1>1, <2>1 DEF history, MetInv, Failing, Top, Met, Behind, AllBehind
  <2>7. RolledBackOnce'
    BY <1>1, <2>1 DEF results, history, RolledBackOnce
  <2> QED
    BY <2>2, <2>3, <2>4, <2>5, <2>6, <2>7
<1>4. CASE BeginPhase
  <2>1. /\ n = 0 /\ Len(stack') = 1
        /\ stack'[1].at = "depends" /\ stack'[1].next = 1
        /\ stack'[1].last = "ok" /\ stack'[1].mine = "ok"
    <3>1. Script[phase + 1] \in Defs
      BY <1>4, <1>1, SessionAssumption DEF BeginPhase, TypeOK
    <3>2. Push(Script[phase + 1])
      BY <1>4 DEF BeginPhase
    <3>3. n = 0
      BY <1>4, <1>2 DEF BeginPhase
    <3>4. Len(stack') = 1 /\ stack'[1] = Call(Script[phase + 1])
      BY <1>1, <3>1, <3>2, <3>3, Pushed
    <3> QED
      BY <3>3, <3>4 DEF Call
  <2>2. FrameInv'
    BY <1>4, <1>1, <1>2, <2>1 DEF BeginPhase, Busy, Kept, history, FrameInv, Waiting, Sections
  <2>3. ChildInv'
    BY <1>4, <1>1, <1>2, <2>1 DEF BeginPhase, Busy, Kept, history, ChildInv, Wanted
  <2>4. LastInv'
    BY <1>4, <1>1, <1>2, <2>1 DEF BeginPhase, Busy, Kept, history, LastInv
  <2>5. GoingInv'
    BY <1>4, <1>1, <1>2, <2>1 DEF BeginPhase, Busy, Kept, history, GoingInv, RollingBack, Up, Top
  <2>6. MetInv'
    BY <1>4, <1>1, <1>2, <2>1 DEF BeginPhase, Busy, Kept, history, MetInv, Failing, Top, Met, Behind, AllBehind
  <2>7. RolledBackOnce'
    BY <1>4, <1>1, <1>2, <2>1 DEF BeginPhase, Busy, Kept, history, RolledBackOnce
  <2> QED
    BY <2>2, <2>3, <2>4, <2>5, <2>6, <2>7
<1>5. CASE SkipTask
  <2>1. PICK frame \in Frames :
          /\ Change(frame) /\ stack # <<>> /\ n \in 1 .. n
          /\ frame.def = Top.def
          /\ frame.at = Top.at
          /\ frame.next = Top.next + 1
          /\ frame.last = Top.last /\ frame.mine = Top.mine
    <3>1. Top \in Frames /\ stack # <<>> /\ n \in 1 .. n
      BY <1>5, <1>1, TopType DEF SkipTask, Busy
    <3> DEFINE new == [Top EXCEPT !.next = @ + 1]
    <3>2. new \in Frames
      BY <3>1, Updates
    <3>3. Change(new)
      BY <1>5, <3>1 DEF SkipTask
    <3>4. /\ new.def = Top.def
          /\ new.at = Top.at
          /\ new.next = Top.next + 1
          /\ new.last = Top.last /\ new.mine = Top.mine
      BY <3>1 DEF Frames
    <3> HIDE DEF new
    <3> QED
      BY <1>5, <3>1, <3>2, <3>3, <3>4
  <2>2. /\ Top = stack[n] /\ Top' = stack'[n] /\ Len(stack') = n /\ Kept /\ stack'[n] = frame
    BY <1>1, <2>1, Changed DEF Kept, Top
  <2>3. FrameInv'
    BY <1>5, <1>1, <1>2, <2>1, <2>2 DEF SkipTask, Busy, Kept, results, history, FrameInv, Waiting, Sections
  <2>4. ChildInv'
    BY <1>5, <1>1, <2>1, <2>2, ChildKept DEF SkipTask, Busy, history
  <2>5. LastInv'
    BY <1>5, <1>1, <1>2, <2>1, <2>2 DEF SkipTask, Busy, Kept, results, history, LastInv
  <2>6. GoingInv'
    <3>1. ~Up /\ Top.at # "rolling" /\ state' = state /\ forgiven' = forgiven
      BY <1>5 DEF SkipTask, Busy, InSection, Up, Sections, results, history
    <3> QED
      BY <1>1, <1>2, <2>2, <3>1, RollbackKept
  <2>7. MetInv'
    <3>1. /\ ~forgiven' /\ ~Failing' => ~forgiven /\ ~Failing /\ Top.at # "rolling"
          /\ latest' = latest
      BY <1>5, <1>1, <1>2, <2>1, <2>2 DEF SkipTask, Busy, Failing, history, FrameInv, InSection, Sections
    <3>0. \A j \in 1 .. Len(Tasks[Top.at][Top.def]) :
            j < Top.next + 1 /\ Tasks[Top.at][Top.def][j] \in Here => j < Top.next
      <4>1. Top.next \in Nat \ {0} /\ Tasks[Top.at][Top.def][Top.next] \notin Here
        BY <1>5, <1>2, <2>1, <2>2 DEF SkipTask, List
      <4>2. \A j \in Nat : j < Top.next + 1 => j < Top.next \/ j = Top.next
        BY <4>1
      <4> QED
        BY <4>1, <4>2
    <3>2. ~forgiven' /\ ~Failing' /\ Met(Top) => Met(Top)'
      <4>1. SUFFICES ASSUME Met(Top)
                   PROVE  Met(frame)'
        BY <2>2
      <4>2. latest' = latest /\ Top.at \in Sections
        BY <1>5, <3>1 DEF SkipTask, InSection
      <4>3. CASE Top.at = "depends"
        BY <2>1, <3>0, <4>1, <4>2, <4>3 DEF Met, Behind
      <4>4. CASE Top.at = "before"
        BY <2>1, <3>0, <4>1, <4>2, <4>4 DEF Met, Behind, AllBehind
      <4>5. CASE Top.at = "after"
        BY <2>1, <4>5 DEF Met
      <4> QED
        BY <4>2, <4>3, <4>4, <4>5 DEF Sections
    <3> QED
      BY <1>1, <2>1, <2>2, <3>1, <3>2, MetKept
  <2>8. RolledBackOnce'
    BY <1>5, <1>1, <1>2, <2>1, <2>2 DEF SkipTask, Busy, Kept, results, history, RolledBackOnce
  <2> QED
    BY <2>3, <2>4, <2>5, <2>6, <2>7, <2>8
<1>6. CASE RunTask
  <2>1. PICK def \in Defs : Push(def) /\ Top.next <= Len(List) /\ def = List[Top.next]
    BY <1>6, <1>1, <1>2, ListType DEF RunTask, Busy, Top
  <2>2. /\ stack # <<>> /\ n \in 1 .. n /\ Top = stack[n] /\ Top.at \in Sections
        /\ Len(stack') = n + 1 /\ Kept /\ stack'[n] = Top /\ stack'[n + 1] = Call(def)
        /\ stack'[n + 1].at = "depends" /\ stack'[n + 1].last = "ok" /\ stack'[n + 1].mine = "ok"
        /\ Top' = stack'[n + 1]
    <3>1. stack # <<>> /\ n \in 1 .. n /\ Top.at \in Sections
      BY <1>6, <1>2 DEF RunTask, Busy, InSection
    <3>2. Len(stack') = n + 1 /\ stack'[n + 1] = Call(def) /\ \A i \in 1 .. n : stack'[i] = stack[i]
      BY <1>1, <2>1, Pushed
    <3> QED
      BY <1>2, <3>1, <3>2 DEF Kept, Top, Call
  <2>3. FrameInv'
    BY <1>6, <1>1, <1>2, <2>1, <2>2 DEF RunTask, Busy, Kept, results, history, FrameInv, Waiting
  <2>4. ChildInv'
    BY <1>6, <1>1, <1>2, <2>1, <2>2, ChildPushed DEF RunTask, Busy, history, List, Wanted, Sections
  <2>5. LastInv'
    BY <1>6, <1>1, <1>2, <2>1, <2>2 DEF RunTask, Busy, Kept, results, history, LastInv
  <2>6. GoingInv'
    <3>1. ~Up /\ Top.at # "rolling" /\ state' = state /\ forgiven' = forgiven
      BY <1>6, <2>2 DEF RunTask, Busy, Up, Sections, results, history
    <3> QED
      BY <1>1, <1>2, <2>2, <3>1, RollbackKept
  <2>7. MetInv'
    BY <1>6, <1>1, <1>2, <2>1, <2>2, MetPushed DEF RunTask, Busy, history, Failing, List, Wanted, Sections
  <2>8. RolledBackOnce'
    BY <1>6, <1>1, <1>2, <2>1, <2>2 DEF RunTask, Busy, Kept, results, history, RolledBackOnce
  <2> QED
    BY <2>3, <2>4, <2>5, <2>6, <2>7, <2>8
<1>7. CASE TaskEnds /\ returned = "ok"
  <2>1. PICK frame \in Frames :
          /\ Change(frame) /\ stack # <<>> /\ n \in 1 .. n
          /\ frame.def = Top.def
          /\ frame.at = Top.at
          /\ frame.next = Top.next + 1
          /\ frame.last = Top.last /\ frame.mine = Top.mine
    <3>1. Top \in Frames /\ stack # <<>> /\ n \in 1 .. n
      BY <1>7, <1>1, TopType DEF TaskEnds
    <3> DEFINE new == [Top EXCEPT !.next = @ + 1]
    <3>2. new \in Frames
      BY <3>1, Updates
    <3>3. Change(new)
      BY <1>7, <3>1 DEF TaskEnds
    <3>4. /\ new.def = Top.def
          /\ new.at = Top.at
          /\ new.next = Top.next + 1
          /\ new.last = Top.last /\ new.mine = Top.mine
      BY <3>1 DEF Frames
    <3> HIDE DEF new
    <3> QED
      BY <1>7, <3>1, <3>2, <3>3, <3>4
  <2>2. /\ Top = stack[n] /\ Top' = stack'[n] /\ Len(stack') = n /\ Kept /\ stack'[n] = frame
    BY <1>1, <2>1, Changed DEF Kept, Top
  <2>3. FrameInv'
    BY <1>7, <1>1, <1>2, <2>1, <2>2 DEF TaskEnds, Busy, Kept, results, history, FrameInv, Waiting, Sections, LastInv
  <2>4. ChildInv'
    BY <1>7, <1>1, <2>1, <2>2, ChildKept DEF TaskEnds, history
  <2>5. LastInv'
    BY <1>7, <1>1, <1>2, <2>1, <2>2 DEF TaskEnds, Busy, Kept, results, history, LastInv
  <2>6. GoingInv'
    BY <1>7, <1>1, <1>2, <2>1, <2>2 DEF TaskEnds, Busy, Kept, results, history, GoingInv, RollingBack, Up, Top, FrameInv, InSection, Sections
  <2>7. MetInv'
    <3>1. /\ ~forgiven' /\ ~Failing' => ~forgiven /\ ~Failing /\ Top.at # "rolling"
          /\ latest' = latest
      BY <1>7, <1>1, <1>2, <2>1, <2>2 DEF TaskEnds, Failing, history, FrameInv, InSection, Sections
    <3>0. \A j \in 1 .. Len(Tasks[Top.at][Top.def]) :
            j < Top.next + 1 => j < Top.next \/ latest[Tasks[Top.at][Top.def][j]] = "ok"
      <4>1. Top.next \in Nat \ {0} /\ latest[Tasks[Top.at][Top.def][Top.next]] = "ok"
        BY <1>7, <1>1, <1>2, <2>1, <2>2 DEF TaskEnds, ChildInv, InSection, Wanted
      <4>2. \A j \in Nat : j < Top.next + 1 => j < Top.next \/ j = Top.next
        BY <4>1
      <4> QED
        BY <4>1, <4>2
    <3>2. ~forgiven' /\ ~Failing' /\ Met(Top) => Met(Top)'
      <4>1. SUFFICES ASSUME Met(Top)
                   PROVE  Met(frame)'
        BY <2>2
      <4>2. latest' = latest /\ Top.at \in Sections
        BY <1>7, <3>1 DEF TaskEnds, InSection
      <4>3. CASE Top.at = "depends"
        BY <2>1, <3>0, <4>1, <4>2, <4>3 DEF Met, Behind
      <4>4. CASE Top.at = "before"
        BY <2>1, <3>0, <4>1, <4>2, <4>4 DEF Met, Behind, AllBehind
      <4>5. CASE Top.at = "after"
        BY <2>1, <4>5 DEF Met
      <4> QED
        BY <4>2, <4>3, <4>4, <4>5 DEF Sections
    <3> QED
      BY <1>1, <2>1, <2>2, <3>1, <3>2, MetKept
  <2>8. RolledBackOnce'
    BY <1>7, <1>1, <1>2, <2>1, <2>2 DEF TaskEnds, Busy, Kept, results, history, RolledBackOnce
  <2> QED
    BY <2>3, <2>4, <2>5, <2>6, <2>7, <2>8
<1>8. CASE TaskEnds /\ returned = "error"
  <2>1. PICK frame \in Frames :
          /\ Change(frame) /\ stack # <<>> /\ n \in 1 .. n
          /\ frame.def = Top.def
          /\ frame.at = "storing"
          /\ frame.last = "error" /\ frame.mine = Top.mine
    <3>1. Top \in Frames /\ stack # <<>> /\ n \in 1 .. n
      BY <1>8, <1>1, TopType DEF TaskEnds
    <3> DEFINE new == [Top EXCEPT !.last = "error", !.at = "storing"]
    <3>2. new \in Frames
      BY <3>1, Updates
    <3>3. Change(new)
      BY <1>8, <3>1 DEF TaskEnds
    <3>4. /\ new.def = Top.def
          /\ new.at = "storing"
          /\ new.last = "error" /\ new.mine = Top.mine
      BY <3>1 DEF Frames
    <3> HIDE DEF new
    <3> QED
      BY <1>8, <3>1, <3>2, <3>3, <3>4
  <2>2. /\ Top = stack[n] /\ Top' = stack'[n] /\ Len(stack') = n /\ Kept /\ stack'[n] = frame
    BY <1>1, <2>1, Changed DEF Kept, Top
  <2>3. FrameInv'
    BY <1>8, <1>1, <1>2, <2>1, <2>2 DEF TaskEnds, Busy, Kept, results, history, FrameInv, Waiting, Sections, LastInv
  <2>4. ChildInv'
    BY <1>8, <1>1, <2>1, <2>2, ChildKept DEF TaskEnds, history
  <2>5. LastInv'
    BY <1>8, <1>1, <1>2, <2>1, <2>2 DEF TaskEnds, Busy, Kept, results, history, LastInv
  <2>6. GoingInv'
    BY <1>8, <1>1, <1>2, <2>1, <2>2 DEF TaskEnds, Busy, Kept, results, history, GoingInv, RollingBack, Up, Top, FrameInv, InSection, Sections
  <2>7. MetInv'
    <3>1. /\ ~forgiven' /\ ~Failing' => ~forgiven /\ ~Failing /\ Top.at # "rolling"
          /\ latest' = latest
      BY <1>8, <1>1, <1>2, <2>1, <2>2 DEF TaskEnds, Failing, history, FrameInv, InSection, Sections
    <3>2. ~forgiven' /\ ~Failing' /\ Met(Top) => Met(Top)'
      BY <1>8, <1>1, <1>2, <2>1, <2>2, <3>1 DEF TaskEnds, Met, Behind, AllBehind, InSection, Sections, List
    <3> QED
      BY <1>1, <2>1, <2>2, <3>1, <3>2, MetKept
  <2>8. RolledBackOnce'
    BY <1>8, <1>1, <1>2, <2>1, <2>2 DEF TaskEnds, Busy, Kept, results, history, RolledBackOnce
  <2> QED
    BY <2>3, <2>4, <2>5, <2>6, <2>7, <2>8
<1>9. CASE EndSection /\ Top.at = "depends"
  <2>1. PICK frame \in Frames :
          /\ Change(frame) /\ stack # <<>> /\ n \in 1 .. n
          /\ frame.def = Top.def
          /\ frame.at = "before" /\ frame.next = 1
          /\ frame.last = Top.last /\ frame.mine = Top.mine
    <3>1. Top \in Frames /\ stack # <<>> /\ n \in 1 .. n
      BY <1>9, <1>1, TopType DEF EndSection, Busy
    <3> DEFINE new == [Top EXCEPT !.next = 1, !.at = "before"]
    <3>2. new \in Frames
      BY <3>1, Updates
    <3>3. Change(new)
      BY <1>9, <3>1 DEF EndSection
    <3>4. /\ new.def = Top.def
          /\ new.at = "before" /\ new.next = 1
          /\ new.last = Top.last /\ new.mine = Top.mine
      BY <3>1 DEF Frames
    <3> HIDE DEF new
    <3> QED
      BY <1>9, <3>1, <3>2, <3>3, <3>4
  <2>2. /\ Top = stack[n] /\ Top' = stack'[n] /\ Len(stack') = n /\ Kept /\ stack'[n] = frame
    BY <1>1, <2>1, Changed DEF Kept, Top
  <2>3. FrameInv'
    BY <1>9, <1>1, <1>2, <2>1, <2>2 DEF EndSection, Busy, Kept, results, history, FrameInv, Waiting, Sections
  <2>4. ChildInv'
    BY <1>9, <1>1, <2>1, <2>2, ChildKept DEF EndSection, Busy, history
  <2>5. LastInv'
    BY <1>9, <1>1, <1>2, <2>1, <2>2 DEF EndSection, Busy, Kept, results, history, LastInv
  <2>6. GoingInv'
    BY <1>9, <1>1, <1>2, <2>1, <2>2 DEF EndSection, Busy, Kept, results, history, GoingInv, RollingBack, Up, Top
  <2>7. MetInv'
    <3>1. /\ ~forgiven' /\ ~Failing' => ~forgiven /\ ~Failing /\ Top.at # "rolling"
          /\ latest' = latest
      BY <1>9, <1>1, <1>2, <2>1, <2>2 DEF EndSection, Busy, Failing, history, FrameInv, InSection, Sections
    <3>0. \A j \in 1 .. Len(Tasks[Top.at][Top.def]) : j < Top.next
      <4>1. Tasks[Top.at][Top.def] \in Seq(Defs) /\ Top.next \in Nat /\ ~(Top.next <= Len(Tasks[Top.at][Top.def]))
        BY <1>9, <1>1, <1>2, <2>1, <2>2, ListType DEF EndSection, Busy, List, InSection
      <4> QED
        BY <4>1
    <3>4. \A j \in 1 .. Len(Tasks["before"][Top.def]) : ~(j < 1)
      <4>1. Top.def \in Defs
        BY <1>2, <2>1, <2>2 DEF Frames
      <4>2. Len(Tasks["before"][Top.def]) \in Nat
        BY <4>1, SessionAssumption DEF Sections
      <4> QED
        BY <4>2
    <3>2. ~forgiven' /\ ~Failing' /\ Met(Top) => Met(Top)'
      BY <1>9, <2>1, <2>2, <3>0, <3>1, <3>4 DEF Met, Behind, AllBehind
    <3> QED
      BY <1>1, <2>1, <2>2, <3>1, <3>2, MetKept
  <2>8. RolledBackOnce'
    BY <1>9, <1>1, <1>2, <2>1, <2>2 DEF EndSection, Busy, Kept, results, history, RolledBackOnce
  <2> QED
    BY <2>3, <2>4, <2>5, <2>6, <2>7, <2>8
<1>10. CASE EndSection /\ Top.at = "before"
  <2>1. PICK frame \in Frames :
          /\ Change(frame) /\ stack # <<>> /\ n \in 1 .. n
          /\ frame.def = Top.def
          /\ frame.at = "own" /\ frame.next = 1
          /\ frame.last = Top.last /\ frame.mine = Top.mine
    <3>1. Top \in Frames /\ stack # <<>> /\ n \in 1 .. n
      BY <1>10, <1>1, TopType DEF EndSection, Busy
    <3> DEFINE new == [Top EXCEPT !.next = 1, !.at = "own"]
    <3>2. new \in Frames
      BY <3>1, Updates
    <3>3. Change(new)
      BY <1>10, <3>1 DEF EndSection
    <3>4. /\ new.def = Top.def
          /\ new.at = "own" /\ new.next = 1
          /\ new.last = Top.last /\ new.mine = Top.mine
      BY <3>1 DEF Frames
    <3> HIDE DEF new
    <3> QED
      BY <1>10, <3>1, <3>2, <3>3, <3>4
  <2>2. /\ Top = stack[n] /\ Top' = stack'[n] /\ Len(stack') = n /\ Kept /\ stack'[n] = frame
    BY <1>1, <2>1, Changed DEF Kept, Top
  <2>3. FrameInv'
    BY <1>10, <1>1, <1>2, <2>1, <2>2 DEF EndSection, Busy, Kept, results, history, FrameInv, Waiting, Sections
  <2>4. ChildInv'
    BY <1>10, <1>1, <2>1, <2>2, ChildKept DEF EndSection, Busy, history
  <2>5. LastInv'
    BY <1>10, <1>1, <1>2, <2>1, <2>2 DEF EndSection, Busy, Kept, results, history, LastInv
  <2>6. GoingInv'
    BY <1>10, <1>1, <1>2, <2>1, <2>2 DEF EndSection, Busy, Kept, results, history, GoingInv, RollingBack, Up, Top
  <2>7. MetInv'
    <3>1. /\ ~forgiven' /\ ~Failing' => ~forgiven /\ ~Failing /\ Top.at # "rolling"
          /\ latest' = latest
      BY <1>10, <1>1, <1>2, <2>1, <2>2 DEF EndSection, Busy, Failing, history, FrameInv, InSection, Sections
    <3>0. \A j \in 1 .. Len(Tasks[Top.at][Top.def]) : j < Top.next
      <4>1. Tasks[Top.at][Top.def] \in Seq(Defs) /\ Top.next \in Nat /\ ~(Top.next <= Len(Tasks[Top.at][Top.def]))
        BY <1>10, <1>1, <1>2, <2>1, <2>2, ListType DEF EndSection, Busy, List, InSection
      <4> QED
        BY <4>1
    <3>2. ~forgiven' /\ ~Failing' /\ Met(Top) => Met(Top)'
      BY <1>10, <2>1, <2>2, <3>0, <3>1 DEF Met, Behind, AllBehind
    <3> QED
      BY <1>1, <2>1, <2>2, <3>1, <3>2, MetKept
  <2>8. RolledBackOnce'
    BY <1>10, <1>1, <1>2, <2>1, <2>2 DEF EndSection, Busy, Kept, results, history, RolledBackOnce
  <2> QED
    BY <2>3, <2>4, <2>5, <2>6, <2>7, <2>8
<1>11. CASE EndSection /\ Top.at = "after"
  <2>1. PICK frame \in Frames :
          /\ Change(frame) /\ stack # <<>> /\ n \in 1 .. n
          /\ frame.def = Top.def
          /\ frame.at = "storing" /\ frame.next = 1
          /\ frame.last = Top.last /\ frame.mine = Top.mine
    <3>1. Top \in Frames /\ stack # <<>> /\ n \in 1 .. n
      BY <1>11, <1>1, TopType DEF EndSection, Busy
    <3> DEFINE new == [Top EXCEPT !.next = 1, !.at = "storing"]
    <3>2. new \in Frames
      BY <3>1, Updates
    <3>3. Change(new)
      BY <1>11, <3>1 DEF EndSection
    <3>4. /\ new.def = Top.def
          /\ new.at = "storing" /\ new.next = 1
          /\ new.last = Top.last /\ new.mine = Top.mine
      BY <3>1 DEF Frames
    <3> HIDE DEF new
    <3> QED
      BY <1>11, <3>1, <3>2, <3>3, <3>4
  <2>2. /\ Top = stack[n] /\ Top' = stack'[n] /\ Len(stack') = n /\ Kept /\ stack'[n] = frame
    BY <1>1, <2>1, Changed DEF Kept, Top
  <2>3. FrameInv'
    BY <1>11, <1>1, <1>2, <2>1, <2>2 DEF EndSection, Busy, Kept, results, history, FrameInv, Waiting, Sections
  <2>4. ChildInv'
    BY <1>11, <1>1, <2>1, <2>2, ChildKept DEF EndSection, Busy, history
  <2>5. LastInv'
    BY <1>11, <1>1, <1>2, <2>1, <2>2 DEF EndSection, Busy, Kept, results, history, LastInv
  <2>6. GoingInv'
    BY <1>11, <1>1, <1>2, <2>1, <2>2 DEF EndSection, Busy, Kept, results, history, GoingInv, RollingBack, Up, Top
  <2>7. MetInv'
    <3>1. /\ ~forgiven' /\ ~Failing' => ~forgiven /\ ~Failing /\ Top.at # "rolling"
          /\ latest' = latest
      BY <1>11, <1>1, <1>2, <2>1, <2>2 DEF EndSection, Busy, Failing, history, FrameInv, InSection, Sections
    <3>2. ~forgiven' /\ ~Failing' /\ Met(Top) => Met(Top)'
      BY <1>11, <1>1, <1>2, <2>1, <2>2, <3>1 DEF EndSection, Busy, Met, Behind, AllBehind, InSection, Sections, List
    <3> QED
      BY <1>1, <2>1, <2>2, <3>1, <3>2, MetKept
  <2>8. RolledBackOnce'
    BY <1>11, <1>1, <1>2, <2>1, <2>2 DEF EndSection, Busy, Kept, results, history, RolledBackOnce
  <2> QED
    BY <2>3, <2>4, <2>5, <2>6, <2>7, <2>8
<1>12. CASE CallableOk
  <2>1. PICK frame \in Frames :
          /\ Change(frame) /\ stack # <<>> /\ n \in 1 .. n
          /\ frame.def = Top.def
          /\ frame.at = Top.at
          /\ frame.last = Top.last /\ frame.mine = Top.mine
    <3>1. Top \in Frames /\ stack # <<>> /\ n \in 1 .. n
      BY <1>12, <1>1, TopType DEF CallableOk, Busy
    <3> DEFINE new == [Top EXCEPT !.next = @ + 1, !.inner = 0]
    <3>2. new \in Frames
      BY <3>1, Updates
    <3>3. Change(new)
      BY <1>12, <3>1 DEF CallableOk
    <3>4. /\ new.def = Top.def
          /\ new.at = Top.at
          /\ new.last = Top.last /\ new.mine = Top.mine
      BY <3>1 DEF Frames
    <3> HIDE DEF new
    <3> QED
      BY <1>12, <3>1, <3>2, <3>3, <3>4
  <2>2. /\ Top = stack[n] /\ Top' = stack'[n] /\ Len(stack') = n /\ Kept /\ stack'[n] = frame
    BY <1>1, <2>1, Changed DEF Kept, Top
  <2>3. FrameInv'
    BY <1>12, <1>1, <1>2, <2>1, <2>2 DEF CallableOk, Busy, Kept, results, history, FrameInv, Waiting, Sections
  <2>4. ChildInv'
    BY <1>12, <1>1, <2>1, <2>2, ChildKept DEF CallableOk, Busy, history
  <2>5. LastInv'
    BY <1>12, <1>1, <1>2, <2>1, <2>2 DEF CallableOk, Busy, Kept, results, history, LastInv
  <2>6. GoingInv'
    BY <1>12, <1>1, <1>2, <2>1, <2>2 DEF CallableOk, Busy, Kept, results, history, GoingInv, RollingBack, Up, Top
  <2>7. MetInv'
    <3>1. /\ ~forgiven' /\ ~Failing' => ~forgiven /\ ~Failing /\ Top.at # "rolling"
          /\ latest' = latest
      BY <1>12, <1>1, <1>2, <2>1, <2>2 DEF CallableOk, Busy, Failing, history, FrameInv, InSection, Sections
    <3>2. ~forgiven' /\ ~Failing' /\ Met(Top) => Met(Top)'
      BY <1>12, <1>1, <1>2, <2>1, <2>2, <3>1 DEF CallableOk, Busy, Met, Behind, AllBehind, InSection, Sections, List
    <3> QED
      BY <1>1, <2>1, <2>2, <3>1, <3>2, MetKept
  <2>8. RolledBackOnce'
    BY <1>12, <1>1, <1>2, <2>1, <2>2 DEF CallableOk, Busy, Kept, results, history, RolledBackOnce
  <2> QED
    BY <2>3, <2>4, <2>5, <2>6, <2>7, <2>8
<1>13. CASE CallableFails
  <2>1. PICK frame \in Frames :
          /\ Change(frame) /\ stack # <<>> /\ n \in 1 .. n
          /\ frame.def = Top.def
          /\ frame.at = "storing"
          /\ frame.last = "error" /\ frame.mine = "error"
    <3>1. Top \in Frames /\ stack # <<>> /\ n \in 1 .. n
      BY <1>13, <1>1, TopType DEF CallableFails, Busy
    <3> DEFINE new == [Top EXCEPT !.mine = "error", !.last = "error", !.at = "storing"]
    <3>2. new \in Frames
      BY <3>1, Updates
    <3>3. Change(new)
      BY <1>13, <3>1 DEF CallableFails
    <3>4. /\ new.def = Top.def
          /\ new.at = "storing"
          /\ new.last = "error" /\ new.mine = "error"
      BY <3>1 DEF Frames
    <3> HIDE DEF new
    <3> QED
      BY <1>13, <3>1, <3>2, <3>3, <3>4
  <2>2. /\ Top = stack[n] /\ Top' = stack'[n] /\ Len(stack') = n /\ Kept /\ stack'[n] = frame
    BY <1>1, <2>1, Changed DEF Kept, Top
  <2>3. FrameInv'
    BY <1>13, <1>1, <1>2, <2>1, <2>2 DEF CallableFails, Busy, Kept, results, history, FrameInv, Waiting, Sections
  <2>4. ChildInv'
    BY <1>13, <1>1, <2>1, <2>2, ChildKept DEF CallableFails, Busy, history
  <2>5. LastInv'
    BY <1>13, <1>1, <1>2, <2>1, <2>2 DEF CallableFails, Busy, Kept, results, history, LastInv
  <2>6. GoingInv'
    BY <1>13, <1>1, <1>2, <2>1, <2>2 DEF CallableFails, Busy, Kept, results, history, GoingInv, RollingBack, Up, Top
  <2>7. MetInv'
    <3>1. /\ ~forgiven' /\ ~Failing' => ~forgiven /\ ~Failing /\ Top.at # "rolling"
          /\ latest' = latest
      BY <1>13, <1>1, <1>2, <2>1, <2>2 DEF CallableFails, Busy, Failing, history, FrameInv, InSection, Sections
    <3>2. ~forgiven' /\ ~Failing' /\ Met(Top) => Met(Top)'
      BY <1>13, <1>1, <1>2, <2>1, <2>2, <3>1 DEF CallableFails, Busy, Met, Behind, AllBehind, InSection, Sections, List
    <3> QED
      BY <1>1, <2>1, <2>2, <3>1, <3>2, MetKept
  <2>8. RolledBackOnce'
    BY <1>13, <1>1, <1>2, <2>1, <2>2 DEF CallableFails, Busy, Kept, results, history, RolledBackOnce
  <2> QED
    BY <2>3, <2>4, <2>5, <2>6, <2>7, <2>8
<1>14. CASE CallableRuns
  <2>1. PICK def \in Defs : PushAfter([Top EXCEPT !.inner = @ + 1], def)
    <3>1. Top \in Frames
      BY <1>14, <1>1, TopType DEF CallableRuns, Busy
    <3>2. Inner[Top.def] \subseteq Defs
      BY <3>1, SessionAssumption DEF Frames
    <3> QED
      BY <1>14, <3>2 DEF CallableRuns
  <2>2. /\ stack # <<>> /\ n \in 1 .. n /\ Top = stack[n] /\ Top.at = "own"
        /\ Len(stack') = n + 1 /\ Kept /\ stack'[n + 1] = Call(def)
        /\ stack'[n].def = Top.def /\ stack'[n].at = Top.at /\ stack'[n].next = Top.next
        /\ stack'[n].last = Top.last /\ stack'[n].mine = Top.mine
        /\ stack'[n + 1].at = "depends" /\ stack'[n + 1].last = "ok" /\ stack'[n + 1].mine = "ok"
        /\ Top' = stack'[n + 1]
    <3>1. stack # <<>> /\ n \in 1 .. n /\ Top \in Frames /\ Top.at = "own" /\ Top.inner < MaxInner
      BY <1>14, <1>1, TopType DEF CallableRuns, Busy
    <3> DEFINE new == [Top EXCEPT !.inner = @ + 1]
    <3>4. new \in Frames
      BY <3>1, Updates
    <3>2. /\ new.def = Top.def /\ new.at = Top.at /\ new.next = Top.next
          /\ new.last = Top.last /\ new.mine = Top.mine
      BY <3>1 DEF Frames
    <3> HIDE DEF new
    <3>3. /\ Len(stack') = n + 1 /\ stack'[n] = new /\ stack'[n + 1] = Call(def)
          /\ \A i \in 1 .. n - 1 : stack'[i] = stack[i]
      BY <1>1, <2>1, <3>1, <3>4, PushedAfter DEF new
    <3> QED
      BY <1>2, <3>1, <3>2, <3>3 DEF Kept, Top, Call
  <2>3. FrameInv'
    BY <1>14, <1>1, <1>2, <2>1, <2>2 DEF CallableRuns, Busy, Kept, results, history, FrameInv, Waiting, Sections
  <2>4. ChildInv'
    BY <1>14, <1>1, <1>2, <2>1, <2>2, ChildPushed DEF CallableRuns, Busy, history, Wanted, Sections
  <2>5. LastInv'
    BY <1>14, <1>1, <1>2, <2>1, <2>2 DEF CallableRuns, Busy, Kept, results, history, LastInv
  <2>6. GoingInv'
    BY <1>14, <1>1, <1>2, <2>1, <2>2 DEF CallableRuns, Busy, Kept, results, history, GoingInv, RollingBack, Up, Top
  <2>7. MetInv'
    BY <1>14, <1>1, <1>2, <2>1, <2>2, MetPushed DEF CallableRuns, Busy, history, Failing, Wanted, Sections
  <2>8. RolledBackOnce'
    BY <1>14, <1>1, <1>2, <2>1, <2>2 DEF CallableRuns, Busy, Kept, results, history, RolledBackOnce
  <2> QED
    BY <2>3, <2>4, <2>5, <2>6, <2>7, <2>8
<1>15. CASE InnerEnds
  <2>1. /\ stack' = stack /\ n \in 1 .. n /\ Top = stack[n] /\ Top' = Top
        /\ ~forgiven' => ~forgiven /\ returned = "ok"
    <3>1. stack # <<>> /\ stack' = stack /\ Top' = Top
      BY <1>15 DEF InnerEnds, Top
    <3>2. ~forgiven' => ~forgiven /\ returned = "ok"
      BY <1>15, <1>1 DEF InnerEnds, TypeOK
    <3> QED
      BY <1>2, <3>1, <3>2 DEF Top
  <2>2. FrameInv'
    BY <1>15, <1>1, <1>2, <2>1 DEF InnerEnds, Busy, Kept, results, FrameInv, Waiting, Sections
  <2>3. ChildInv'
    BY <1>15, <1>1, <1>2, <2>1 DEF InnerEnds, Busy, Kept, results, ChildInv, Wanted
  <2>4. LastInv'
    BY <1>15, <1>1, <1>2, <2>1 DEF InnerEnds, Busy, Kept, results, LastInv
  <2>5. GoingInv'
    BY <1>15, <1>1, <1>2, <2>1 DEF InnerEnds, Busy, Kept, results, GoingInv, RollingBack, Up, Top
  <2>6. MetInv'
    <3>1. ~forgiven' => ~forgiven /\ ~Failing /\ Top.at # "rolling"
      BY <1>15, <2>1 DEF InnerEnds, Failing
    <3>2. latest' = latest /\ Kept /\ Len(stack') = Len(stack) /\ stack # <<>>
      BY <1>15, <2>1 DEF InnerEnds, Kept
    <3>3. Met(Top) => Met(Top)'
      BY <2>1, <3>2 DEF Met, Behind, AllBehind
    <3> QED
      BY <1>1, <3>1, <3>2, <3>3, MetKept
  <2>7. RolledBackOnce'
    BY <1>15, <1>1, <1>2, <2>1 DEF InnerEnds, Busy, Kept, results, RolledBackOnce
  <2> QED
    BY <2>2, <2>3, <2>4, <2>5, <2>6, <2>7
<1>16. CASE EndOwn
  <2>1. PICK frame \in Frames :
          /\ Change(frame) /\ stack # <<>> /\ n \in 1 .. n
          /\ frame.def = Top.def
          /\ frame.at = "after"
          /\ frame.last = Top.last /\ frame.mine = Top.mine
    <3>1. Top \in Frames /\ stack # <<>> /\ n \in 1 .. n
      BY <1>16, <1>1, TopType DEF EndOwn, Busy
    <3> DEFINE new == [Top EXCEPT !.next = 1, !.inner = 0, !.at = "after"]
    <3>2. new \in Frames
      BY <3>1, Updates
    <3>3. Change(new)
      BY <1>16, <3>1 DEF EndOwn
    <3>4. /\ new.def = Top.def
          /\ new.at = "after"
          /\ new.last = Top.last /\ new.mine = Top.mine
      BY <3>1 DEF Frames
    <3> HIDE DEF new
    <3> QED
      BY <1>16, <3>1, <3>2, <3>3, <3>4
  <2>2. /\ Top = stack[n] /\ Top' = stack'[n] /\ Len(stack') = n /\ Kept /\ stack'[n] = frame
    BY <1>1, <2>1, Changed DEF Kept, Top
  <2>3. FrameInv'
    BY <1>16, <1>1, <1>2, <2>1, <2>2 DEF EndOwn, Busy, Kept, results, history, FrameInv, Waiting, Sections
  <2>4. ChildInv'
    BY <1>16, <1>1, <2>1, <2>2, ChildKept DEF EndOwn, Busy, history
  <2>5. LastInv'
    BY <1>16, <1>1, <1>2, <2>1, <2>2 DEF EndOwn, Busy, Kept, results, history, LastInv
  <2>6. GoingInv'
    BY <1>16, <1>1, <1>2, <2>1, <2>2 DEF EndOwn, Busy, Kept, results, history, GoingInv, RollingBack, Up, Top
  <2>7. MetInv'
    <3>1. /\ ~forgiven' /\ ~Failing' => ~forgiven /\ ~Failing /\ Top.at # "rolling"
          /\ latest' = latest
      BY <1>16, <1>1, <1>2, <2>1, <2>2 DEF EndOwn, Busy, Failing, history, FrameInv, InSection, Sections
    <3>2. ~forgiven' /\ ~Failing' /\ Met(Top) => Met(Top)'
      BY <1>16, <1>1, <1>2, <2>1, <2>2, <3>1 DEF EndOwn, Busy, Met, Behind, AllBehind, InSection, Sections, List
    <3> QED
      BY <1>1, <2>1, <2>2, <3>1, <3>2, MetKept
  <2>8. RolledBackOnce'
    BY <1>16, <1>1, <1>2, <2>1, <2>2 DEF EndOwn, Busy, Kept, results, history, RolledBackOnce
  <2> QED
    BY <2>3, <2>4, <2>5, <2>6, <2>7, <2>8
<1>17. CASE Store
  <2>1. PICK frame \in Frames :
          /\ Change(frame) /\ stack # <<>> /\ n \in 1 .. n
          /\ frame.def = Top.def
          /\ frame.at = "returning"
          /\ frame.last = Top.last /\ frame.mine = Top.mine
    <3>1. Top \in Frames /\ stack # <<>> /\ n \in 1 .. n
      BY <1>17, <1>1, TopType DEF Store, Busy
    <3> DEFINE new == [Top EXCEPT !.at = "returning"]
    <3>2. new \in Frames
      BY <3>1, Updates
    <3>3. Change(new)
      BY <1>17, <3>1 DEF Store
    <3>4. /\ new.def = Top.def
          /\ new.at = "returning"
          /\ new.last = Top.last /\ new.mine = Top.mine
      BY <3>1 DEF Frames
    <3> HIDE DEF new
    <3> QED
      BY <1>17, <3>1, <3>2, <3>3, <3>4
  <2>2. /\ Top = stack[n] /\ Top' = stack'[n] /\ Len(stack') = n /\ Kept /\ stack'[n] = frame
    BY <1>1, <2>1, Changed DEF Kept, Top
  <2>3. FrameInv'
    BY <1>17, <1>1, <1>2, <2>1, <2>2 DEF Store, Busy, Kept, history, StoreResult, FrameInv, Waiting, Sections
  <2>4. ChildInv'
    BY <1>17, <1>1, <2>1, <2>2, ChildKept DEF Store, Busy, history
  <2>5. LastInv'
    BY <1>17, <1>1, <1>2, <2>1, <2>2 DEF Store, Busy, Kept, history, StoreResult, LastInv
  <2>6. GoingInv'
    BY <1>17, <1>1, <1>2, <2>1, <2>2 DEF Store, Busy, Kept, history, StoreResult, GoingInv, RollingBack, Up, Top
  <2>7. MetInv'
    <3>1. /\ ~forgiven' /\ ~Failing' => ~forgiven /\ ~Failing /\ Top.at # "rolling"
          /\ latest' = latest
      BY <1>17, <1>1, <1>2, <2>1, <2>2 DEF Store, Busy, Failing, history, FrameInv, InSection, Sections
    <3>2. ~forgiven' /\ ~Failing' /\ Met(Top) => Met(Top)'
      BY <1>17, <1>1, <1>2, <2>1, <2>2, <3>1 DEF Store, Busy, Met, Behind, AllBehind, InSection, Sections, List
    <3> QED
      BY <1>1, <2>1, <2>2, <3>1, <3>2, MetKept
  <2>8. RolledBackOnce'
    BY <1>17, <1>1, <1>2, <2>1, <2>2 DEF Store, Busy, Kept, history, StoreResult, RolledBackOnce
  <2> QED
    BY <2>3, <2>4, <2>5, <2>6, <2>7, <2>8
<1>18. CASE StoreFailure /\ Rollback[Top.def] = NoDef
  <2>1. PICK frame \in Frames :
          /\ Change(frame) /\ stack # <<>> /\ n \in 1 .. n
          /\ frame.def = Top.def
          /\ frame.at = "returning"
          /\ frame.last = Top.last /\ frame.mine = Top.mine
    <3>1. Top \in Frames /\ stack # <<>> /\ n \in 1 .. n
      BY <1>18, <1>1, TopType DEF StoreFailure, Busy
    <3> DEFINE new == [Top EXCEPT !.at = "returning"]
    <3>2. new \in Frames
      BY <3>1, Updates
    <3>3. Change(new)
      BY <1>18, <3>1 DEF StoreFailure
    <3>4. /\ new.def = Top.def
          /\ new.at = "returning"
          /\ new.last = Top.last /\ new.mine = Top.mine
      BY <3>1 DEF Frames
    <3> HIDE DEF new
    <3> QED
      BY <1>18, <3>1, <3>2, <3>3, <3>4
  <2>2. /\ Top = stack[n] /\ Top' = stack'[n] /\ Len(stack') = n /\ Kept /\ stack'[n] = frame
    BY <1>1, <2>1, Changed DEF Kept, Top
  <2>3. FrameInv'
    BY <1>18, <1>1, <1>2, <2>1, <2>2 DEF StoreFailure, Busy, Kept, results, history, FrameInv, Waiting, Sections
  <2>4. ChildInv'
    BY <1>18, <1>1, <2>1, <2>2, ChildKept DEF StoreFailure, Busy, history
  <2>5. LastInv'
    <3>1. Top.def # NoDef
      BY <1>18, <1>1, TopType, SessionAssumption DEF Frames, StoreFailure, Busy
    <3> QED
      BY <1>18, <1>1, <3>1 DEF LastInv, StoreFailure, StoreResult, Busy
  <2>6. GoingInv'
    BY <1>18, <1>1, <1>2, <2>1, <2>2 DEF StoreFailure, Busy, Kept, results, history, GoingInv, RollingBack, Up, Top, FrameInv
  <2>7. MetInv'
    <3>1. /\ ~forgiven' /\ ~Failing' => ~forgiven /\ ~Failing /\ Top.at # "rolling"
          /\ latest' = latest
      BY <1>18, <1>1, <1>2, <2>1, <2>2 DEF StoreFailure, Busy, Failing, history, FrameInv, InSection, Sections
    <3>2. ~forgiven' /\ ~Failing' /\ Met(Top) => Met(Top)'
      BY <1>18, <1>1, <1>2, <2>1, <2>2, <3>1 DEF StoreFailure, Busy, Met, Behind, AllBehind, InSection, Sections, List
    <3> QED
      BY <1>1, <2>1, <2>2, <3>1, <3>2, MetKept
  <2>8. RolledBackOnce'
    <3>1. culprit = NoDef => ~RollingBack /\ undone = <<>>
      BY <1>1 DEF LastInv, FrameInv, RollingBack
    <3>2. culprit # NoDef /\ ~forgiven => RollingBack
      BY <1>18, <1>1 DEF LastInv, GoingInv, Up, StoreFailure, Busy
    <3>3. Top.def # NoDef
      BY <1>18, <1>1, TopType, SessionAssumption DEF Frames, StoreFailure, Busy
    <3>4. undone = <<>> => Append(undone, Top.def) = <<Top.def>>
      OBVIOUS
    <3> QED
      BY <1>18, <1>1, <3>1, <3>2, <3>3, <3>4 DEF RolledBackOnce, StoreFailure
  <2> QED
    BY <2>3, <2>4, <2>5, <2>6, <2>7, <2>8
<1>19. CASE StoreFailure /\ Rollback[Top.def] # NoDef
  <2>1. PICK def \in Defs : PushAfter([Top EXCEPT !.at = "rolling"], def)
    <3>1. Top \in Frames
      BY <1>19, <1>1, TopType DEF StoreFailure, Busy
    <3>2. Rollback[Top.def] \in Defs
      BY <1>19, <3>1, SessionAssumption DEF Frames
    <3> QED
      BY <1>19, <3>2 DEF StoreFailure
  <2>2. /\ stack # <<>> /\ n \in 1 .. n /\ Top = stack[n]
        /\ Len(stack') = n + 1 /\ Kept /\ stack'[n + 1] = Call(def)
        /\ stack'[n].def = Top.def /\ stack'[n].at = "rolling"
        /\ stack'[n].last = Top.last /\ stack'[n].mine = Top.mine
        /\ stack'[n + 1].at = "depends" /\ stack'[n + 1].last = "ok" /\ stack'[n + 1].mine = "ok"
        /\ Top' = stack'[n + 1]
    <3>1. stack # <<>> /\ n \in 1 .. n /\ Top \in Frames
      BY <1>19, <1>1, TopType DEF StoreFailure, Busy
    <3> DEFINE new == [Top EXCEPT !.at = "rolling"]
    <3>4. new \in Frames
      BY <3>1, Updates
    <3>2. /\ new.def = Top.def /\ new.at = "rolling"
          /\ new.last = Top.last /\ new.mine = Top.mine
      BY <3>1 DEF Frames
    <3> HIDE DEF new
    <3>3. /\ Len(stack') = n + 1 /\ stack'[n] = new /\ stack'[n + 1] = Call(def)
          /\ \A i \in 1 .. n - 1 : stack'[i] = stack[i]
      BY <1>1, <2>1, <3>1, <3>4, PushedAfter DEF new
    <3> QED
      BY <1>2, <3>1, <3>2, <3>3 DEF Kept, Top, Call
  <2>3. FrameInv'
    BY <1>19, <1>1, <1>2, <2>1, <2>2 DEF StoreFailure, Busy, Kept, history, FrameInv, Waiting, Sections
  <2>4. ChildInv'
    BY <1>19, <1>1, <1>2, <2>1, <2>2, ChildPushed DEF StoreFailure, Busy, history, Wanted, Sections
  <2>5. LastInv'
    <3>1. Top.def # NoDef
      BY <1>19, <1>1, TopType, SessionAssumption DEF Frames, StoreFailure, Busy
    <3> QED
      BY <1>19, <1>1, <3>1 DEF LastInv, StoreFailure, StoreResult, Busy
  <2>6. GoingInv'
    BY <1>19, <1>1, <1>2, <2>1, <2>2 DEF StoreFailure, Busy, Kept, history, GoingInv, RollingBack, Up, Top, FrameInv
  <2>7. MetInv'
    BY <1>19, <1>1, <1>2, <2>1, <2>2, MetPushed DEF StoreFailure, Busy, history, Failing, Wanted, Sections
  <2>8. RolledBackOnce'
    <3>1. culprit = NoDef => ~RollingBack /\ undone = <<>>
      BY <1>1 DEF LastInv, FrameInv, RollingBack
    <3>2. culprit # NoDef /\ ~forgiven => RollingBack
      BY <1>19, <1>1 DEF LastInv, GoingInv, Up, StoreFailure, Busy
    <3>3. Top.def # NoDef
      BY <1>19, <1>1, TopType, SessionAssumption DEF Frames, StoreFailure, Busy
    <3>4. undone = <<>> => Append(undone, Top.def) = <<Top.def>>
      OBVIOUS
    <3> QED
      BY <1>19, <1>1, <3>1, <3>2, <3>3, <3>4 DEF RolledBackOnce, StoreFailure
  <2> QED
    BY <2>3, <2>4, <2>5, <2>6, <2>7, <2>8
<1>20. CASE RollbackEnds
  <2>1. PICK frame \in Frames :
          /\ Change(frame) /\ stack # <<>> /\ n \in 1 .. n
          /\ frame.def = Top.def
          /\ frame.at = "returning"
          /\ frame.last = Top.last /\ frame.mine = Top.mine
    <3>1. Top \in Frames /\ stack # <<>> /\ n \in 1 .. n
      BY <1>20, <1>1, TopType DEF RollbackEnds
    <3> DEFINE new == [Top EXCEPT !.at = "returning"]
    <3>2. new \in Frames
      BY <3>1, Updates
    <3>3. Change(new)
      BY <1>20, <3>1 DEF RollbackEnds
    <3>4. /\ new.def = Top.def
          /\ new.at = "returning"
          /\ new.last = Top.last /\ new.mine = Top.mine
      BY <3>1 DEF Frames
    <3> HIDE DEF new
    <3> QED
      BY <1>20, <3>1, <3>2, <3>3, <3>4
  <2>2. /\ Top = stack[n] /\ Top' = stack'[n] /\ Len(stack') = n /\ Kept /\ stack'[n] = frame
    BY <1>1, <2>1, Changed DEF Kept, Top
  <2>3. FrameInv'
    BY <1>20, <1>1, <1>2, <2>1, <2>2 DEF RollbackEnds, Busy, Kept, results, history, FrameInv, Waiting, Sections
  <2>4. ChildInv'
    BY <1>20, <1>1, <2>1, <2>2, ChildKept DEF RollbackEnds, history
  <2>5. LastInv'
    BY <1>20, <1>1, <1>2, <2>1, <2>2 DEF RollbackEnds, Busy, Kept, results, history, LastInv
  <2>6. GoingInv'
    BY <1>20, <1>1, <1>2, <2>1, <2>2 DEF RollbackEnds, Busy, Kept, results, history, GoingInv, RollingBack, Up, Top, FrameInv
  <2>7. MetInv'
    <3>1. /\ ~forgiven' /\ ~Failing' => ~forgiven /\ ~Failing /\ Top.at # "rolling"
          /\ latest' = latest
      BY <1>20, <1>1, <1>2, <2>1, <2>2 DEF RollbackEnds, Failing, history, FrameInv, InSection, Sections
    <3>2. ~forgiven' /\ ~Failing' /\ Met(Top) => Met(Top)'
      BY <1>20, <1>1, <1>2, <2>1, <2>2, <3>1 DEF RollbackEnds, Met, Behind, AllBehind, InSection, Sections, List
    <3> QED
      BY <1>1, <2>1, <2>2, <3>1, <3>2, MetKept
  <2>8. RolledBackOnce'
    BY <1>20, <1>1, <1>2, <2>1, <2>2 DEF RollbackEnds, Busy, Kept, results, history, RolledBackOnce
  <2> QED
    BY <2>3, <2>4, <2>5, <2>6, <2>7, <2>8
<1>21. CASE CallableThrows
  <2>1. /\ stack # <<>> /\ Len(stack') = n - 1 /\ Kept
        /\ n \in 1 .. n /\ Top = stack[n]
        /\ \A i \in 1 .. n - 1 : i \in 1 .. n /\ i < n /\ (i < n - 1 => i + 1 \in 1 .. n - 1)
    BY <1>21, <1>1, <1>2, Popped DEF CallableThrows, Busy, Kept, Top
  <2>2. FrameInv'
    BY <1>21, <1>1, <1>2, <2>1, FramePopped DEF CallableThrows, results
  <2>3. ChildInv'
    BY <1>21, <1>1, <2>1, ChildPopped DEF CallableThrows, Busy
  <2>4. LastInv'
    BY <1>21, <1>1, <1>2, <2>1 DEF CallableThrows, Busy, Kept, results, history, LastInv
  <2>5. GoingInv'
    BY <1>21 DEF CallableThrows, GoingInv, Up
  <2>6. MetInv'
    BY <1>21, <1>1, <1>2, <2>1 DEF CallableThrows, Busy, Kept, results, history, MetInv, Failing, Top, Met, Behind, AllBehind
  <2>7. RolledBackOnce'
    BY <1>21, <1>1, <1>2, <2>1 DEF CallableThrows, Busy, Kept, results, history, RolledBackOnce
  <2> QED
    BY <2>2, <2>3, <2>4, <2>5, <2>6, <2>7
<1>22. CASE Return
  <2>1. /\ stack # <<>> /\ Len(stack') = n - 1 /\ Kept
        /\ n \in 1 .. n /\ Top = stack[n]
        /\ \A i \in 1 .. n - 1 : i \in 1 .. n /\ i < n /\ (i < n - 1 => i + 1 \in 1 .. n - 1)
    BY <1>22, <1>1, <1>2, Popped DEF Return, Busy, Kept, Top
  <2>2. FrameInv'
    BY <1>22, <1>1, <1>2, <2>1 DEF Return, Busy, Kept, results, FrameInv, Waiting, Sections
  <2>3. ChildInv'
    BY <1>22, <1>1, <2>1, <1>2, ChildPopped DEF Return, Busy, TypeOK
  <2>4. LastInv'
    BY <1>22, <1>1, <1>2, <2>1 DEF Return, Busy, Kept, results, LastInv, FrameInv
  <2>5. GoingInv'
    BY <1>22, <1>1, <1>2, <2>1 DEF Return, Busy, Kept, results, GoingInv, RollingBack, Up, Top
  <2>6. MetInv'
    <3>1. SUFFICES ASSUME ~forgiven', ~Failing', NEW i \in 1 .. n - 1,
                          \A k \in i .. n - 1 : stack'[k].at # "rolling"
                   PROVE  Met(stack[i])'
      BY <2>1 DEF MetInv, Kept
    <3>2. Top.last = "ok" /\ Top.at = "returning" /\ ~forgiven /\ ~Failing
      BY <1>22, <1>1, <1>2, <2>1, <3>1 DEF Return, Busy, Failing
    <3>3. \A k \in i .. n : k = n \/ (k \in i .. n - 1 /\ k \in 1 .. n - 1)
      BY <1>2
    <3>4. \A k \in i .. n : stack[k].at # "rolling"
      BY <2>1, <3>1, <3>2, <3>3 DEF Kept
    <3>5. Met(stack[i])
      BY <1>1, <2>1, <3>2, <3>4 DEF MetInv
    <3>6. \A d : latest[d] = "ok" => latest'[d] = "ok"
      BY <1>22, <1>1, <3>2 DEF Return, TypeOK
    <3>7. stack'[i] = stack[i]
      BY <2>1 DEF Kept
    <3> QED
      BY <3>5, <3>6, <3>7 DEF Met, Behind, AllBehind
  <2>7. RolledBackOnce'
    BY <1>22, <1>1, <1>2, <2>1 DEF Return, Busy, Kept, results, RolledBackOnce
  <2> QED
    BY <2>2, <2>3, <2>4, <2>5, <2>6, <2>7
<1>23. CASE Unwind
  <2>1. /\ stack # <<>> /\ Len(stack') = n - 1 /\ Kept
        /\ n \in 1 .. n /\ Top = stack[n]
        /\ \A i \in 1 .. n - 1 : i \in 1 .. n /\ i < n /\ (i < n - 1 => i + 1 \in 1 .. n - 1)
    BY <1>23, <1>1, <1>2, Popped DEF Unwind, Busy, Kept, Top
  <2>2. FrameInv'
    BY <1>23, <1>1, <1>2, <2>1, FramePopped DEF Unwind, results
  <2>3. ChildInv'
    BY <1>23, <1>1, <2>1, ChildPopped DEF Unwind, Busy
  <2>4. LastInv'
    BY <1>23, <1>1, <1>2, <2>1 DEF Unwind, Busy, Kept, results, history, LastInv
  <2>5. GoingInv'
    BY <1>23 DEF Unwind, GoingInv, Up
  <2>6. MetInv'
    BY <1>23, <1>1, <1>2, <2>1 DEF Unwind, Busy, Kept, results, history, MetInv, Failing, Top, Met, Behind, AllBehind
  <2>7. RolledBackOnce'
    BY <1>23, <1>1, <1>2, <2>1 DEF Unwind, Busy, Kept, results, history, RolledBackOnce
  <2> QED
    BY <2>2, <2>3, <2>4, <2>5, <2>6, <2>7
<1>24. (TaskEnds => returned \in {"ok", "error"}) /\ (EndSection => Top.at \in Sections)
  BY DEF TaskEnds, EndSection, InSection
<1> QED
  BY <1>3, <1>4, <1>5, <1>6, <1>7, <1>8, <1>9, <1>10, <1>11, <1>12, <1>13, <1>14, <1>15, <1>16, <1>17, <1>18, <1>19, <1>20, <1>21, <1>22, <1>23, <1>24 DEF Next, Sections

-----------------------------------------------------------------------------
LEMMA Inductive == Spec => []IInv
<1>1. IInv /\ [Next]_vars => IInv'
  BY TypeNext, StepInv DEF IInv, Rest
<1> QED
  BY InitInv, <1>1, PTL DEF Spec

\* Every variable keeps its type, whatever the definitions are.
THEOREM TypeCorrect == Spec => []TypeOK
<1>1. IInv => TypeOK
  BY DEF IInv
<1> QED
  BY <1>1, Inductive, PTL

\* A failure that is left, and nothing forgiven, is on its way down the stack;
\* with the stack empty there is none but the one returned.
LEMMA ResultIsKept == IInv => FailureIsKept
<1> SUFFICES ASSUME IInv, stack = <<>>
             PROVE  /\ returned = "error" => myLastResult = "error"
                    /\ returned = "ok" /\ ~forgiven => myLastResult = "ok"
  BY DEF FailureIsKept
<1>1. returned = "error" => myLastResult = "error"
  BY DEF IInv, LastInv
<1>2. ASSUME returned = "ok", ~forgiven
      PROVE  myLastResult = "ok"
  <2>1. ~RollingBack
    BY DEF RollingBack
  <2>2. ~Up
    BY <1>2 DEF Up
  <2>3. state # "ROLLBACK"
    BY <1>2, <2>1, <2>2 DEF IInv, GoingInv
  <2> QED
    BY <2>3 DEF IInv, LastInv, TypeOK
<1> QED
  BY <1>1, <1>2

\* The last result that whenSessionComplete and GridBuilder read is a failure
\* if a task has failed, and only then unless a callable went on after one.
THEOREM KeepsFailure == Spec => []FailureIsKept
<1>1. IInv => FailureIsKept
  BY ResultIsKept
<1> QED
  BY <1>1, Inductive, PTL

\* After a failure runMe calls callables for a rollback only.
THEOREM StopsAfterFailure == Spec => []NothingGoesOn
<1>1. IInv => NothingGoesOn
  BY DEF IInv, GoingInv, NothingGoesOn, Busy, Up
<1> QED
  BY <1>1, Inductive, PTL

\* runMe is reached with the dependencies and the before tasks gone well.
THEOREM RunsPrepared == Spec => []PrerequisitesMet
<1>1. IInv => PrerequisitesMet
  <2> SUFFICES ASSUME IInv, Busy, Top.at = "own", ~forgiven
               PROVE  AllBehind("depends", Top.def) /\ AllBehind("before", Top.def)
    BY DEF PrerequisitesMet, AllBehind
  <2>1. Len(stack) \in 1 .. Len(stack) /\ Top = stack[Len(stack)]
    BY TopType DEF IInv, Busy, Top
  <2>2. ~Failing
    BY DEF Failing, Busy
  <2>3. \A k \in Len(stack) .. Len(stack) : stack[k].at # "rolling"
    BY <2>1
  <2> QED
    BY <2>1, <2>2, <2>3 DEF IInv, MetInv, Met
<1> QED
  BY <1>1, Inductive, PTL

\* The definition whose own part failed first is the only one rolled back.
THEOREM RollsBackOnce == Spec => []RolledBackOnce
<1>1. IInv => RolledBackOnce
  BY DEF IInv
<1> QED
  BY <1>1, Inductive, PTL

-----------------------------------------------------------------------------
(* A session implements its promise *)

LEMMA OutcomeIs ==
    /\ stack # <<>> => Outcome = "open"
    /\ stack = <<>> /\ returned \in {"none", "ok"} => Outcome = "ok"
    /\ stack = <<>> /\ returned = "error" => Outcome = "failed"
    /\ stack = <<>> /\ returned \in {"BearException", "Error"} => Outcome = "thrown"
BY DEF Outcome

LEMMA OutcomeNext ==
    /\ stack' # <<>> => Outcome' = "open"
    /\ stack' = <<>> /\ returned' \in {"none", "ok"} => Outcome' = "ok"
    /\ stack' = <<>> /\ returned' = "error" => Outcome' = "failed"
    /\ stack' = <<>> /\ returned' \in {"BearException", "Error"} => Outcome' = "thrown"
BY DEF Outcome

\* Steps within the calls of a phase leave all that is promised as it was.
LEMMA InsideStutters ==
    ASSUME stack # <<>>, stack' # <<>>, UNCHANGED <<phase, myLastResult, undone, forgiven>>
    PROVE  UNCHANGED Promise!promiseVars
BY OutcomeIs, OutcomeNext DEF Promise!promiseVars

\* The first of the calls ends, by a result or by a Throwable.
LEMMA LastCallEnds ==
    ASSUME IInv, IInv', stack # <<>>, stack' = <<>>, returned' # "none",
           UNCHANGED <<phase, myLastResult, undone, forgiven>>
    PROVE  Promise!End
<1>1. /\ returned' = "error" => myLastResult # "ok"
      /\ returned' = "ok" => myLastResult = "ok" \/ forgiven
  <2>1. FailureIsKept'
    BY ResultIsKept, PTL
  <2> QED
    BY <2>1 DEF FailureIsKept
<1>2. returned' \in {"ok", "error", "BearException", "Error"}
  BY DEF IInv, TypeOK
<1> QED
  BY <1>1, <1>2, OutcomeIs, OutcomeNext DEF Promise!End

\* A result that is ok changes nothing: it is only stored while no other is.
LEMMA StoreStutters ==
    ASSUME IInv, Store
    PROVE  UNCHANGED Promise!promiseVars
<1>1. stack # <<>> /\ stack' # <<>> /\ UNCHANGED <<phase, undone, forgiven>>
  BY TopType, Updates, Changed DEF IInv, Store, Busy, history
<1>2. myLastResult' = myLastResult
  BY DEF IInv, LastInv, TypeOK, Store, StoreResult
<1> QED
  BY <1>1, <1>2, InsideStutters

\* A failure is the first one or comes after one that was forgiven, but for
\* those within a rollback, which leave no trace.
LEMMA StoreFailureFails ==
    ASSUME IInv, StoreFailure
    PROVE  (\E d \in Defs : Promise!Fail(d)) \/ UNCHANGED Promise!promiseVars
<1>1. stack # <<>> /\ Top \in Frames /\ Len(stack) \in 1 .. Len(stack) /\ Top = stack[Len(stack)]
  BY TopType DEF IInv, StoreFailure, Busy, Top
<1>2. Top.def \in Defs
  BY <1>1 DEF Frames
<1>3. stack' # <<>>
  <2>1. CASE Rollback[Top.def] = NoDef
    BY <1>1, <2>1, Updates, Changed DEF IInv, StoreFailure
  <2>2. CASE Rollback[Top.def] # NoDef
    <3>1. Rollback[Top.def] \in Defs
      BY <1>2, <2>2, SessionAssumption
    <3> QED
      BY <1>1, <2>2, <3>1, Updates, PushedAfter DEF IInv, StoreFailure
  <2> QED
    BY <2>1, <2>2
<1>4. Outcome = "open" /\ Outcome' = "open" /\ UNCHANGED <<phase, forgiven>>
  BY <1>1, <1>3, OutcomeIs, OutcomeNext DEF StoreFailure
<1>5. CASE RollingBack
  <2>1. state = "ROLLBACK" /\ undone' = undone
    BY <1>5 DEF IInv, FrameInv, StoreFailure, RollingBack
  <2> QED
    BY <1>1, <1>3, <1>4, <2>1, InsideStutters DEF StoreFailure, StoreResult
<1>6. CASE ~RollingBack
  <2>1. myLastResult = "ok" \/ forgiven
    <3>1. ~Up
      BY <1>1 DEF StoreFailure, Up, Busy
    <3> QED
      BY <1>6, <3>1 DEF IInv, GoingInv, LastInv, TypeOK
  <2>2. myLastResult' # "ok"
    BY DEF IInv, LastInv, StoreFailure, StoreResult
  <2>3. undone' = IF Rollback[Top.def] = NoDef THEN undone ELSE Append(undone, Top.def)
    BY <1>6 DEF StoreFailure
  <2> QED
    BY <1>2, <1>4, <2>1, <2>2, <2>3 DEF Promise!Fail
<1> QED
  BY <1>5, <1>6

LEMMA PromiseStep == IInv /\ IInv' /\ [Next]_vars => [Promise!Next]_(Promise!promiseVars)
<1> SUFFICES ASSUME IInv, IInv', [Next]_vars
             PROVE  Promise!Next \/ UNCHANGED Promise!promiseVars
  OBVIOUS
<1>1. CASE UNCHANGED vars
  BY <1>1 DEF vars, results, history, Promise!promiseVars, Outcome
<1>2. CASE BeginPhase
  <2>1. Script[phase + 1] \in Defs /\ phase < Len(Script)
    BY <1>2, SessionAssumption DEF BeginPhase, IInv, TypeOK
  <2>2. stack' # <<>>
    BY <1>2, <2>1, Pushed DEF BeginPhase, IInv
  <2>3. Outcome = "ok" /\ Outcome' = "open"
    BY <1>2, <2>2, OutcomeIs, OutcomeNext DEF BeginPhase
  <2> QED
    BY <1>2, <2>1, <2>3 DEF BeginPhase, history, Promise!Begin, Promise!Next
<1>3. CASE SkipTask \/ TaskEnds \/ EndSection \/ CallableOk \/ CallableFails \/ EndOwn \/ RollbackEnds
  <2>1. stack # <<>> /\ UNCHANGED <<phase, myLastResult, undone, forgiven>>
    BY <1>3 DEF SkipTask, TaskEnds, EndSection, CallableOk, CallableFails, EndOwn, RollbackEnds,
                Busy, results, history
  <2>2. stack' # <<>>
    <3>1. \E frame : Change(frame)
      BY <1>3 DEF SkipTask, TaskEnds, EndSection, CallableOk, CallableFails, EndOwn, RollbackEnds
    <3> QED
      BY <2>1, <3>1 DEF Change, IInv, TypeOK
  <2> QED
    BY <2>1, <2>2, InsideStutters
<1>4. CASE RunTask
  <2>1. stack # <<>> /\ UNCHANGED <<phase, myLastResult, undone, forgiven>>
    BY <1>4 DEF RunTask, Busy, results, history
  <2>2. stack' # <<>>
    BY <1>4, <2>1 DEF RunTask, Push, IInv, TypeOK
  <2> QED
    BY <2>1, <2>2, InsideStutters
<1>5. CASE CallableRuns
  <2>1. stack # <<>> /\ UNCHANGED <<phase, myLastResult, undone, forgiven>>
    BY <1>5 DEF CallableRuns, Busy, results, history
  <2>2. stack' # <<>>
    BY <1>5, <2>1 DEF CallableRuns, PushAfter, IInv, TypeOK
  <2> QED
    BY <2>1, <2>2, InsideStutters
<1>6. CASE InnerEnds
  <2>1. Outcome = "open" /\ Outcome' = "open"
    BY <1>6, OutcomeIs, OutcomeNext DEF InnerEnds
  <2>2. forgiven' = TRUE \/ forgiven' = forgiven
    BY <1>6 DEF InnerEnds, IInv, TypeOK
  <2> QED
    BY <1>6, <2>1, <2>2 DEF InnerEnds, results, Promise!Forgive, Promise!Next, Promise!promiseVars
<1>7. CASE CallableThrows \/ Return \/ Unwind
  <2>1. /\ stack # <<>> /\ returned' # "none"
        /\ UNCHANGED <<phase, myLastResult, undone, forgiven>>
    BY <1>7, TopType DEF CallableThrows, Return, Unwind, Busy, results, history, IInv, Frames
  <2> QED
    BY <2>1, LastCallEnds, InsideStutters DEF Promise!Next
<1>8. CASE Store
  BY <1>8, StoreStutters
<1>9. CASE StoreFailure
  BY <1>9, StoreFailureFails DEF Promise!Next
<1> QED
  BY <1>1, <1>2, <1>3, <1>4, <1>5, <1>6, <1>7, <1>8, <1>9 DEF Next

\* Of all the results and rollbacks that runWithDependencies nests, the first
\* failure is what remains, what the phase ends with and what is undone.
THEOREM Implementation == Spec => ImplementsPromise
<1>1. Init => Promise!Init
  BY DEF Init, Promise!Init, Outcome
<1> QED
  BY <1>1, Inductive, PromiseStep, PTL DEF Spec, ImplementsPromise, Promise!Spec
=============================================================================
