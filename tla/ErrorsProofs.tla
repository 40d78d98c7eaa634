------------------------------ MODULE ErrorsProofs ------------------------------
(***************************************************************************)
(* The try/catch library, for any number of tasks, any depth of nesting,   *)
(* any number of tries and a task switch wherever interrupts are enabled:  *)
(* a catch body runs with its own globals and handles the error of its own *)
(* block, and throws land where they should, as long as no catch body      *)
(* enters a try and no context throws under a try while another stands at  *)
(* the test of its catch loop (Orderly).                                   *)
(***************************************************************************)
EXTENDS Errors, TLAPS

-----------------------------------------------------------------------------
(* Open blocks as a stack *)

\* The first i elements, of which x replaces the last.
LEMMA ReplaceTop ==
  ASSUME NEW S, NEW s \in Seq(S), NEW i \in 1 .. Len(s), NEW x \in S
  PROVE  LET r == Append(SubSeq(s, 1, i - 1), x) IN
         /\ r \in Seq(S) /\ Len(r) = i /\ r[i] = x
         /\ \A j \in 1 .. i - 1 : r[j] = s[j]
OBVIOUS

LEMMA PushTop ==
  ASSUME NEW S, NEW s \in Seq(S), NEW x \in S
  PROVE  /\ Append(s, x) \in Seq(S) /\ Len(Append(s, x)) = Len(s) + 1
         /\ Append(s, x)[Len(s) + 1] = x
         /\ \A j \in 1 .. Len(s) : Append(s, x)[j] = s[j]
OBVIOUS

LEMMA Prefix ==
  ASSUME NEW S, NEW s \in Seq(S), NEW n \in 0 .. Len(s)
  PROVE  /\ SubSeq(s, 1, n) \in Seq(S) /\ Len(SubSeq(s, 1, n)) = n
         /\ \A j \in 1 .. n : SubSeq(s, 1, n)[j] = s[j]
OBVIOUS

LEMMA PopTop ==
  ASSUME NEW S, NEW s \in Seq(S), Len(s) > 0
  PROVE  LET r == SubSeq(s, 1, Len(s) - 1) IN
         /\ r \in Seq(S) /\ Len(r) = Len(s) - 1
         /\ \A j \in 1 .. Len(s) - 1 : r[j] = s[j]
<1>1. Len(s) - 1 \in 0 .. Len(s)
  OBVIOUS
<1> QED
  BY <1>1, Prefix, Zenon

Stacks == [Contexts -> Seq(Blocks)]

\* The blocks of c below its innermost one, and those of the others, stay.
Below(c, depth) ==
  /\ \A j \in 1 .. depth : blocks'[c][j] = blocks[c][j]
  /\ \A d \in Contexts \ {c} : blocks'[d] = blocks[d]

LEMMA Pushed ==
  ASSUME blocks \in Stacks, NEW c \in Contexts, NEW b \in Blocks,
         blocks' = [blocks EXCEPT ![c] = Append(@, b)]
  PROVE  /\ blocks' \in Stacks /\ Below(c, Open(c))
         /\ Open(c)' = Open(c) + 1 /\ Innermost(c)' = b
BY PushTop DEF Stacks, Below, Open, Innermost

LEMMA Popped ==
  ASSUME blocks \in Stacks, NEW c \in Contexts, Open(c) > 0,
         blocks' = [blocks EXCEPT ![c] = Close(c)]
  PROVE  /\ blocks' \in Stacks /\ Below(c, Open(c) - 1)
         /\ Open(c)' = Open(c) - 1
BY PopTop DEF Stacks, Below, Open, Close

LEMMA Replaced ==
  ASSUME blocks \in Stacks, NEW c \in Contexts, NEW i \in 1 .. Open(c), NEW b \in Blocks,
         blocks' = [blocks EXCEPT ![c] = Append(SubSeq(@, 1, i - 1), b)]
  PROVE  /\ blocks' \in Stacks /\ Below(c, i - 1)
         /\ Open(c)' = i /\ Innermost(c)' = b
<1>1. blocks'[c] = Append(SubSeq(blocks[c], 1, i - 1), b)
  BY DEF Stacks
<1>2. /\ blocks'[c] \in Seq(Blocks) /\ Len(blocks'[c]) = i /\ blocks'[c][i] = b
      /\ \A j \in 1 .. i - 1 : blocks'[c][j] = blocks[c][j]
  BY <1>1, ReplaceTop DEF Stacks, Open
<1> QED
  BY <1>2 DEF Stacks, Below, Open, Innermost

LEMMA TopTyped ==
  ASSUME blocks \in Stacks, NEW c \in Contexts
  PROVE  /\ Open(c) \in Nat
         /\ \A i \in 1 .. Open(c) : blocks[c][i] \in Blocks
         /\ Open(c) > 0 => Innermost(c) \in Blocks
BY DEF Stacks, Open, Innermost

LEMMA Moved ==
  ASSUME blocks \in Stacks, NEW c \in Contexts, Open(c) > 0,
         NEW place \in {"body", "closing", "testing", "catch"}, blocks' = Move(c, place)
  PROVE  /\ blocks' \in Stacks /\ Below(c, Open(c) - 1)
         /\ Open(c)' = Open(c) /\ Innermost(c)' = [Innermost(c) EXCEPT !.at = place]
<1>1. [Innermost(c) EXCEPT !.at = place] \in Blocks /\ Open(c) \in 1 .. Open(c)
  BY TopTyped DEF Blocks
<1>2. blocks' = [blocks EXCEPT ![c] =
        Append(SubSeq(@, 1, Open(c) - 1), [Innermost(c) EXCEPT !.at = place])]
  BY DEF Move, Close, Stacks
<1> QED
  BY <1>1, <1>2, Replaced

-----------------------------------------------------------------------------
(* Types *)

\* A context with an open block, or a throw under way, has a manager state.
Managed == \A c \in Contexts : Open(c) > 0 \/ status[c] = "thrown" => c \in DOMAIN manager

Typed == TypeOK /\ Managed

LEMMA FreshTyped == \A ones \in BOOLEAN : Fresh(ones) \in States
BY ErrorsAssumption DEF Fresh, States, Bufs

LEMMA ZeroTyped == 0 \in Bufs /\ 0 \in 0 .. MaxTries
BY ErrorsAssumption DEF Bufs

LEMMA TypedInit == Init => Typed
<1> SUFFICES ASSUME Init PROVE Typed
  OBVIOUS
<1>1. Fresh(FALSE) \in States /\ manager[Main] = Fresh(FALSE) /\ DOMAIN manager = {Main}
  BY FreshTyped DEF Init
<1>2. blocks \in [Contexts -> Seq(Blocks)] /\ \A c \in Contexts : Open(c) = 0
  BY DEF Init, Open
<1>3. TypeOK
  BY <1>1, <1>2, ZeroTyped DEF Init, TypeOK, Contexts
<1> QED
  BY <1>2, <1>3 DEF Init, Typed, Managed

LEMMA TryTyped ==
  ASSUME Typed, NEW c \in Contexts, error_try(c)
  PROVE  Typed' /\ \E b \in Blocks : b.at = "body" /\ blocks' = [blocks EXCEPT ![c] = Append(@, b)]
<1>1. tries \in Nat /\ tries + 1 \in Bufs /\ tries' \in 0 .. MaxTries
  <2>1. tries \in 0 .. MaxTries /\ tries < MaxTries /\ tries' = tries + 1
    BY DEF error_try, Typed, TypeOK
  <2> QED
    BY <2>1, ErrorsAssumption DEF Bufs
<1>2. PICK ones \in BOOLEAN :
       LET state == IF c \in DOMAIN manager THEN manager[c] ELSE Fresh(ones)
           armed == [state EXCEPT !.try_active = TRUE, !.try_buf = tries + 1]
       IN /\ manager' = [d \in DOMAIN manager \cup {c} |-> IF d = c THEN armed ELSE manager[d]]
          /\ blocks' = [blocks EXCEPT ![c] =
               Append(@, [buf |-> tries + 1, previous |-> state, at |-> "body", error |-> 0])]
  BY DEF error_try
<1> DEFINE state == IF c \in DOMAIN manager THEN manager[c] ELSE Fresh(ones)
           armed == [state EXCEPT !.try_active = TRUE, !.try_buf = tries + 1]
           b == [buf |-> tries + 1, previous |-> state, at |-> "body", error |-> 0]
<1>3. state \in States
  BY FreshTyped DEF Typed, TypeOK
<1>4. armed \in States
  BY <1>1, <1>3 DEF States
<1>5. b \in Blocks /\ b.at = "body"
  BY <1>1, <1>3, ZeroTyped DEF Blocks
<1>6. /\ manager' = [d \in DOMAIN manager \cup {c} |-> IF d = c THEN armed ELSE manager[d]]
      /\ blocks' = [blocks EXCEPT ![c] = Append(@, b)]
  BY <1>2
<1> HIDE DEF state, armed, b
<1>7. /\ DOMAIN manager' = DOMAIN manager \cup {c}
      /\ \A d \in DOMAIN manager' : manager'[d] \in States
  BY <1>4, <1>6 DEF Typed, TypeOK
<1>8. blocks' \in Stacks /\ Below(c, Open(c))
  BY <1>5, <1>6, Pushed DEF Typed, TypeOK, Stacks
<1>9. TypeOK'
  BY <1>1, <1>7, <1>8 DEF error_try, Typed, TypeOK, Stacks, globals, Has
<1>10. Managed'
  BY <1>7, <1>8 DEF error_try, Typed, Managed, Below, Open
<1> QED
  BY <1>5, <1>6, <1>9, <1>10 DEF Typed

LEMMA FinishTyped ==
  ASSUME Typed, NEW c \in Contexts, FinishBody(c)
  PROVE  Typed'
<1>1. Open(c) > 0 /\ blocks' \in Stacks /\ Open(c)' = Open(c) /\ Below(c, Open(c) - 1)
  BY Moved DEF FinishBody, At, Typed, TypeOK, Stacks
<1> QED
  BY <1>1 DEF FinishBody, Typed, TypeOK, Managed, Stacks, Below, Open, processor, globals

LEMMA ThrowTyped ==
  ASSUME Typed, NEW c \in Contexts, Throw(c)
  PROVE  Typed'
<1>1. Origin(c) \in Bufs
  BY TopTyped, ZeroTyped DEF Origin, At, Typed, TypeOK, Stacks, Blocks
<1>2. CASE JumpToCatch(c)
  <2>1. [manager[c] EXCEPT !.error_occurred = TRUE, !.current_error = Origin(c)] \in States
    BY <1>1, <1>2 DEF JumpToCatch, Jump, TryActive, Typed, TypeOK, States
  <2> QED
    BY <1>2, <2>1 DEF Throw, JumpToCatch, Jump, TryActive, Typed, TypeOK, Managed, Open,
                      processor, globals
<1>3. CASE DeleteTask(c)
  BY <1>3, ErrorsAssumption
  DEF Throw, DeleteTask, Typed, TypeOK, Managed, Open, Ready, Contexts, globals
<1>4. CASE BlockMcu(c)
  BY <1>4 DEF Throw, BlockMcu, Typed, TypeOK, Managed, Open, globals
<1> QED
  BY <1>2, <1>3, <1>4 DEF Throw

\* Where a throw lands.
LEMMA LandTyped ==
  ASSUME Typed, NEW c \in Contexts, Land(c)
  PROVE  /\ Typed'
         /\ \/ mcu' = "undefined" /\ UNCHANGED <<irq_enabled, blocks>>
            \/ \E i \in 1 .. Open(c) :
                 /\ blocks[c][i].buf = manager[c].try_buf
                 /\ blocks' = [blocks EXCEPT ![c] =
                      Append(SubSeq(@, 1, i - 1), [@[i] EXCEPT !.at = "closing"])]
                 /\ irq_enabled' = TRUE /\ mcu' = mcu
<1>1. DOMAIN blocks[c] = 1 .. Open(c)
  BY DEF Typed, TypeOK, Open
<1>2. \/ mcu' = "undefined" /\ UNCHANGED <<irq_enabled, blocks>>
      \/ \E i \in 1 .. Open(c) :
           /\ blocks[c][i].buf = manager[c].try_buf
           /\ blocks' = [blocks EXCEPT ![c] =
                Append(SubSeq(@, 1, i - 1), [@[i] EXCEPT !.at = "closing"])]
           /\ irq_enabled' = TRUE /\ mcu' = mcu
  BY <1>1 DEF Land
<1>3. blocks' \in Stacks /\ irq_enabled' \in BOOLEAN /\ mcu' \in {mcu, "undefined"}
  <2>1. CASE mcu' = "undefined" /\ UNCHANGED <<irq_enabled, blocks>>
    BY <2>1 DEF Typed, TypeOK, Stacks
  <2>2. ASSUME NEW i \in 1 .. Open(c),
               blocks' = [blocks EXCEPT ![c] =
                    Append(SubSeq(@, 1, i - 1), [@[i] EXCEPT !.at = "closing"])]
        PROVE  blocks' \in Stacks
    <3>1. [blocks[c][i] EXCEPT !.at = "closing"] \in Blocks
      BY TopTyped DEF Typed, TypeOK, Stacks, Blocks
    <3>2. blocks' = [blocks EXCEPT ![c] =
                    Append(SubSeq(@, 1, i - 1), [blocks[c][i] EXCEPT !.at = "closing"])]
      BY <2>2 DEF Typed, TypeOK
    <3> QED
      BY <3>1, <3>2, Replaced DEF Typed, TypeOK, Stacks
  <2> QED
    BY <1>2, <2>1, <2>2
<1>4. TypeOK'
  BY <1>3 DEF Land, Typed, TypeOK, Stacks, globals
<1>5. Managed'
  BY <1>3 DEF Land, Typed, TypeOK, Managed, Stacks, Open
<1> QED
  BY <1>2, <1>4, <1>5 DEF Typed

LEMMA CloseTyped ==
  ASSUME Typed, NEW c \in Contexts, close_try(c)
  PROVE  /\ Typed' /\ c \in DOMAIN manager /\ Open(c) > 0
         /\ Below(c, Open(c) - 1) /\ Open(c)' = Open(c)
         /\ Innermost(c)' = [Innermost(c) EXCEPT !.at = "testing",
                                                 !.error = manager[c].current_error]
<1> DEFINE b == [Innermost(c) EXCEPT !.at = "testing", !.error = manager[c].current_error]
<1>1. Open(c) > 0 /\ Open(c) \in 1 .. Open(c) /\ c \in DOMAIN manager
  BY TopTyped DEF close_try, CloseMasked, At, Typed, TypeOK, Stacks, Managed
<1>2. Innermost(c) \in Blocks /\ manager[c].current_error \in Bufs
  BY <1>1, TopTyped DEF Typed, TypeOK, Stacks, States
<1>3. b \in Blocks /\ Innermost(c).previous \in States
  BY <1>2 DEF Blocks
<1>4. blocks' = [blocks EXCEPT ![c] = Append(SubSeq(@, 1, Open(c) - 1), b)]
  BY DEF close_try, CloseMasked, Close, Typed, TypeOK
<1> HIDE DEF b
<1>5. /\ blocks' \in Stacks /\ Below(c, Open(c) - 1)
      /\ Open(c)' = Open(c) /\ Innermost(c)' = b
  BY <1>1, <1>3, <1>4, Replaced DEF Typed, TypeOK, Stacks
<1>6. TypeOK'
  BY <1>1, <1>3, <1>5 DEF close_try, CloseMasked, Typed, TypeOK, Stacks
<1>7. Managed'
  BY <1>1, <1>5 DEF close_try, CloseMasked, Typed, Managed, Below, Open
<1> QED
  BY <1>1, <1>5, <1>6, <1>7 DEF Typed, b

LEMMA TestTyped ==
  ASSUME Typed, NEW c \in Contexts, TestCatch(c)
  PROVE  /\ Typed' /\ Open(c) > 0 /\ Below(c, Open(c) - 1)
         /\ \/ /\ manager[em_ptr_global].error_occurred /\ Open(c)' = Open(c)
               /\ Innermost(c)' = [Innermost(c) EXCEPT !.at = "catch"]
            \/ ~manager[em_ptr_global].error_occurred /\ Open(c)' = Open(c) - 1
<1>1. Open(c) > 0
  BY DEF TestCatch, At
<1>2. /\ blocks' \in Stacks /\ Below(c, Open(c) - 1)
      /\ \/ /\ manager[em_ptr_global].error_occurred /\ Open(c)' = Open(c)
            /\ Innermost(c)' = [Innermost(c) EXCEPT !.at = "catch"]
         \/ ~manager[em_ptr_global].error_occurred /\ Open(c)' = Open(c) - 1
  <2>1. CASE manager[em_ptr_global].error_occurred
    BY <1>1, <2>1, Moved DEF TestCatch, Typed, TypeOK, Stacks
  <2>2. CASE ~manager[em_ptr_global].error_occurred
    BY <1>1, <2>2, Popped DEF TestCatch, Typed, TypeOK, Stacks
  <2> QED
    BY <2>1, <2>2
<1>3. TypeOK'
  BY <1>2 DEF TestCatch, Typed, TypeOK, Stacks, processor, globals
<1>4. Managed'
  BY <1>1, <1>2 DEF TestCatch, Typed, Managed, Below, Open
<1> QED
  BY <1>1, <1>2, <1>3, <1>4 DEF Typed

LEMMA CatchTyped ==
  ASSUME Typed, NEW c \in Contexts, FinishCatch(c)
  PROVE  /\ Typed' /\ Open(c) > 0 /\ Below(c, Open(c) - 1) /\ Open(c)' = Open(c)
         /\ Innermost(c)' = [Innermost(c) EXCEPT !.at = "testing"]
<1>1. Open(c) > 0
  BY DEF FinishCatch, Finish, At
<1>2. /\ blocks' \in Stacks /\ Below(c, Open(c) - 1)
      /\ Open(c)' = Open(c) /\ Innermost(c)' = [Innermost(c) EXCEPT !.at = "testing"]
  BY <1>1, Moved DEF FinishCatch, Finish, Typed, TypeOK, Stacks
<1>3. TypeOK'
  BY <1>2 DEF FinishCatch, Finish, Typed, TypeOK, Stacks, globals
<1>4. Managed'
  BY <1>1, <1>2 DEF FinishCatch, Finish, Typed, TypeOK, Managed, Below, Open
<1> QED
  BY <1>1, <1>2, <1>3, <1>4 DEF Typed

LEMMA SchedulerTyped ==
  ASSUME Typed, StartScheduler \/ Preempt \/ InterruptThrow
  PROVE  Typed' /\ UNCHANGED <<blocks, status, manager, globals, habits>>
<1>1. UNCHANGED <<blocks, status, manager, globals, habits, tries>>
  BY DEF StartScheduler, Preempt, InterruptThrow
<1>2. /\ cpu' \in Contexts \cup {Idle} /\ irq_enabled' \in BOOLEAN /\ scheduler' \in BOOLEAN
      /\ mcu' \in {mcu, "undefined", "blocked"}
  BY DEF StartScheduler, Preempt, InterruptThrow, Ready, Contexts, Typed, TypeOK
<1> QED
  BY <1>1, <1>2
  DEF StartScheduler, Preempt, InterruptThrow, Typed, TypeOK, Managed, Open, globals

-----------------------------------------------------------------------------
(* The globals of a catch body *)

\* From the close of the try to the end of the catch.
InLoop(c) == At(c, "catch") \/ (At(c, "testing") /\ ~irq_enabled)

\* A context without the processor is in no catch body: interrupts are disabled there.
OthersOut == \A c \in Contexts : c # cpu => ~At(c, "catch")

\* A context has an error pending from its throw to the end of its catch body.
ErrorPending ==
  \A c \in DOMAIN manager : manager[c].error_occurred =>
    /\ manager[c].try_active
    /\ status[c] = "thrown" \/ At(c, "closing") \/ (c = cpu /\ InLoop(c))

LoopOwns ==
  \A c \in Contexts : InLoop(c) /\ c = cpu =>
    /\ ~irq_enabled /\ em_ptr_global = c /\ previous_global = Innermost(c).previous
    /\ At(c, "catch") => manager[c].error_occurred

\* The context that executes is between its __close_try and the end of its catch body.
Handling == cpu \in Contexts /\ status[cpu] = "running" /\ InLoop(cpu)

\* Otherwise a context that tests its loop with interrupts enabled finds no error: the
\* last one to close a try has ended its catch, and has not thrown since.
TestClear ==
  \A c \in Contexts : At(c, "testing") /\ ~Handling => ~manager[em_ptr_global].error_occurred

\* What error_try saved has no error.
SavedClean ==
  /\ ~previous_global.error_occurred
  /\ \A c \in Contexts : \A i \in 1 .. Open(c) : ~blocks[c][i].previous.error_occurred

Owned == OthersOut /\ ErrorPending /\ LoopOwns /\ TestClear /\ SavedClean

\* Without a try in a catch body, every block but the innermost is in its body.
OuterBodies == \A c \in Contexts : \A i \in 1 .. Open(c) - 1 : blocks[c][i].at = "body"

OwnInv == Typed /\ (Orderly => OuterBodies /\ (mcu = "up" => Owned))

LEMMA OwnInit == Init => OwnInv
<1> SUFFICES ASSUME Init PROVE OwnInv
  OBVIOUS
<1>1. \A c \in Contexts : Open(c) = 0 /\ status[c] = "running"
  BY DEF Init, Open
<1>2. ~Fresh(FALSE).error_occurred
  BY DEF Fresh
<1>3. Owned
  <2>1. ~previous_global.error_occurred /\ \A c \in DOMAIN manager : ~manager[c].error_occurred
    BY <1>2 DEF Init
  <2>2. \A c \in Contexts : /\ ~At(c, "catch") /\ ~At(c, "testing") /\ ~InLoop(c)
                            /\ 1 .. Open(c) = {}
    BY <1>1 DEF InLoop, At
  <2> QED
    BY <2>1, <2>2 DEF Owned, OthersOut, ErrorPending, LoopOwns, TestClear, SavedClean
<1> QED
  BY <1>1, <1>3, TypedInit DEF OwnInv, OuterBodies

\* The step of a context concerns no error but its own.
LEMMA PendingKept ==
  ASSUME Typed, ErrorPending, NEW c \in Contexts, c = cpu,
         DOMAIN manager' \subseteq DOMAIN manager \cup {c},
         \A d \in DOMAIN manager \ {c} : manager'[d] = manager[d],
         \A d \in Contexts \ {c} : blocks'[d] = blocks[d] /\ status'[d] = status[d],
         c \in DOMAIN manager' /\ manager'[c].error_occurred =>
           /\ manager'[c].try_active
           /\ status'[c] = "thrown" \/ At(c, "closing")' \/ (c = cpu' /\ InLoop(c)')
  PROVE  ErrorPending'
<1> SUFFICES ASSUME NEW d \in DOMAIN manager', d # c, manager'[d].error_occurred
             PROVE  manager'[d].try_active /\ (status'[d] = "thrown" \/ At(d, "closing")')
  BY DEF ErrorPending
<1>1. /\ d \in DOMAIN manager /\ d \in Contexts /\ manager'[d] = manager[d]
      /\ blocks'[d] = blocks[d] /\ status'[d] = status[d]
  BY DEF Typed, TypeOK
<1>2. manager[d].try_active /\ (status[d] = "thrown" \/ At(d, "closing"))
  BY <1>1 DEF ErrorPending
<1>3. At(d, "closing") => At(d, "closing")'
  BY <1>1 DEF At, Innermost, Open
<1> QED
  BY <1>1, <1>2, <1>3

\* A context that is not handling an error leaves the others' tests clear.
LEMMA ClearKept ==
  ASSUME Typed, TestClear, ~Handling, NEW c \in Contexts, em_ptr_global' = em_ptr_global,
         manager[em_ptr_global].error_occurred \/ ~manager'[em_ptr_global].error_occurred,
         \A d \in Contexts \ {c} : blocks'[d] = blocks[d],
         ~At(c, "testing")'
  PROVE  TestClear'
<1> SUFFICES ASSUME NEW d \in Contexts, At(d, "testing")'
             PROVE  ~manager'[em_ptr_global].error_occurred
  BY DEF TestClear
<1>1. d # c /\ blocks'[d] = blocks[d]
  OBVIOUS
<1>2. At(d, "testing")
  BY <1>1 DEF At, Innermost, Open
<1> QED
  BY <1>2 DEF TestClear

LEMMA SavedKept ==
  ASSUME Typed, SavedClean, NEW c \in Contexts, NEW depth \in 0 .. Open(c), Below(c, depth),
         ~previous_global'.error_occurred,
         \/ Open(c)' = depth
         \/ Open(c)' = depth + 1 /\ ~Innermost(c)'.previous.error_occurred
  PROVE  SavedClean'
<1> SUFFICES ASSUME NEW d \in Contexts, NEW i \in 1 .. Open(d)'
             PROVE  ~blocks'[d][i].previous.error_occurred
  BY DEF SavedClean
<1>1. CASE d = c /\ i = depth + 1
  <2>1. Open(c)' = i
    BY <1>1
  <2> QED
    BY <1>1, <2>1 DEF Innermost
<1>2. CASE d = c /\ i # depth + 1
  <2>1. i \in 1 .. depth
    BY <1>2, TopTyped DEF Typed, TypeOK, Stacks
  <2>2. i \in 1 .. Open(c) /\ blocks'[c][i] = blocks[c][i]
    BY <2>1, TopTyped DEF Below, Typed, TypeOK, Stacks
  <2> QED
    BY <1>2, <2>2 DEF SavedClean
<1>3. CASE d # c
  BY <1>3 DEF Below, Open, SavedClean
<1> QED
  BY <1>1, <1>2, <1>3

LEMMA TryOwn ==
  ASSUME Typed, Owned, Orderly, NEW c \in Contexts, error_try(c)
  PROVE  Owned'
<1>1. PICK ones \in BOOLEAN :
       LET state == IF c \in DOMAIN manager THEN manager[c] ELSE Fresh(ones)
           armed == [state EXCEPT !.try_active = TRUE, !.try_buf = tries + 1]
       IN /\ manager' = [d \in DOMAIN manager \cup {c} |-> IF d = c THEN armed ELSE manager[d]]
          /\ blocks' = [blocks EXCEPT ![c] =
               Append(@, [buf |-> tries + 1, previous |-> state, at |-> "body", error |-> 0])]
  BY DEF error_try
<1> DEFINE state == IF c \in DOMAIN manager THEN manager[c] ELSE Fresh(ones)
           armed == [state EXCEPT !.try_active = TRUE, !.try_buf = tries + 1]
           b == [buf |-> tries + 1, previous |-> state, at |-> "body", error |-> 0]
<1>2. /\ cpu = c /\ cpu' = cpu /\ status[c] = "running" /\ status' = status /\ irq_enabled'
      /\ UNCHANGED globals /\ ~At(c, "catch")
      /\ Open(c) > 0 => Innermost(c).at = "body"
  BY DEF error_try, InUserCode, Runs, Orderly, At
<1>3. ~InLoop(c) /\ ~At(c, "closing") /\ ~Handling
  BY <1>2 DEF Handling, InLoop, At
<1>4. state \in States /\ ~state.error_occurred
  <2>1. CASE c \in DOMAIN manager
    BY <1>2, <1>3, <2>1 DEF Owned, ErrorPending, Typed, TypeOK
  <2>2. CASE c \notin DOMAIN manager
    BY <2>2, FreshTyped DEF Fresh
  <2> QED
    BY <2>1, <2>2
<1>5. ~armed.error_occurred
  BY <1>4 DEF States
<1>6. tries + 1 \in Bufs
  <2>1. tries \in 0 .. MaxTries /\ tries < MaxTries
    BY DEF error_try, Typed, TypeOK
  <2> QED
    BY <2>1, ErrorsAssumption DEF Bufs
<1>7. b \in Blocks /\ b.at = "body" /\ b.previous = state
  BY <1>4, <1>6, ZeroTyped DEF Blocks
<1>8. /\ manager' = [d \in DOMAIN manager \cup {c} |-> IF d = c THEN armed ELSE manager[d]]
      /\ blocks' = [blocks EXCEPT ![c] = Append(@, b)]
  BY <1>1
<1> HIDE DEF state, armed, b
<1>9. /\ Below(c, Open(c)) /\ Open(c)' = Open(c) + 1 /\ Innermost(c)' = b
  BY <1>7, <1>8, Pushed DEF Typed, TypeOK, Stacks
<1>10. OthersOut'
  BY <1>2, <1>9 DEF Owned, OthersOut, At, Below, Innermost, Open
<1>11. ErrorPending'
  BY <1>2, <1>5, <1>8, <1>9, PendingKept DEF Owned, Below
<1>12. LoopOwns'
  BY <1>2, <1>7, <1>9 DEF LoopOwns, InLoop, At
<1>13. SavedClean'
  <2>1. Open(c) \in 0 .. Open(c)
    BY TopTyped DEF Typed, TypeOK, Stacks
  <2>2. ~previous_global'.error_occurred
    BY <1>2 DEF globals, Owned, SavedClean
  <2>3. ~Innermost(c)'.previous.error_occurred
    BY <1>4, <1>7, <1>9
  <2> QED
    BY <1>9, <2>1, <2>2, <2>3, SavedKept DEF Owned
<1>14. TestClear'
  <2>1. ~At(c, "testing")'
    BY <1>7, <1>9 DEF At
  <2>2. em_ptr_global' = em_ptr_global /\ em_ptr_global \in DOMAIN manager
    BY <1>2 DEF globals, Typed, TypeOK
  <2>3. ~manager[em_ptr_global].error_occurred => ~manager'[em_ptr_global].error_occurred
    BY <1>5, <1>8, <2>2
  <2> QED
    BY <1>3, <1>9, <2>1, <2>2, <2>3, ClearKept DEF Owned, Below
<1> QED
  BY <1>10, <1>11, <1>12, <1>13, <1>14 DEF Owned

LEMMA ThrowOwn ==
  ASSUME Typed, Owned, NEW c \in Contexts, c = cpu, status[c] = "running",
         At(c, "body") \/ At(c, "catch") \/ Open(c) = 0, Throw(c), mcu' = "up", ~raced'
  PROVE  Owned'
<1>1. UNCHANGED <<blocks, globals>> /\ ~BlockMcu(c)
  BY DEF Throw, BlockMcu
<1>2. \A d \in Contexts : Open(d)' = Open(d) /\ Innermost(d)' = Innermost(d)
  BY <1>1 DEF Open, Innermost
<1>3. SavedClean'
  BY <1>1, <1>2 DEF Owned, SavedClean, globals
<1>4. CASE JumpToCatch(c)
  <2>1. /\ cpu' = cpu /\ irq_enabled' = irq_enabled /\ c \in DOMAIN manager
        /\ manager[c].try_active /\ manager[c] \in States /\ status'[c] = "thrown"
        /\ \A d \in Contexts \ {c} : status'[d] = status[d]
        /\ DOMAIN manager' = DOMAIN manager
        /\ \A d \in DOMAIN manager \ {c} : manager'[d] = manager[d]
        /\ manager'[c] = [manager[c] EXCEPT !.error_occurred = TRUE, !.current_error = Origin(c)]
    BY <1>4 DEF JumpToCatch, Jump, TryActive, processor, Typed, TypeOK
  <2>2. manager'[c].try_active /\ manager'[c].error_occurred
    BY <2>1 DEF States
  <2>3. OthersOut'
    BY <1>2, <2>1 DEF Owned, OthersOut, At
  <2>4. ErrorPending'
    BY <1>1, <2>1, <2>2, PendingKept DEF Owned
  <2>5. LoopOwns'
    BY <1>1, <1>2, <2>1, <2>2 DEF Owned, LoopOwns, InLoop, At, globals
  <2>6. \A d \in Contexts : ~At(d, "testing")'
    <3>1. \A d \in Contexts \ {c} : ~At(d, "testing")
      BY <1>4 DEF JumpToCatch, Jump
    <3>2. ~At(c, "testing")
      BY DEF At
    <3> QED
      BY <1>2, <3>1, <3>2 DEF At
  <2> QED
    BY <1>3, <2>3, <2>4, <2>5, <2>6 DEF Owned, TestClear
<1>5. CASE DeleteTask(c)
  <2>1. /\ cpu' # c /\ irq_enabled' /\ manager' = manager
        /\ status'[c] = "deleted" /\ \A d \in Contexts \ {c} : status'[d] = status[d]
        /\ ~TryActive(c)
    BY <1>5 DEF DeleteTask, Typed, TypeOK
  <2>2. c \in DOMAIN manager => ~manager[c].error_occurred
    BY <2>1 DEF TryActive, Owned, ErrorPending
  <2>3. ~At(c, "catch") /\ ~At(c, "testing") /\ ~Handling
    BY <2>2 DEF Owned, LoopOwns, Handling, InLoop, At, Typed, Managed
  <2>4. OthersOut' /\ \A d \in Contexts : ~InLoop(d)'
    BY <1>2, <2>1, <2>3 DEF Owned, OthersOut, InLoop, At
  <2>5. ErrorPending'
    BY <1>1, <2>1, <2>2, PendingKept DEF Owned
  <2>6. LoopOwns'
    BY <2>4 DEF LoopOwns
  <2>7. TestClear'
    BY <1>1, <1>2, <2>1, <2>3 DEF Owned, TestClear, At, globals
  <2> QED
    BY <1>3, <2>4, <2>5, <2>6, <2>7 DEF Owned
<1> QED
  BY <1>1, <1>4, <1>5 DEF Throw

LEMMA SchedulerOwn ==
  ASSUME Typed, Owned, Orderly, mcu' = "up", StartScheduler \/ Preempt \/ InterruptThrow
  PROVE  Owned'
<1>1. UNCHANGED <<blocks, status, manager, globals>> /\ irq_enabled' /\ ~InterruptThrow
  BY SchedulerTyped DEF StartScheduler, Preempt, InterruptThrow
<1>2. \A c \in Contexts : Open(c)' = Open(c) /\ Innermost(c)' = Innermost(c)
  BY <1>1 DEF Open, Innermost
<1>3. \A c \in Contexts : ~At(c, "catch") /\ ~(c = cpu /\ InLoop(c))
  <2>1. CASE StartScheduler
    BY <2>1 DEF StartScheduler, InUserCode, Runs, Owned, OthersOut, InLoop, At
  <2>2. CASE Preempt
    <3>1. irq_enabled
      BY <2>2 DEF Preempt
    <3>2. cpu \in Contexts => ~At(cpu, "catch")
      BY <3>1 DEF Owned, LoopOwns, InLoop
    <3> QED
      BY <3>1, <3>2 DEF Owned, OthersOut, InLoop
  <2> QED
    BY <1>1, <2>1, <2>2
<1>4. \A c \in Contexts : ~InLoop(c)' /\ ~At(c, "catch")'
  BY <1>1, <1>2, <1>3 DEF InLoop, At
<1>5. ErrorPending'
  BY <1>1, <1>2, <1>3 DEF Owned, ErrorPending, At, Typed, TypeOK
<1>6. SavedClean'
  BY <1>1, <1>2 DEF Owned, SavedClean, globals
<1>7. TestClear'
  BY <1>1, <1>2, <1>3 DEF Owned, TestClear, Handling, At, globals
<1> QED
  BY <1>4, <1>5, <1>6, <1>7 DEF Owned, OthersOut, LoopOwns

LEMMA LandOwn ==
  ASSUME Typed, Owned, NEW c \in Contexts, Land(c), mcu' = "up"
  PROVE  Owned'
<1>1. PICK i \in 1 .. Open(c) :
        /\ blocks' = [blocks EXCEPT ![c] =
             Append(SubSeq(@, 1, i - 1), [@[i] EXCEPT !.at = "closing"])]
        /\ irq_enabled' = TRUE
  BY LandTyped
<1>2. /\ c = cpu /\ cpu' = cpu /\ manager' = manager /\ UNCHANGED globals
      /\ \A d \in Contexts \ {c} : status'[d] = status[d]
      /\ ~Handling
  BY DEF Land, Handling
<1> DEFINE b == [blocks[c][i] EXCEPT !.at = "closing"]
<1>3. b \in Blocks /\ b.at = "closing" /\ b.previous = blocks[c][i].previous
  BY TopTyped DEF Typed, TypeOK, Stacks, Blocks
<1>4. blocks' = [blocks EXCEPT ![c] = Append(SubSeq(@, 1, i - 1), b)]
  BY <1>1 DEF Typed, TypeOK
<1> HIDE DEF b
<1>5. Below(c, i - 1) /\ Open(c)' = i /\ Innermost(c)' = b
  BY <1>3, <1>4, Replaced DEF Typed, TypeOK, Stacks
<1>6. At(c, "closing")' /\ ~At(c, "testing")' /\ ~InLoop(c)'
  BY <1>3, <1>5 DEF At, InLoop
<1>7. OthersOut' /\ TestClear'
  BY <1>2, <1>5, <1>6, ClearKept
  DEF Owned, OthersOut, TestClear, globals, At, Below, Innermost, Open
<1>8. ErrorPending'
  BY <1>2, <1>5, <1>6, PendingKept DEF Owned, ErrorPending, Below
<1>9. LoopOwns'
  BY <1>2, <1>6 DEF LoopOwns
<1>10. SavedClean'
  <2>1. i - 1 \in 0 .. Open(c) /\ i - 1 + 1 = i
    BY TopTyped DEF Typed, TypeOK, Stacks
  <2>2. ~Innermost(c)'.previous.error_occurred /\ ~previous_global'.error_occurred
    BY <1>2, <1>3, <1>5 DEF globals, Owned, SavedClean
  <2> QED
    BY <1>5, <2>1, <2>2, SavedKept DEF Owned
<1> QED
  BY <1>7, <1>8, <1>9, <1>10 DEF Owned

LEMMA OthersKept ==
  ASSUME OthersOut, NEW c \in Contexts, c = cpu, cpu' = cpu, NEW depth, Below(c, depth)
  PROVE  OthersOut'
BY DEF OthersOut, At, Below, Innermost, Open

LEMMA SavedKeptAtTop ==
  ASSUME Typed, SavedClean, NEW c \in Contexts, Open(c) > 0, Below(c, Open(c) - 1),
         ~previous_global'.error_occurred,
         \/ Open(c)' = Open(c) - 1
         \/ Open(c)' = Open(c) /\ Innermost(c)'.previous = Innermost(c).previous
  PROVE  SavedClean'
<1>1. Open(c) - 1 \in 0 .. Open(c) /\ Open(c) - 1 + 1 = Open(c) /\ Open(c) \in 1 .. Open(c)
  BY TopTyped DEF Typed, TypeOK, Stacks
<1>2. ~Innermost(c).previous.error_occurred
  BY <1>1 DEF SavedClean, Innermost
<1> QED
  BY <1>1, <1>2, SavedKept

LEMMA FinishOwn ==
  ASSUME Typed, Owned, NEW c \in Contexts, FinishBody(c)
  PROVE  Owned'
<1>1. /\ Open(c) > 0 /\ Below(c, Open(c) - 1) /\ Open(c)' = Open(c)
      /\ Innermost(c)' = [Innermost(c) EXCEPT !.at = "closing"]
  BY Moved DEF FinishBody, At, Typed, TypeOK, Stacks
<1>2. /\ c = cpu /\ cpu' = cpu /\ status' = status /\ irq_enabled' = irq_enabled
      /\ manager' = manager /\ UNCHANGED globals
  BY DEF FinishBody, Runs, processor
<1>3. Innermost(c) \in Blocks
  BY <1>1, TopTyped DEF Typed, TypeOK, Stacks
<1>4. Innermost(c)'.at = "closing" /\ Innermost(c)'.previous = Innermost(c).previous
  BY <1>1, <1>3 DEF Blocks
<1>5. At(c, "closing")' /\ ~At(c, "testing")' /\ ~InLoop(c)'
  BY <1>1, <1>4 DEF At, InLoop
<1>6. OthersOut' /\ TestClear'
  <2>1. ~Handling
    BY <1>2 DEF FinishBody, Handling, InLoop, At
  <2> QED
    BY <1>1, <1>2, <1>5, <2>1, OthersKept, ClearKept DEF Owned, globals, Below
<1>7. ErrorPending'
  BY <1>1, <1>2, <1>5, PendingKept DEF Owned, ErrorPending, Below
<1>8. LoopOwns'
  BY <1>2, <1>5 DEF LoopOwns
<1>9. SavedClean'
  BY <1>1, <1>2, <1>4, SavedKeptAtTop DEF Owned, SavedClean, globals
<1> QED
  BY <1>6, <1>7, <1>8, <1>9 DEF Owned

LEMMA CloseOwn ==
  ASSUME Typed, Owned, NEW c \in Contexts, close_try(c)
  PROVE  Owned'
<1>1. /\ c \in DOMAIN manager /\ Open(c) > 0 /\ Below(c, Open(c) - 1) /\ Open(c)' = Open(c)
      /\ Innermost(c)' = [Innermost(c) EXCEPT !.at = "testing",
                                              !.error = manager[c].current_error]
  BY CloseTyped
<1>2. /\ c = cpu /\ cpu' = cpu /\ status' = status /\ irq_enabled' = FALSE /\ manager' = manager
      /\ em_ptr_global' = c /\ previous_global' = Innermost(c).previous
  BY DEF close_try, CloseMasked, Runs
<1>3. Innermost(c) \in Blocks /\ Open(c) \in 1 .. Open(c)
  BY <1>1, TopTyped DEF Typed, TypeOK, Stacks
<1>4. Innermost(c)'.at = "testing" /\ Innermost(c)'.previous = Innermost(c).previous
  BY <1>1, <1>3 DEF Blocks
<1>5. At(c, "testing")' /\ ~At(c, "catch")' /\ InLoop(c)'
  BY <1>1, <1>2, <1>4 DEF At, InLoop
<1>6. OthersOut' /\ TestClear'
  <2>1. Handling'
    BY <1>2, <1>5 DEF close_try, CloseMasked, Runs, Handling
  <2> QED
    BY <1>1, <1>2, <2>1, OthersKept DEF Owned, TestClear
<1>7. ErrorPending'
  BY <1>1, <1>2, <1>5, PendingKept DEF Owned, ErrorPending, Below
<1>8. LoopOwns'
  BY <1>2, <1>4, <1>5 DEF LoopOwns
<1>9. ~previous_global'.error_occurred
  BY <1>2, <1>3 DEF Owned, SavedClean, Innermost
<1>10. SavedClean'
  BY <1>1, <1>4, <1>9, SavedKeptAtTop DEF Owned
<1> QED
  BY <1>6, <1>7, <1>8, <1>10 DEF Owned

LEMMA TestOwn ==
  ASSUME Typed, Owned, OuterBodies, NEW c \in Contexts, TestCatch(c)
  PROVE  Owned'
<1>1. /\ Open(c) > 0 /\ Below(c, Open(c) - 1)
      /\ \/ /\ manager[em_ptr_global].error_occurred /\ Open(c)' = Open(c)
            /\ Innermost(c)' = [Innermost(c) EXCEPT !.at = "catch"]
         \/ ~manager[em_ptr_global].error_occurred /\ Open(c)' = Open(c) - 1
  BY TestTyped
<1>2. /\ c = cpu /\ cpu' = cpu /\ status' = status /\ status[c] = "running"
      /\ irq_enabled' = irq_enabled /\ manager' = manager /\ UNCHANGED globals
      /\ Innermost(c).at = "testing" /\ em_ptr_global \in DOMAIN manager
  BY DEF TestCatch, Runs, At, processor, Typed, TypeOK
<1>3. Innermost(c) \in Blocks
  BY <1>1, TopTyped DEF Typed, TypeOK, Stacks
<1>4. At(c, "testing") /\ ~At(c, "closing") /\ ~At(c, "catch")
  BY <1>1, <1>2 DEF At
<1>5. ~irq_enabled => em_ptr_global = c /\ previous_global = Innermost(c).previous
  BY <1>2, <1>4 DEF Owned, LoopOwns, InLoop
<1>6. OthersOut'
  BY <1>1, <1>2, OthersKept DEF Owned
<1>7. CASE manager[em_ptr_global].error_occurred
  <2>1. em_ptr_global = c /\ ~irq_enabled
    BY <1>2, <1>4, <1>5, <1>7 DEF Owned, TestClear, Handling, InLoop
  <2>2. Innermost(c)'.at = "catch" /\ Innermost(c)'.previous = Innermost(c).previous
    BY <1>1, <1>3, <1>7 DEF Blocks
  <2>3. At(c, "catch")' /\ InLoop(c)' /\ Open(c)' = Open(c)
    BY <1>1, <1>7, <2>2 DEF At, InLoop
  <2>4. ErrorPending'
    BY <1>1, <1>2, <2>3, PendingKept DEF Owned, ErrorPending, Below
  <2>5. LoopOwns'
    BY <1>2, <1>5, <1>7, <2>1, <2>2, <2>3 DEF LoopOwns, globals
  <2>6. SavedClean'
    BY <1>1, <1>2, <2>2, <2>3, SavedKeptAtTop DEF Owned, SavedClean, globals
  <2>7. TestClear'
    BY <1>2, <2>3 DEF TestClear, Handling
  <2> QED
    BY <1>6, <2>4, <2>5, <2>6, <2>7 DEF Owned
<1>8. CASE ~manager[em_ptr_global].error_occurred
  <2>1. c \in DOMAIN manager => ~manager[c].error_occurred
    BY <1>2, <1>4, <1>5, <1>8 DEF Owned, ErrorPending, InLoop
  <2>2. Open(c)' = Open(c) - 1 /\ Open(c) \in Nat
    BY <1>1, <1>8, TopTyped DEF Typed, TypeOK, Stacks
  <2>3. Open(c)' > 0 => Innermost(c)'.at = "body"
    BY <1>1, <2>2 DEF OuterBodies, Below, Innermost
  <2>4. ~InLoop(c)'
    BY <2>3 DEF InLoop, At
  <2>5. SavedClean'
    BY <1>1, <1>2, <2>2, SavedKeptAtTop DEF Owned, SavedClean, globals
  <2>6. ErrorPending'
    BY <1>1, <1>2, <2>1, PendingKept DEF Owned, Below
  <2>7. TestClear' /\ LoopOwns'
    BY <1>2, <1>8, <2>4 DEF TestClear, LoopOwns, globals
  <2> QED
    BY <1>6, <2>5, <2>6, <2>7 DEF Owned
<1> QED
  BY <1>7, <1>8

LEMMA CatchOwn ==
  ASSUME Typed, Owned, NEW c \in Contexts, FinishCatch(c)
  PROVE  Owned'
<1>1. /\ Open(c) > 0 /\ Below(c, Open(c) - 1) /\ Open(c)' = Open(c)
      /\ Innermost(c)' = [Innermost(c) EXCEPT !.at = "testing"]
  BY CatchTyped
<1>2. /\ c = cpu /\ cpu' = cpu /\ status' = status /\ irq_enabled' = TRUE /\ At(c, "catch")
      /\ UNCHANGED globals /\ manager' = [manager EXCEPT ![em_ptr_global] = previous_global]
  BY DEF FinishCatch, Finish, Runs
<1>3. Innermost(c) \in Blocks
  BY <1>1, TopTyped DEF Typed, TypeOK, Stacks
<1>4. Innermost(c)'.at = "testing" /\ Innermost(c)'.previous = Innermost(c).previous
  BY <1>1, <1>3 DEF Blocks
<1>5. ~InLoop(c)'
  BY <1>2, <1>4 DEF At, InLoop
<1>6. em_ptr_global = c /\ ~previous_global.error_occurred
  BY <1>2 DEF Owned, LoopOwns, InLoop, SavedClean
<1>7. OthersOut' /\ TestClear'
  <2>1. ~manager'[em_ptr_global'].error_occurred
    BY <1>2, <1>6 DEF Typed, TypeOK, globals
  <2> QED
    BY <1>1, <1>2, <2>1, OthersKept DEF Owned, TestClear
<1>8. ErrorPending'
  <2>1. c \in DOMAIN manager => ~manager'[c].error_occurred
    BY <1>2, <1>6
  <2> QED
    BY <1>1, <1>2, <1>6, <2>1, PendingKept DEF Owned, Below
<1>9. LoopOwns'
  BY <1>2, <1>5 DEF LoopOwns
<1>10. SavedClean'
  BY <1>1, <1>2, <1>4, SavedKeptAtTop DEF Owned, SavedClean, globals
<1> QED
  BY <1>7, <1>8, <1>9, <1>10 DEF Owned

LEMMA BodiesKept ==
  ASSUME Typed, OuterBodies, NEW c \in Contexts, NEW depth \in 0 .. Open(c), Below(c, depth),
         Open(c)' \in {depth, depth + 1},
         Open(c)' = Open(c) + 1 /\ Open(c) > 0 => Innermost(c).at = "body"
  PROVE  OuterBodies'
<1> SUFFICES ASSUME NEW d \in Contexts, NEW i \in 1 .. Open(d)' - 1
             PROVE  blocks'[d][i].at = "body"
  BY DEF OuterBodies
<1>1. CASE d = c
  <2>1. Open(c) \in Nat
    BY TopTyped DEF Typed, TypeOK, Stacks
  <2>2. i \in 1 .. depth /\ blocks'[c][i] = blocks[c][i]
    BY <1>1, <2>1 DEF Below
  <2>3. CASE i = Open(c)
    <3>1. Open(c)' = Open(c) + 1 /\ Open(c) > 0
      BY <1>1, <2>1, <2>2, <2>3
    <3> QED
      BY <1>1, <2>2, <2>3, <3>1 DEF Innermost
  <2>4. CASE i # Open(c)
    BY <1>1, <2>1, <2>2, <2>4 DEF OuterBodies
  <2> QED
    BY <2>3, <2>4
<1>2. CASE d # c
  BY <1>2 DEF Below, Open, OuterBodies
<1> QED
  BY <1>1, <1>2

LEMMA BodiesStep ==
  ASSUME Typed, Orderly, OuterBodies, [Next]_vars
  PROVE  OuterBodies'
<1>1. ASSUME UNCHANGED blocks PROVE OuterBodies'
  BY <1>1 DEF OuterBodies, Open
<1>2. ASSUME NEW c \in Contexts, error_try(c) PROVE OuterBodies'
  <2>1. PICK b \in Blocks : blocks' = [blocks EXCEPT ![c] = Append(@, b)]
    BY <1>2, TryTyped
  <2>2. Below(c, Open(c)) /\ Open(c)' = Open(c) + 1
    BY <2>1, Pushed DEF Typed, TypeOK, Stacks
  <2>3. Open(c) > 0 => Innermost(c).at = "body"
    BY <1>2 DEF error_try, InUserCode, Orderly, At
  <2>4. Open(c) \in 0 .. Open(c)
    BY TopTyped DEF Typed, TypeOK, Stacks
  <2> QED
    BY <2>2, <2>3, <2>4, BodiesKept
<1>3. ASSUME NEW c \in Contexts, Open(c) > 0, Below(c, Open(c) - 1),
             Open(c)' \in {Open(c), Open(c) - 1}
      PROVE  OuterBodies'
  <2>1. /\ Open(c) - 1 \in 0 .. Open(c) /\ Open(c)' # Open(c) + 1
        /\ Open(c)' \in {Open(c) - 1, Open(c) - 1 + 1}
    BY <1>3, TopTyped DEF Typed, TypeOK, Stacks
  <2> QED
    BY <1>3, <2>1, BodiesKept
<1>4. ASSUME NEW c \in Contexts, FinishBody(c) PROVE OuterBodies'
  BY <1>3, <1>4, Moved DEF FinishBody, At, Typed, TypeOK, Stacks
<1>5. ASSUME NEW c \in Contexts, close_try(c) PROVE OuterBodies'
  BY <1>3, <1>5, CloseTyped
<1>6. ASSUME NEW c \in Contexts, TestCatch(c) PROVE OuterBodies'
  BY <1>3, <1>6, TestTyped
<1>7. ASSUME NEW c \in Contexts, FinishCatch(c) PROVE OuterBodies'
  BY <1>3, <1>7, CatchTyped
<1>8. ASSUME NEW c \in Contexts, Land(c) PROVE OuterBodies'
  <2>1. CASE UNCHANGED blocks
    BY <1>1, <2>1
  <2>2. ASSUME NEW i \in 1 .. Open(c),
               blocks' = [blocks EXCEPT ![c] =
                 Append(SubSeq(@, 1, i - 1), [@[i] EXCEPT !.at = "closing"])]
        PROVE  OuterBodies'
    <3>1. [blocks[c][i] EXCEPT !.at = "closing"] \in Blocks
      BY TopTyped DEF Typed, TypeOK, Stacks, Blocks
    <3>2. blocks' = [blocks EXCEPT ![c] =
            Append(SubSeq(@, 1, i - 1), [blocks[c][i] EXCEPT !.at = "closing"])]
      BY <2>2 DEF Typed, TypeOK
    <3>3. Below(c, i - 1) /\ Open(c)' = i
      BY <3>1, <3>2, Replaced DEF Typed, TypeOK, Stacks
    <3>4. i - 1 \in 0 .. Open(c) /\ i \in {i - 1, i - 1 + 1} /\ i # Open(c) + 1
      BY TopTyped DEF Typed, TypeOK, Stacks
    <3> QED
      BY <3>3, <3>4, BodiesKept
  <2> QED
    BY <1>8, <2>1, <2>2, LandTyped
<1>9. ASSUME NEW c \in Contexts, error_throw(c) PROVE OuterBodies'
  BY <1>1, <1>9 DEF error_throw, Throw
<1>10. ASSUME StartScheduler \/ Preempt \/ InterruptThrow PROVE OuterBodies'
  BY <1>1, <1>10, SchedulerTyped
<1> QED
  BY <1>1, <1>2, <1>4, <1>5, <1>6, <1>7, <1>8, <1>9, <1>10
  DEF Next, Library, Application, vars

\* Habits are for good, and what has raced stays so.
LEMMA OrderlyKept == [Next]_vars => habits' = habits /\ (Orderly' => Orderly)
<1> SUFFICES ASSUME [Next]_vars PROVE habits' = habits /\ (raced => raced')
  BY DEF Orderly, Has
<1>1. ASSUME NEW c \in Contexts, Library(c) PROVE UNCHANGED <<habits, raced>>
  <2>1. CASE Land(c)
    BY <2>1, Zenon DEF Land
  <2> QED
    BY <1>1, <2>1 DEF Library, close_try, CloseMasked, TestCatch, FinishCatch, Finish
<1>2. ASSUME NEW c \in Contexts, Application(c) PROVE habits' = habits /\ (raced => raced')
  <2>1. CASE error_try(c)
    BY <2>1, Zenon DEF error_try
  <2>2. CASE error_throw(c)
    <3>1. habits' = habits /\ (JumpToCatch(c) \/ raced' = raced)
      BY <2>2 DEF error_throw, Throw, DeleteTask, BlockMcu
    <3>2. ASSUME JumpToCatch(c), raced PROVE raced'
      BY <3>2 DEF JumpToCatch, Jump
    <3>3. raced' = raced => (raced => raced')
      OBVIOUS
    <3> QED
      BY <3>1, <3>2, <3>3, Zenon
  <2> QED
    BY <1>2, <2>1, <2>2 DEF Application, FinishBody
<1>3. StartScheduler \/ Preempt \/ InterruptThrow => UNCHANGED <<habits, raced>>
  BY DEF StartScheduler, Preempt, InterruptThrow
<1> QED
  BY <1>1, <1>2, <1>3 DEF Next, vars

LEMMA OwnStep == OwnInv /\ [Next]_vars => OwnInv'
<1> SUFFICES ASSUME OwnInv, [Next]_vars PROVE OwnInv'
  OBVIOUS
<1>1. Typed /\ Typed'
  <2>1. CASE UNCHANGED vars
    BY <2>1 DEF OwnInv, vars, processor, globals, Typed, TypeOK, Managed, Open
  <2>2. ASSUME NEW c \in Contexts, Library(c) \/ Application(c) PROVE Typed'
    BY <2>2, TryTyped, FinishTyped, ThrowTyped, LandTyped, CloseTyped, TestTyped, CatchTyped
    DEF OwnInv, Library, Application, error_throw
  <2> QED
    BY <2>1, <2>2, SchedulerTyped DEF OwnInv, Next
<1>2. Orderly' => Orderly /\ ~raced'
  BY OrderlyKept DEF Orderly
<1>3. ASSUME Orderly' PROVE OuterBodies'
  BY <1>1, <1>2, <1>3, BodiesStep DEF OwnInv
<1>4. ASSUME Orderly, ~raced', mcu' = "up" PROVE Owned'
  <2>1. CASE UNCHANGED vars
    BY <1>4, <2>1
    DEF vars, processor, globals, OwnInv, Owned, OthersOut, ErrorPending, LoopOwns, TestClear,
        SavedClean, Handling, InLoop, At, Open, Innermost
  <2>2. ASSUME Next PROVE mcu = "up"
    <3>1. ASSUME NEW c \in Contexts, Library(c) PROVE mcu = "up"
      <4>1. CASE Land(c)
        BY <4>1, Zenon DEF Land
      <4> QED
        BY <3>1, <4>1 DEF Library, close_try, CloseMasked, TestCatch, FinishCatch, Finish, Runs
    <3>2. ASSUME NEW c \in Contexts, Application(c) PROVE mcu = "up"
      BY <3>2 DEF Application, error_try, FinishBody, error_throw, InUserCode, Runs
    <3>3. StartScheduler \/ Preempt \/ InterruptThrow => mcu = "up"
      BY DEF StartScheduler, Preempt, InterruptThrow, InUserCode, Runs
    <3> QED
      BY <2>2, <3>1, <3>2, <3>3 DEF Next
  <2>3. ASSUME NEW c \in Contexts, error_throw(c), Owned PROVE Owned'
    <3>1. c = cpu /\ status[c] = "running" /\ (At(c, "body") \/ At(c, "catch") \/ Open(c) = 0)
      <4>1. Open(c) \in Nat
        BY <1>1, TopTyped DEF Typed, TypeOK, Stacks
      <4>2. Runs(c) /\ (Open(c) > 0 => Innermost(c).at \in {"body", "catch"})
        BY <2>3 DEF error_throw, InUserCode
      <4> QED
        BY <4>1, <4>2 DEF Runs, At
    <3> QED
      BY <1>1, <1>4, <2>3, <3>1, ThrowOwn DEF error_throw
  <2>4. ASSUME Next PROVE Owned'
    BY <1>1, <1>4, <2>2, <2>3, <2>4, TryOwn, FinishOwn, LandOwn, CloseOwn, TestOwn, CatchOwn,
       SchedulerOwn
    DEF OwnInv, Next, Library, Application
  <2> QED
    BY <2>1, <2>4
<1> QED
  BY <1>1, <1>2, <1>3, <1>4 DEF OwnInv

\* error.h: the catch loop works on globals, yet while a catch body runs they are those of
\* its own context, however tasks take turns between throws and catches and however deep
\* tries nest, in an Orderly execution: no try is entered from a catch body, and no throw
\* under a try has met another context at the test of its loop.
THEOREM HandlersOwnGlobals == Spec => []HandlerOwnsGlobals
<1>1. OwnInv => HandlerOwnsGlobals
  BY DEF OwnInv, Owned, LoopOwns, InLoop, HandlerOwnsGlobals, Runs
<1> QED
  BY <1>1, OwnInit, OwnStep, PTL DEF Spec

-----------------------------------------------------------------------------
(* The catch that a throw reaches *)

\* Blocks of one context: each has a jump buffer of its own, and the state saved by
\* error_try is armed for no block further out than the next one.
StackInv(c) ==
  /\ \A i \in 1 .. Open(c) : blocks[c][i].buf <= tries
  /\ \A j \in 1 .. Open(c) : \A i \in 1 .. j - 1 : blocks[c][i].buf # blocks[c][j].buf
  /\ \A k \in 1 .. Open(c) : \A i \in 1 .. k - 2 :
       blocks[c][k].previous.try_buf # blocks[c][i].buf
  /\ \A k \in 2 .. Open(c) : blocks[c][k].previous.try_active

\* A block that is open is armed, and for none but the innermost block; only the end
\* of a catch hands the state back before its block is closed.
Armed(c) ==
  Open(c) > 0 =>
    /\ (Open(c) = 1 /\ At(c, "testing")) \/ manager[c].try_active
    /\ \A i \in 1 .. Open(c) - 1 :
         \/ manager[c].try_buf # blocks[c][i].buf
         \/ i = Open(c) - 1 /\ At(c, "testing") /\ ~manager[c].error_occurred

\* The pending error is that of the innermost block.
OwnError(c) ==
  /\ status[c] = "thrown" /\ Open(c) > 0 =>
       /\ Innermost(c).at \in {"body", "catch"}
       /\ manager[c].current_error = Innermost(c).buf
  /\ At(c, "closing") /\ manager[c].error_occurred => manager[c].current_error = Innermost(c).buf
  /\ At(c, "testing") /\ manager[c].error_occurred => Innermost(c).error = Innermost(c).buf
  /\ At(c, "catch") => Innermost(c).error = Innermost(c).buf
  /\ status[c] = "deleted" => Open(c) = 0

ContextInv(c) == StackInv(c) /\ Armed(c) /\ OwnError(c)

LEMMA TriesTyped == Typed => tries \in Nat /\ MaxTries \in Nat
<1>1. Typed => tries \in 0 .. MaxTries
  BY DEF Typed, TypeOK
<1> QED
  BY <1>1, ErrorsAssumption

LEMMA BlockTyped ==
  ASSUME Typed, NEW c \in Contexts
  PROVE  /\ Open(c) \in Nat
         /\ \A i \in 1 .. Open(c) : blocks[c][i] \in Blocks /\ blocks[c][i].buf \in Nat
         /\ Open(c) > 0 => Innermost(c) \in Blocks
<1>1. \A b \in Blocks : b.buf \in 0 .. MaxTries
  BY DEF Blocks, Bufs
<1> QED
  BY <1>1, TopTyped, ErrorsAssumption DEF Typed, TypeOK, Stacks

LEMMA StackKept ==
  ASSUME Typed, NEW c \in Contexts, StackInv(c), tries' \in Nat, tries <= tries',
         Open(c)' \in Nat, Open(c)' <= Open(c),
         \A i \in 1 .. Open(c)' : /\ blocks'[c][i].buf = blocks[c][i].buf
                                  /\ blocks'[c][i].previous = blocks[c][i].previous
  PROVE  StackInv(c)'
<1>1. Open(c) \in Nat /\ Open(c)' \in Nat
  BY BlockTyped
<1>2. tries \in Nat /\ tries' \in Nat
  BY TriesTyped
<1>3. \A i \in 1 .. Open(c) : blocks[c][i].buf \in Nat
  BY BlockTyped
<1>4. \A i \in 1 .. Open(c)' : i \in 1 .. Open(c)
  BY <1>1
<1>5. \A i \in 1 .. Open(c)' : blocks'[c][i].buf <= tries'
  BY <1>2, <1>3, <1>4 DEF StackInv
<1>6. \A j \in 1 .. Open(c)' : \A i \in 1 .. j - 1 :
        i \in 1 .. Open(c)' /\ blocks'[c][i].buf # blocks'[c][j].buf
  BY <1>1, <1>4 DEF StackInv
<1>7. \A k \in 1 .. Open(c)' : \A i \in 1 .. k - 2 :
        blocks'[c][k].previous.try_buf # blocks'[c][i].buf
  BY <1>1, <1>4 DEF StackInv
<1>8. \A k \in 2 .. Open(c)' : blocks'[c][k].previous.try_active
  BY <1>1, <1>4 DEF StackInv
<1> QED
  BY <1>5, <1>6, <1>7, <1>8 DEF StackInv

\* The step of another context.
LEMMA OtherContext ==
  ASSUME Typed, NEW c \in Contexts, ContextInv(c), tries' \in Nat, tries <= tries',
         blocks'[c] = blocks[c], status'[c] = status[c],
         Open(c) > 0 => manager'[c] = manager[c]
  PROVE  ContextInv(c)'
<1>1. Open(c)' = Open(c) /\ Innermost(c)' = Innermost(c) /\ Open(c) \in Nat
  BY BlockTyped DEF Open, Innermost
<1>2. StackInv(c)'
  BY <1>1, StackKept DEF ContextInv
<1>3. Armed(c)'
  BY <1>1 DEF ContextInv, Armed, At
<1>4. OwnError(c)'
  BY <1>1 DEF ContextInv, OwnError, At
<1> QED
  BY <1>2, <1>3, <1>4 DEF ContextInv

\* A step that changes no more of the stack than the place or the error of its top.
LEMMA TopChanged ==
  ASSUME Typed, NEW c \in Contexts, StackInv(c), tries' = tries, Open(c) > 0,
         Below(c, Open(c) - 1), Open(c)' = Open(c),
         Innermost(c)'.buf = Innermost(c).buf, Innermost(c)'.previous = Innermost(c).previous
  PROVE  /\ StackInv(c)'
         /\ \A i \in 1 .. Open(c) - 1 : blocks'[c][i].buf = blocks[c][i].buf
<1>1. Open(c) \in Nat /\ tries \in Nat
  BY BlockTyped, TriesTyped
<1>2. \A i \in 1 .. Open(c) - 1 : blocks'[c][i] = blocks[c][i]
  BY DEF Below
<1>3. \A i \in 1 .. Open(c) : i = Open(c) \/ i \in 1 .. Open(c) - 1
  BY <1>1
<1>4. /\ blocks'[c][Open(c)].buf = blocks[c][Open(c)].buf
      /\ blocks'[c][Open(c)].previous = blocks[c][Open(c)].previous
  BY DEF Innermost
<1>5. \A i \in 1 .. Open(c) : /\ blocks'[c][i].buf = blocks[c][i].buf
                              /\ blocks'[c][i].previous = blocks[c][i].previous
  BY <1>2, <1>3, <1>4, Zenon
<1>6. StackInv(c)'
  BY <1>1, <1>5, StackKept
<1> QED
  BY <1>2, <1>6

LEMMA TryCaught ==
  ASSUME Typed, Orderly, NEW c \in Contexts, ContextInv(c), error_try(c)
  PROVE  ContextInv(c)'
<1>1. PICK ones \in BOOLEAN :
       LET state == IF c \in DOMAIN manager THEN manager[c] ELSE Fresh(ones)
           armed == [state EXCEPT !.try_active = TRUE, !.try_buf = tries + 1]
       IN /\ manager' = [d \in DOMAIN manager \cup {c} |-> IF d = c THEN armed ELSE manager[d]]
          /\ blocks' = [blocks EXCEPT ![c] =
               Append(@, [buf |-> tries + 1, previous |-> state, at |-> "body", error |-> 0])]
  BY DEF error_try
<1> DEFINE state == IF c \in DOMAIN manager THEN manager[c] ELSE Fresh(ones)
           armed == [state EXCEPT !.try_active = TRUE, !.try_buf = tries + 1]
           b == [buf |-> tries + 1, previous |-> state, at |-> "body", error |-> 0]
           n == Open(c)
<1>2. /\ tries < MaxTries /\ tries' = tries + 1
      /\ status[c] = "running" /\ status' = status
      /\ n > 0 => Innermost(c).at = "body"
  BY DEF error_try, InUserCode, Runs, Orderly, At
<1>3. tries \in Nat /\ tries + 1 \in Bufs
  BY <1>2, TriesTyped DEF Bufs
<1>4. state \in States /\ (c \in DOMAIN manager => state = manager[c])
  BY FreshTyped DEF Typed, TypeOK
<1>5. armed.try_active /\ armed.try_buf = tries + 1
  BY <1>3, <1>4 DEF States
<1>6. b \in Blocks /\ b.at = "body" /\ b.previous = state /\ b.buf = tries + 1
  BY <1>3, <1>4, ZeroTyped DEF Blocks
<1>7. /\ manager' = [d \in DOMAIN manager \cup {c} |-> IF d = c THEN armed ELSE manager[d]]
      /\ blocks' = [blocks EXCEPT ![c] = Append(@, b)]
  BY <1>1
<1>8. n > 0 => /\ state = manager[c] /\ manager[c].try_active
               /\ \A i \in 1 .. n - 1 : manager[c].try_buf # blocks[c][i].buf
  <2>1. n > 0 => c \in DOMAIN manager
    BY DEF Typed, Managed
  <2> QED
    BY <1>2, <1>4, <2>1 DEF ContextInv, Armed, At
<1> HIDE DEF state, armed, b
<1>9. manager'[c] = armed
  BY <1>7
<1>10. Below(c, n) /\ Open(c)' = n + 1 /\ Innermost(c)' = b
  BY <1>6, <1>7, Pushed DEF Typed, TypeOK, Stacks
<1>11. /\ \A i \in 1 .. n : blocks'[c][i] = blocks[c][i]
       /\ blocks'[c][n + 1] = b
  BY <1>10 DEF Below, Innermost
<1>12. n \in Nat /\ \A i \in 1 .. n : blocks[c][i].buf \in Nat /\ blocks[c][i].buf <= tries
  BY BlockTyped DEF ContextInv, StackInv
<1> HIDE DEF n
<1>13. \A i \in 1 .. n : blocks[c][i].buf # tries + 1
  BY <1>3, <1>12
<1>14. StackInv(c)'
  <2>1. ASSUME NEW i \in 1 .. Open(c)' PROVE blocks'[c][i].buf <= tries'
    <3>1. CASE i = n + 1
      BY <1>2, <1>3, <1>6, <1>11, <3>1
    <3>2. CASE i \in 1 .. n
      <4>1. blocks[c][i].buf \in Nat /\ blocks[c][i].buf <= tries
        BY <1>12, <3>2
      <4> QED
        BY <1>2, <1>3, <1>11, <3>2, <4>1
    <3> QED
      BY <1>10, <1>12, <3>1, <3>2
  <2>2. ASSUME NEW j \in 1 .. Open(c)', NEW i \in 1 .. j - 1
        PROVE  blocks'[c][i].buf # blocks'[c][j].buf
    <3>1. i \in 1 .. n /\ (j = n + 1 \/ j \in 1 .. n)
      BY <1>10, <1>12
    <3>2. CASE j = n + 1
      BY <1>6, <1>11, <1>13, <3>1, <3>2
    <3>3. CASE j \in 1 .. n
      BY <1>11, <3>1, <3>3 DEF ContextInv, StackInv, n
    <3> QED
      BY <3>1, <3>2, <3>3
  <2>3. ASSUME NEW k \in 1 .. Open(c)', NEW i \in 1 .. k - 2
        PROVE  blocks'[c][k].previous.try_buf # blocks'[c][i].buf
    <3>1. i \in 1 .. n /\ (k = n + 1 \/ k \in 1 .. n)
      BY <1>10, <1>12
    <3>2. CASE k = n + 1
      <4>1. i \in 1 .. n - 1 /\ n > 0
        BY <1>12, <3>2
      <4> QED
        BY <1>6, <1>8, <1>11, <3>1, <3>2, <4>1 DEF n
    <3>3. CASE k \in 1 .. n
      BY <1>11, <3>1, <3>3 DEF ContextInv, StackInv, n
    <3> QED
      BY <3>1, <3>2, <3>3
  <2>4. ASSUME NEW k \in 2 .. Open(c)' PROVE blocks'[c][k].previous.try_active
    <3>1. (k = n + 1 /\ n > 0) \/ (k \in 2 .. n /\ k \in 1 .. n)
      BY <1>10, <1>12
    <3>2. CASE k = n + 1 /\ n > 0
      BY <1>6, <1>8, <1>11, <3>2 DEF n
    <3>3. CASE k \in 2 .. n /\ k \in 1 .. n
      BY <1>11, <3>3 DEF ContextInv, StackInv, n
    <3> QED
      BY <3>1, <3>2, <3>3
  <2> QED
    BY <2>1, <2>2, <2>3, <2>4 DEF StackInv
<1>15. Armed(c)'
  <2>1. \A i \in 1 .. Open(c)' - 1 : manager'[c].try_buf # blocks'[c][i].buf
    BY <1>5, <1>9, <1>10, <1>11, <1>12, <1>13
  <2> QED
    BY <1>5, <1>9, <2>1 DEF Armed
<1>16. OwnError(c)'
  BY <1>2, <1>6, <1>10 DEF OwnError, At
<1> QED
  BY <1>14, <1>15, <1>16 DEF ContextInv

LEMMA FinishCaught ==
  ASSUME Typed, Owned, NEW c \in Contexts, ContextInv(c), FinishBody(c)
  PROVE  ContextInv(c)'
<1>1. /\ Open(c) > 0 /\ Below(c, Open(c) - 1) /\ Open(c)' = Open(c)
      /\ Innermost(c)' = [Innermost(c) EXCEPT !.at = "closing"]
  BY Moved DEF FinishBody, At, Typed, TypeOK, Stacks
<1>2. /\ status[c] = "running" /\ status' = status /\ manager' = manager /\ tries' = tries
      /\ Innermost(c).at = "body"
  BY DEF FinishBody, Runs, At
<1>3. /\ Innermost(c)'.at = "closing" /\ Innermost(c)'.previous = Innermost(c).previous
      /\ Innermost(c)'.buf = Innermost(c).buf
  BY <1>1, BlockTyped DEF Blocks
<1>4. /\ StackInv(c)'
      /\ \A i \in 1 .. Open(c) - 1 : blocks'[c][i].buf = blocks[c][i].buf
  BY <1>1, <1>2, <1>3, TopChanged DEF ContextInv
<1>5. c \in DOMAIN manager /\ ~manager[c].error_occurred
  BY <1>1, <1>2 DEF Owned, ErrorPending, InLoop, At, Typed, Managed
<1>6. Armed(c)'
  BY <1>1, <1>2, <1>4 DEF ContextInv, Armed, At
<1>7. OwnError(c)'
  BY <1>1, <1>2, <1>3, <1>5 DEF OwnError, At
<1> QED
  BY <1>4, <1>6, <1>7 DEF ContextInv

LEMMA ThrowCaught ==
  ASSUME Typed, NEW c \in Contexts, ContextInv(c), status[c] = "running",
         Open(c) > 0 => Innermost(c).at \in {"body", "catch"}, Throw(c)
  PROVE  ContextInv(c)'
<1>1. blocks' = blocks /\ tries' = tries /\ tries \in Nat /\ Open(c) \in Nat
  BY TriesTyped, BlockTyped DEF Throw
<1>2. Open(c)' = Open(c) /\ Innermost(c)' = Innermost(c)
  BY <1>1 DEF Open, Innermost
<1>3. StackInv(c)'
  BY <1>1, <1>2, StackKept DEF ContextInv
<1>4. CASE JumpToCatch(c)
  <2>1. /\ c \in DOMAIN manager /\ manager[c].try_active /\ manager[c] \in States
        /\ status'[c] = "thrown"
        /\ manager'[c] = [manager[c] EXCEPT !.error_occurred = TRUE, !.current_error = Origin(c)]
    BY <1>4 DEF JumpToCatch, Jump, TryActive, Typed, TypeOK
  <2>2. /\ manager'[c].try_active /\ manager'[c].try_buf = manager[c].try_buf
        /\ manager'[c].current_error = Origin(c)
    BY <2>1 DEF States
  <2>3. Open(c) > 0 => Origin(c) = Innermost(c).buf
    BY DEF Origin, At
  <2>4. Armed(c)'
    BY <1>1, <1>2, <2>2 DEF ContextInv, Armed, At
  <2>5. OwnError(c)'
    BY <1>2, <2>1, <2>2, <2>3 DEF ContextInv, OwnError, At
  <2> QED
    BY <1>3, <2>4, <2>5 DEF ContextInv
<1>5. CASE DeleteTask(c)
  <2>1. ~TryActive(c) /\ manager' = manager /\ status'[c] = "deleted"
    BY <1>5 DEF DeleteTask, Typed, TypeOK
  <2>2. Open(c) > 0 => TryActive(c)
    BY DEF TryActive, ContextInv, Armed, At, Typed, Managed
  <2>3. Open(c) = 0
    BY <1>1, <2>1, <2>2
  <2> QED
    BY <1>2, <1>3, <2>1, <2>3 DEF ContextInv, Armed, OwnError, At
<1>6. CASE BlockMcu(c)
  BY <1>1, <1>6, OtherContext DEF BlockMcu
<1> QED
  BY <1>4, <1>5, <1>6 DEF Throw

\* longjmp finds the block it jumps to on top of the stack.
LEMMA LandCaught ==
  ASSUME Typed, NEW c \in Contexts, ContextInv(c), Land(c)
  PROVE  ContextInv(c)'
<1>1. /\ status[c] = "thrown" /\ status'[c] = "running" /\ manager' = manager /\ tries' = tries
      /\ tries \in Nat /\ Open(c) \in Nat
  BY TriesTyped, BlockTyped DEF Land, Typed, TypeOK
<1>2. Open(c) > 0 => /\ Innermost(c).at \in {"body", "catch"}
                     /\ manager[c].current_error = Innermost(c).buf
                     /\ manager[c].try_active
                     /\ \A i \in 1 .. Open(c) - 1 : manager[c].try_buf # blocks[c][i].buf
  BY <1>1 DEF ContextInv, OwnError, Armed, At
<1>3. CASE UNCHANGED blocks
  <2>1. Open(c)' = Open(c) /\ Innermost(c)' = Innermost(c)
    BY <1>3 DEF Open, Innermost
  <2>2. StackInv(c)'
    BY <1>1, <1>3, <2>1, StackKept DEF ContextInv
  <2>3. Armed(c)'
    BY <1>1, <1>2, <1>3, <2>1 DEF Armed
  <2>4. OwnError(c)'
    BY <1>1, <1>2, <2>1 DEF ContextInv, OwnError, At
  <2> QED
    BY <2>2, <2>3, <2>4 DEF ContextInv
<1>4. ASSUME NEW i \in 1 .. Open(c), blocks[c][i].buf = manager[c].try_buf,
             blocks' = [blocks EXCEPT ![c] =
               Append(SubSeq(@, 1, i - 1), [@[i] EXCEPT !.at = "closing"])]
      PROVE  ContextInv(c)'
  <2>1. i = Open(c) /\ Open(c) > 0
    BY <1>1, <1>2, <1>4
  <2> DEFINE b == [Innermost(c) EXCEPT !.at = "closing"]
  <2>2. /\ b \in Blocks /\ b.at = "closing" /\ b.buf = Innermost(c).buf
        /\ b.previous = Innermost(c).previous
    BY <2>1, BlockTyped DEF Blocks
  <2>3. blocks' = [blocks EXCEPT ![c] = Append(SubSeq(@, 1, i - 1), b)]
    BY <1>4, <2>1 DEF Innermost, Typed, TypeOK
  <2> HIDE DEF b
  <2>4. Below(c, Open(c) - 1) /\ Open(c)' = Open(c) /\ Innermost(c)' = b
    BY <2>1, <2>2, <2>3, Replaced DEF Typed, TypeOK, Stacks
  <2>5. StackInv(c)' /\ \A j \in 1 .. Open(c) - 1 : blocks'[c][j].buf = blocks[c][j].buf
    BY <1>1, <2>1, <2>2, <2>4, TopChanged DEF ContextInv
  <2>6. Armed(c)'
    BY <1>1, <1>2, <2>1, <2>4, <2>5 DEF Armed
  <2>7. OwnError(c)'
    BY <1>1, <1>2, <2>1, <2>2, <2>4 DEF OwnError, At
  <2> QED
    BY <2>5, <2>6, <2>7 DEF ContextInv
<1> QED
  BY <1>3, <1>4, LandTyped

LEMMA CloseCaught ==
  ASSUME Typed, NEW c \in Contexts, ContextInv(c), close_try(c)
  PROVE  ContextInv(c)'
<1>1. /\ Open(c) > 0 /\ Below(c, Open(c) - 1) /\ Open(c)' = Open(c)
      /\ Innermost(c)' = [Innermost(c) EXCEPT !.at = "testing",
                                              !.error = manager[c].current_error]
  BY CloseTyped
<1>2. /\ status[c] = "running" /\ status' = status /\ manager' = manager /\ tries' = tries
      /\ At(c, "closing") /\ Innermost(c).at = "closing"
  BY DEF close_try, CloseMasked, Runs, At
<1>3. /\ Innermost(c)'.at = "testing" /\ Innermost(c)'.previous = Innermost(c).previous
      /\ Innermost(c)'.buf = Innermost(c).buf /\ Innermost(c)'.error = manager[c].current_error
  BY <1>1, BlockTyped DEF Blocks
<1>4. /\ StackInv(c)'
      /\ \A i \in 1 .. Open(c) - 1 : blocks'[c][i].buf = blocks[c][i].buf
  BY <1>1, <1>2, <1>3, TopChanged DEF ContextInv
<1>5. Armed(c)'
  BY <1>1, <1>2, <1>4 DEF ContextInv, Armed, At
<1>6. OwnError(c)'
  BY <1>1, <1>2, <1>3 DEF ContextInv, OwnError, At
<1> QED
  BY <1>4, <1>5, <1>6 DEF ContextInv

LEMMA TestCaught ==
  ASSUME Typed, Owned, OuterBodies, NEW c \in Contexts, ContextInv(c), TestCatch(c)
  PROVE  ContextInv(c)'
<1>1. /\ Open(c) > 0 /\ Below(c, Open(c) - 1)
      /\ \/ /\ manager[em_ptr_global].error_occurred /\ Open(c)' = Open(c)
            /\ Innermost(c)' = [Innermost(c) EXCEPT !.at = "catch"]
         \/ ~manager[em_ptr_global].error_occurred /\ Open(c)' = Open(c) - 1
  BY TestTyped
<1>2. /\ c = cpu /\ status[c] = "running" /\ status' = status /\ manager' = manager
      /\ tries' = tries /\ Innermost(c).at = "testing" /\ At(c, "testing")
      /\ em_ptr_global \in DOMAIN manager
  BY DEF TestCatch, Runs, At, Typed, TypeOK
<1>3. Open(c) \in Nat /\ tries \in Nat
  BY BlockTyped, TriesTyped
<1>4. CASE manager[em_ptr_global].error_occurred
  <2>1. InLoop(c)
    BY <1>2, <1>4 DEF Owned, TestClear, Handling
  <2>2. em_ptr_global = c /\ manager[c].error_occurred /\ manager[c].try_active
    BY <1>2, <1>4, <2>1 DEF Owned, LoopOwns, ErrorPending, Typed, TypeOK
  <2>3. Open(c)' = Open(c) /\ Innermost(c)' = [Innermost(c) EXCEPT !.at = "catch"]
    BY <1>1, <1>4
  <2>4. /\ Innermost(c)'.at = "catch" /\ Innermost(c)'.previous = Innermost(c).previous
        /\ Innermost(c)'.buf = Innermost(c).buf /\ Innermost(c)'.error = Innermost(c).error
    BY <1>1, <2>3, BlockTyped DEF Blocks
  <2>5. /\ StackInv(c)'
        /\ \A i \in 1 .. Open(c) - 1 : blocks'[c][i].buf = blocks[c][i].buf
    BY <1>1, <1>2, <2>3, <2>4, TopChanged DEF ContextInv
  <2>6. Armed(c)'
    BY <1>1, <1>2, <2>2, <2>3, <2>5 DEF ContextInv, Armed
  <2>7. OwnError(c)'
    BY <1>1, <1>2, <2>2, <2>3, <2>4 DEF ContextInv, OwnError, At
  <2> QED
    BY <2>5, <2>6, <2>7 DEF ContextInv
<1>5. CASE ~manager[em_ptr_global].error_occurred
  <2>1. Open(c)' = Open(c) - 1 /\ Open(c)' \in Nat /\ Open(c)' <= Open(c)
    BY <1>1, <1>3, <1>5
  <2>2. \A i \in 1 .. Open(c)' : blocks'[c][i] = blocks[c][i] /\ blocks[c][i].at = "body"
    BY <1>1, <2>1 DEF Below, OuterBodies
  <2>3. StackInv(c)'
    BY <1>2, <1>3, <2>1, <2>2, StackKept DEF ContextInv
  <2>4. Open(c)' > 0 => Open(c)' \in 1 .. Open(c)' /\ Open(c) # 1
    BY <1>3, <2>1
  <2>5. Open(c)' > 0 => Innermost(c)'.at = "body"
    BY <2>2, <2>4 DEF Innermost
  <2>6. \A i \in 1 .. Open(c)' - 1 : /\ i \in 1 .. Open(c) - 1 /\ i # Open(c) - 1
                                     /\ blocks'[c][i] = blocks[c][i]
    BY <1>3, <2>1, <2>2
  <2>7. Armed(c)'
    BY <1>1, <1>2, <2>4, <2>6 DEF ContextInv, Armed
  <2>8. OwnError(c)'
    BY <1>2, <2>5 DEF OwnError, At
  <2> QED
    BY <2>3, <2>7, <2>8 DEF ContextInv
<1> QED
  BY <1>4, <1>5

LEMMA CatchCaught ==
  ASSUME Typed, Owned, NEW c \in Contexts, ContextInv(c), FinishCatch(c)
  PROVE  /\ ContextInv(c)'
         /\ \A d \in DOMAIN manager \ {c} : manager'[d] = manager[d]
<1>1. /\ Open(c) > 0 /\ Below(c, Open(c) - 1) /\ Open(c)' = Open(c)
      /\ Innermost(c)' = [Innermost(c) EXCEPT !.at = "testing"]
  BY CatchTyped
<1>2. /\ c = cpu /\ status[c] = "running" /\ status' = status /\ tries' = tries
      /\ At(c, "catch")
      /\ manager' = [manager EXCEPT ![em_ptr_global] = previous_global]
  BY DEF FinishCatch, Finish, Runs
<1>3. /\ Innermost(c)'.at = "testing" /\ Innermost(c)'.previous = Innermost(c).previous
      /\ Innermost(c)'.buf = Innermost(c).buf
  BY <1>1, BlockTyped DEF Blocks
<1>4. /\ em_ptr_global = c /\ previous_global = Innermost(c).previous
      /\ ~previous_global.error_occurred /\ c \in DOMAIN manager
  BY <1>1, <1>2 DEF Owned, LoopOwns, InLoop, SavedClean, Typed, Managed
<1>5. /\ manager'[c] = Innermost(c).previous /\ ~manager'[c].error_occurred
      /\ \A d \in DOMAIN manager \ {c} : manager'[d] = manager[d]
  BY <1>2, <1>4
<1>6. /\ StackInv(c)'
      /\ \A i \in 1 .. Open(c) - 1 : blocks'[c][i].buf = blocks[c][i].buf
  BY <1>1, <1>2, <1>3, TopChanged DEF ContextInv
<1>7. Open(c) \in Nat /\ At(c, "testing")'
  BY <1>1, <1>3, BlockTyped DEF At
<1>8. Armed(c)'
  <2>1. Open(c) = 1 \/ manager'[c].try_active
    <3>1. Open(c) = 1 \/ Open(c) \in 2 .. Open(c)
      BY <1>1, <1>7
    <3> QED
      BY <1>5, <3>1 DEF ContextInv, StackInv, Innermost
  <2>2. ASSUME NEW i \in 1 .. Open(c) - 1, i # Open(c) - 1
        PROVE  manager'[c].try_buf # blocks[c][i].buf
    <3>1. Open(c) \in 1 .. Open(c) /\ i \in 1 .. Open(c) - 2
      BY <1>1, <1>7, <2>2
    <3> QED
      BY <1>5, <3>1 DEF ContextInv, StackInv, Innermost
  <2> QED
    BY <1>1, <1>5, <1>6, <1>7, <2>1, <2>2 DEF Armed
<1>9. OwnError(c)'
  BY <1>2, <1>3, <1>5 DEF OwnError, At
<1> QED
  BY <1>5, <1>6, <1>8, <1>9 DEF ContextInv

CaughtInv == OwnInv /\ (Orderly => \A c \in Contexts : ContextInv(c))

LEMMA CaughtInit == Init => CaughtInv
<1> SUFFICES ASSUME Init PROVE CaughtInv
  OBVIOUS
<1>1. \A c \in Contexts : Open(c) = 0 /\ status[c] = "running"
  BY DEF Init, Open
<1>2. \A c \in Contexts : ContextInv(c)
  BY <1>1 DEF ContextInv, StackInv, Armed, OwnError, At
<1> QED
  BY <1>2, OwnInit DEF CaughtInv

LEMMA ContextStep ==
  ASSUME OwnInv, Owned, Orderly, \A d \in Contexts : ContextInv(d),
         NEW c \in Contexts, Library(c) \/ Application(c), NEW d \in Contexts
  PROVE  ContextInv(d)'
<1>1. Typed /\ OuterBodies /\ tries \in Nat
  BY TriesTyped DEF OwnInv
<1>2. CASE d = c
  <2>1. error_throw(c) => ContextInv(c)'
    BY <1>1, ThrowCaught DEF error_throw, InUserCode, Runs
  <2> QED
    BY <1>1, <1>2, <2>1, TryCaught, FinishCaught, LandCaught, CloseCaught, TestCaught, CatchCaught
    DEF Library, Application
<1>3. CASE d # c
  <2>1. tries' \in Nat /\ tries <= tries'
    <3>1. tries' = tries \/ tries' = tries + 1
      BY DEF Library, Application, Land, close_try, CloseMasked, TestCatch, FinishCatch, Finish,
             error_try, FinishBody, error_throw, Throw
    <3> QED
      BY <1>1, <3>1
  <2>2. blocks'[d] = blocks[d]
    <3>1. blocks' = blocks \/ \E s : blocks' = [blocks EXCEPT ![c] = s]
      BY DEF Library, Application, Land, close_try, CloseMasked, TestCatch, FinishCatch, Finish,
             error_try, FinishBody, error_throw, Throw, Move
    <3> QED
      BY <1>1, <1>3, <3>1 DEF Typed, TypeOK
  <2>3. status'[d] = status[d]
    BY <1>1, <1>3
    DEF Library, Application, Land, close_try, CloseMasked, TestCatch, FinishCatch, Finish,
        error_try, FinishBody, error_throw, Throw, JumpToCatch, Jump, DeleteTask, BlockMcu,
        Typed, TypeOK
  <2>4. Open(d) > 0 => manager'[d] = manager[d]
    <3>1. Open(d) > 0 => d \in DOMAIN manager
      BY <1>1 DEF Typed, Managed
    <3>2. CASE error_try(c)
      BY <1>3, <3>1, <3>2 DEF error_try
    <3>3. CASE FinishCatch(c)
      BY <1>1, <1>3, <3>1, <3>3, CatchCaught
    <3>4. CASE error_throw(c)
      BY <1>3, <3>1, <3>4 DEF error_throw, Throw, JumpToCatch, Jump, DeleteTask, BlockMcu
    <3>5. CASE Land(c) \/ close_try(c) \/ TestCatch(c) \/ FinishBody(c)
      BY <3>5 DEF Land, close_try, CloseMasked, TestCatch, FinishBody
    <3> QED
      BY <3>2, <3>3, <3>4, <3>5 DEF Library, Application
  <2> QED
    BY <1>1, <2>1, <2>2, <2>3, <2>4, OtherContext
<1> QED
  BY <1>2, <1>3

LEMMA CaughtStep == CaughtInv /\ [Next]_vars => CaughtInv'
<1> SUFFICES ASSUME CaughtInv, [Next]_vars PROVE CaughtInv'
  OBVIOUS
<1>1. OwnInv'
  BY OwnStep DEF CaughtInv
<1>2. Orderly' => Orderly
  BY OrderlyKept
<1>3. ASSUME Orderly, NEW d \in Contexts PROVE ContextInv(d)'
  <2>1. Typed /\ ContextInv(d) /\ tries \in Nat /\ \A e \in Contexts : ContextInv(e)
    BY <1>3, TriesTyped DEF CaughtInv, OwnInv
  <2>2. CASE UNCHANGED <<blocks, status, manager, tries>>
    BY <2>1, <2>2, OtherContext
  <2>3. ASSUME NEW c \in Contexts, Library(c) \/ Application(c) PROVE ContextInv(d)'
    <3>1. mcu = "up"
      BY <2>3 DEF Library, Application, Land, close_try, CloseMasked, TestCatch, FinishCatch,
                  Finish, error_try, FinishBody, error_throw, InUserCode, Runs
    <3>2. Owned
      BY <1>3, <3>1 DEF CaughtInv, OwnInv
    <3> QED
      BY <1>3, <2>1, <2>3, <3>2, ContextStep DEF CaughtInv
  <2> QED
    BY <2>2, <2>3 DEF Next, vars, StartScheduler, Preempt, InterruptThrow
<1> QED
  BY <1>1, <1>2, <1>3 DEF CaughtInv

\* error.h: the error that a catch body sees was thrown in its own try, and a throw deletes a
\* task only where no try is open, also when tasks preempt each other between a throw and
\* its catch, in an Orderly execution.
THEOREM ErrorsCaughtByInnermost == Spec => []CaughtByInnermost
<1>1. CaughtInv => CaughtByInnermost
  BY DEF CaughtInv, ContextInv, OwnError, CaughtByInnermost
<1> QED
  BY <1>1, CaughtInit, CaughtStep, PTL DEF Spec

-----------------------------------------------------------------------------
(* Throws that land *)

\* A program whose tries all end with an error and whose heap is clean.
AllThrow == Orderly /\ ~Has("finish") /\ ~Has("dirty heap")

\* A catch has handed the saved state back, its block is not closed yet.
Restored(c) == At(c, "testing") /\ ~manager[c].error_occurred

\* The states saved on the stack form a chain: each is armed for the block below, the
\* first for none.
Chained(c) ==
  /\ \A k \in 2 .. Open(c) : blocks[c][k].previous.try_buf = blocks[c][k - 1].buf
  /\ Open(c) > 0 => ~blocks[c][1].previous.try_active

\* The manager state is the next link.
NextLink(c) ==
  /\ Open(c) = 0 /\ c \in DOMAIN manager => ~manager[c].try_active
  /\ Open(c) > 0 /\ Restored(c) =>
       /\ manager[c].try_active = Innermost(c).previous.try_active
       /\ manager[c].try_buf = Innermost(c).previous.try_buf
  /\ Open(c) > 0 /\ ~Restored(c) =>
       manager[c].try_active /\ manager[c].try_buf = Innermost(c).buf

\* Blocks close after a throw only, which finds one.
ClosedByThrow(c) ==
  /\ status[c] = "thrown" \/ At(c, "closing") => manager[c].error_occurred
  /\ status[c] = "thrown" => Open(c) > 0

LinkInv(c) == Chained(c) /\ NextLink(c) /\ ClosedByThrow(c)

ArmedInv ==
  /\ CaughtInv
  /\ AllThrow => /\ \A c \in Contexts : LinkInv(c)
                 /\ mcu = "undefined" => Has("interrupt throws")

\* A step that leaves the stack of c, its manager state and its status.
LEMMA LinkKept ==
  ASSUME Typed, NEW c \in Contexts, LinkInv(c),
         blocks'[c] = blocks[c], status'[c] = status[c],
         Open(c) > 0 => manager'[c] = manager[c],
         Open(c) = 0 /\ c \in DOMAIN manager' => c \in DOMAIN manager /\ manager'[c] = manager[c]
  PROVE  LinkInv(c)'
<1>1. Open(c)' = Open(c) /\ Innermost(c)' = Innermost(c) /\ Open(c) \in Nat
  BY BlockTyped DEF Open, Innermost
<1>2. Chained(c)'
  BY <1>1 DEF LinkInv, Chained
<1>3. NextLink(c)'
  <2>1. CASE Open(c) = 0
    BY <1>1, <2>1 DEF LinkInv, NextLink
  <2>2. CASE Open(c) > 0
    <3>1. Restored(c)' = Restored(c)
      BY <1>1, <2>2 DEF Restored, At
    <3> QED
      BY <1>1, <2>2, <3>1 DEF LinkInv, NextLink
  <2> QED
    BY <1>1, <2>1, <2>2
<1>4. ClosedByThrow(c)'
  BY <1>1 DEF LinkInv, ClosedByThrow, At
<1> QED
  BY <1>2, <1>3, <1>4 DEF LinkInv

\* A step that changes no more of the stack than the place or the error of its top.
LEMMA ChainKept ==
  ASSUME Typed, NEW c \in Contexts, Chained(c), Open(c) > 0,
         Below(c, Open(c) - 1), Open(c)' = Open(c),
         Innermost(c)'.buf = Innermost(c).buf, Innermost(c)'.previous = Innermost(c).previous
  PROVE  Chained(c)'
<1>1. Open(c) \in Nat
  BY BlockTyped
<1>2. \A i \in 1 .. Open(c) - 1 : blocks'[c][i] = blocks[c][i]
  BY DEF Below
<1>3. \A i \in 1 .. Open(c) : i = Open(c) \/ i \in 1 .. Open(c) - 1
  BY <1>1
<1>4. /\ blocks'[c][Open(c)].buf = blocks[c][Open(c)].buf
      /\ blocks'[c][Open(c)].previous = blocks[c][Open(c)].previous
  BY DEF Innermost
<1>5. \A i \in 1 .. Open(c) : /\ blocks'[c][i].buf = blocks[c][i].buf
                              /\ blocks'[c][i].previous = blocks[c][i].previous
  BY <1>2, <1>3, <1>4, Zenon
<1>6. \A k \in 2 .. Open(c) : k \in 1 .. Open(c) /\ k - 1 \in 1 .. Open(c)
  BY <1>1
<1>7. 1 \in 1 .. Open(c)
  BY <1>1
<1> QED
  BY <1>5, <1>6, <1>7 DEF Chained

LEMMA TryLinks ==
  ASSUME Typed, AllThrow, NEW c \in Contexts, LinkInv(c), error_try(c)
  PROVE  LinkInv(c)'
<1>1. PICK ones \in BOOLEAN :
       LET state == IF c \in DOMAIN manager THEN manager[c] ELSE Fresh(ones)
           armed == [state EXCEPT !.try_active = TRUE, !.try_buf = tries + 1]
       IN /\ ones => Has("dirty heap")
          /\ manager' = [d \in DOMAIN manager \cup {c} |-> IF d = c THEN armed ELSE manager[d]]
          /\ blocks' = [blocks EXCEPT ![c] =
               Append(@, [buf |-> tries + 1, previous |-> state, at |-> "body", error |-> 0])]
  BY DEF error_try
<1> DEFINE state == IF c \in DOMAIN manager THEN manager[c] ELSE Fresh(ones)
           armed == [state EXCEPT !.try_active = TRUE, !.try_buf = tries + 1]
           b == [buf |-> tries + 1, previous |-> state, at |-> "body", error |-> 0]
           n == Open(c)
<1>2. /\ tries < MaxTries /\ status[c] = "running" /\ status' = status
      /\ n > 0 => Innermost(c).at = "body"
  BY DEF error_try, InUserCode, Runs, AllThrow, Orderly, At
<1>3. tries \in Nat /\ tries + 1 \in Bufs /\ n \in Nat
  BY <1>2, TriesTyped, BlockTyped DEF Bufs
<1>4. /\ state \in States /\ (c \in DOMAIN manager => state = manager[c])
      /\ c \notin DOMAIN manager => ~state.try_active
  BY <1>1, FreshTyped DEF Typed, TypeOK, AllThrow, Fresh
<1>5. armed.try_active /\ armed.try_buf = tries + 1
  BY <1>3, <1>4 DEF States
<1>6. b \in Blocks /\ b.at = "body" /\ b.previous = state /\ b.buf = tries + 1
  BY <1>3, <1>4, ZeroTyped DEF Blocks
<1>7. /\ manager' = [d \in DOMAIN manager \cup {c} |-> IF d = c THEN armed ELSE manager[d]]
      /\ blocks' = [blocks EXCEPT ![c] = Append(@, b)]
  BY <1>1
<1>8. n > 0 => /\ state = manager[c] /\ manager[c].try_active
               /\ manager[c].try_buf = Innermost(c).buf
  <2>1. n > 0 => c \in DOMAIN manager /\ ~Restored(c)
    BY <1>2 DEF Typed, Managed, Restored, At
  <2> QED
    BY <1>4, <2>1 DEF LinkInv, NextLink
<1>9. n = 0 => ~state.try_active
  BY <1>4 DEF LinkInv, NextLink
<1> HIDE DEF state, armed, b
<1>10. manager'[c] = armed
  BY <1>7
<1>11. Below(c, n) /\ Open(c)' = n + 1 /\ Innermost(c)' = b
  BY <1>6, <1>7, Pushed DEF Typed, TypeOK, Stacks
<1>12. /\ \A i \in 1 .. n : blocks'[c][i] = blocks[c][i]
       /\ blocks'[c][n + 1] = b
  BY <1>11 DEF Below, Innermost
<1>13. n > 0 => blocks[c][n] = Innermost(c)
  BY DEF Innermost
<1> HIDE DEF n
<1>14. Chained(c)'
  <2>1. ASSUME NEW k \in 2 .. Open(c)'
        PROVE  blocks'[c][k].previous.try_buf = blocks'[c][k - 1].buf
    <3>1. CASE k = n + 1
      <4>1. n > 0 /\ k - 1 = n /\ n \in 1 .. n
        BY <1>3, <3>1
      <4> QED
        BY <1>6, <1>8, <1>12, <1>13, <3>1, <4>1
    <3>2. CASE k # n + 1
      <4>1. k \in 2 .. n /\ k \in 1 .. n /\ k - 1 \in 1 .. n
        BY <1>3, <1>11, <3>2
      <4> QED
        BY <1>12, <4>1 DEF LinkInv, Chained, n
    <3> QED
      BY <3>1, <3>2
  <2>2. ~blocks'[c][1].previous.try_active
    <3>1. CASE n = 0
      <4>1. blocks'[c][1] = b
        BY <1>12, <3>1
      <4> QED
        BY <1>6, <1>9, <3>1, <4>1
    <3>2. CASE n > 0
      <4>1. 1 \in 1 .. n
        BY <1>3, <3>2
      <4> QED
        BY <1>12, <3>2, <4>1 DEF LinkInv, Chained, n
    <3> QED
      BY <1>3, <3>1, <3>2
  <2> QED
    BY <2>1, <2>2 DEF Chained
<1>15. NextLink(c)'
  <2>1. ~Restored(c)'
    BY <1>6, <1>11 DEF Restored, At
  <2>2. Open(c)' > 0 /\ Open(c)' # 0
    BY <1>3, <1>11
  <2> QED
    BY <1>5, <1>6, <1>10, <1>11, <2>1, <2>2 DEF NextLink
<1>16. ClosedByThrow(c)'
  BY <1>2, <1>6, <1>11 DEF ClosedByThrow, At
<1> QED
  BY <1>14, <1>15, <1>16 DEF LinkInv

LEMMA ThrowLinks ==
  ASSUME Typed, NEW c \in Contexts, ContextInv(c), LinkInv(c), status[c] = "running",
         Open(c) > 0 => Innermost(c).at \in {"body", "catch"}, Throw(c)
  PROVE  LinkInv(c)'
<1>1. blocks' = blocks /\ Open(c) \in Nat
  BY BlockTyped DEF Throw
<1>2. Open(c)' = Open(c) /\ Innermost(c)' = Innermost(c) /\ ~Restored(c)
  BY <1>1 DEF Open, Innermost, Restored, At
<1>3. Chained(c)'
  BY <1>1, <1>2 DEF LinkInv, Chained
<1>4. CASE JumpToCatch(c)
  <2>1. /\ c \in DOMAIN manager /\ manager[c].try_active /\ manager[c] \in States
        /\ status'[c] = "thrown"
        /\ manager'[c] = [manager[c] EXCEPT !.error_occurred = TRUE, !.current_error = Origin(c)]
    BY <1>4 DEF JumpToCatch, Jump, TryActive, Typed, TypeOK
  <2>2. /\ manager'[c].try_active /\ manager'[c].try_buf = manager[c].try_buf
        /\ manager'[c].error_occurred
    BY <2>1 DEF States
  <2>3. Open(c) > 0
    <3>1. Open(c) # 0
      BY <2>1, Zenon DEF LinkInv, NextLink
    <3> QED
      BY <1>1, <3>1
  <2>4. NextLink(c)'
    <3>1. manager[c].try_buf = Innermost(c).buf
      BY <1>1, <1>2, <2>3 DEF LinkInv, NextLink
    <3>2. ~Restored(c)'
      BY <2>2 DEF Restored
    <3>3. Open(c)' # 0 /\ Innermost(c)'.buf = Innermost(c).buf
      BY <1>2, <2>3
    <3> QED
      BY <2>2, <3>1, <3>2, <3>3, Zenon DEF NextLink
  <2>5. ClosedByThrow(c)'
    BY <1>2, <2>2, <2>3 DEF ClosedByThrow
  <2> QED
    BY <1>3, <2>4, <2>5 DEF LinkInv
<1>5. CASE DeleteTask(c)
  <2>1. ~TryActive(c) /\ manager' = manager /\ status'[c] = "deleted"
    BY <1>5 DEF DeleteTask, Typed, TypeOK
  <2>2. Open(c) = 0
    <3>1. Open(c) > 0 => TryActive(c)
      BY <1>2 DEF TryActive, LinkInv, NextLink, Typed, Managed
    <3> QED
      BY <1>1, <2>1, <3>1
  <2>3. NextLink(c)'
    BY <1>2, <2>1, <2>2 DEF LinkInv, NextLink
  <2>4. ClosedByThrow(c)'
    BY <1>2, <2>1, <2>2 DEF ClosedByThrow, At
  <2> QED
    BY <1>3, <2>3, <2>4 DEF LinkInv
<1>6. CASE BlockMcu(c)
  BY <1>1, <1>6, LinkKept DEF BlockMcu
<1> QED
  BY <1>4, <1>5, <1>6 DEF Throw

\* The jump buffer is that of the innermost block.
LEMMA LandLinks ==
  ASSUME Typed, NEW c \in Contexts, ContextInv(c), LinkInv(c), Land(c)
  PROVE  LinkInv(c)' /\ mcu' = mcu
<1>1. /\ status[c] = "thrown" /\ status'[c] = "running" /\ manager' = manager
      /\ Open(c) \in Nat
  BY BlockTyped DEF Land, Typed, TypeOK
<1>2. Open(c) > 0 /\ Open(c) # 0 /\ manager[c].error_occurred /\ ~Restored(c)
  BY <1>1 DEF LinkInv, ClosedByThrow, Restored
<1>3. manager[c].try_active /\ manager[c].try_buf = Innermost(c).buf
  BY <1>2 DEF LinkInv, NextLink
<1>4. Open(c) \in 1 .. Open(c) /\ blocks[c][Open(c)].buf = manager[c].try_buf
  BY <1>1, <1>2, <1>3 DEF Innermost
<1>5. DOMAIN blocks[c] = 1 .. Open(c)
  BY DEF Typed, TypeOK, Open
<1>6. /\ mcu' = mcu
      /\ \E i \in DOMAIN blocks[c] :
           /\ blocks[c][i].buf = manager[c].try_buf
           /\ blocks' = [blocks EXCEPT ![c] =
                Append(SubSeq(@, 1, i - 1), [@[i] EXCEPT !.at = "closing"])]
  <2> DEFINE depth == {i \in DOMAIN blocks[c] : blocks[c][i].buf = manager[c].try_buf}
  <2>1. depth # {}
    BY <1>4, <1>5
  <2> QED
    BY <2>1 DEF Land
<1>7. PICK i \in 1 .. Open(c) :
        /\ blocks[c][i].buf = manager[c].try_buf
        /\ blocks' = [blocks EXCEPT ![c] =
             Append(SubSeq(@, 1, i - 1), [@[i] EXCEPT !.at = "closing"])]
  BY <1>5, <1>6
<1>8. i = Open(c)
  <2>1. \A j \in 1 .. Open(c) - 1 : blocks[c][j].buf # blocks[c][Open(c)].buf
    BY <1>4 DEF ContextInv, StackInv
  <2> QED
    BY <1>1, <1>4, <1>7, <2>1
<1> DEFINE b == [Innermost(c) EXCEPT !.at = "closing"]
<1>9. /\ b \in Blocks /\ b.at = "closing" /\ b.buf = Innermost(c).buf
      /\ b.previous = Innermost(c).previous
  BY <1>2, BlockTyped DEF Blocks
<1>10. blocks' = [blocks EXCEPT ![c] = Append(SubSeq(@, 1, i - 1), b)]
  BY <1>7, <1>8 DEF Innermost, Typed, TypeOK
<1> HIDE DEF b
<1>11. Below(c, Open(c) - 1) /\ Open(c)' = Open(c) /\ Innermost(c)' = b
  BY <1>8, <1>9, <1>10, Replaced DEF Typed, TypeOK, Stacks
<1>12. Chained(c)'
  BY <1>2, <1>9, <1>11, ChainKept DEF LinkInv
<1>13. NextLink(c)'
  BY <1>1, <1>2, <1>3, <1>9, <1>11 DEF NextLink, Restored
<1>14. ClosedByThrow(c)'
  BY <1>1, <1>2, <1>11 DEF ClosedByThrow
<1> QED
  BY <1>6, <1>12, <1>13, <1>14 DEF LinkInv

LEMMA CloseLinks ==
  ASSUME Typed, NEW c \in Contexts, LinkInv(c), close_try(c)
  PROVE  LinkInv(c)'
<1>1. /\ Open(c) > 0 /\ Below(c, Open(c) - 1) /\ Open(c)' = Open(c)
      /\ Innermost(c)' = [Innermost(c) EXCEPT !.at = "testing",
                                              !.error = manager[c].current_error]
  BY CloseTyped
<1>2. /\ status[c] = "running" /\ status' = status /\ manager' = manager
      /\ At(c, "closing") /\ Innermost(c).at = "closing" /\ Open(c) \in Nat
  BY BlockTyped DEF close_try, CloseMasked, Runs, At
<1>3. /\ Innermost(c)'.at = "testing" /\ Innermost(c)'.previous = Innermost(c).previous
      /\ Innermost(c)'.buf = Innermost(c).buf
  BY <1>1, BlockTyped DEF Blocks
<1>4. Chained(c)'
  BY <1>1, <1>3, ChainKept DEF LinkInv
<1>5. manager[c].error_occurred /\ ~Restored(c)
  BY <1>2 DEF LinkInv, ClosedByThrow, Restored
<1>6. NextLink(c)'
  BY <1>1, <1>2, <1>3, <1>5 DEF LinkInv, NextLink, Restored
<1>7. ClosedByThrow(c)'
  BY <1>1, <1>2, <1>5 DEF ClosedByThrow
<1> QED
  BY <1>4, <1>6, <1>7 DEF LinkInv

LEMMA TestLinks ==
  ASSUME Typed, Owned, OuterBodies, NEW c \in Contexts, ContextInv(c), LinkInv(c), TestCatch(c)
  PROVE  LinkInv(c)'
<1>1. /\ Open(c) > 0 /\ Below(c, Open(c) - 1)
      /\ \/ /\ manager[em_ptr_global].error_occurred /\ Open(c)' = Open(c)
            /\ Innermost(c)' = [Innermost(c) EXCEPT !.at = "catch"]
         \/ ~manager[em_ptr_global].error_occurred /\ Open(c)' = Open(c) - 1
  BY TestTyped
<1>2. /\ c = cpu /\ status[c] = "running" /\ status' = status /\ manager' = manager
      /\ Innermost(c).at = "testing" /\ At(c, "testing")
      /\ em_ptr_global \in DOMAIN manager /\ Open(c) \in Nat /\ c \in DOMAIN manager
  BY <1>1, BlockTyped DEF TestCatch, Runs, At, Typed, TypeOK, Managed
<1>3. ~At(c, "closing")
  BY <1>2 DEF At
<1>4. CASE manager[em_ptr_global].error_occurred
  <2>1. em_ptr_global = c /\ manager[c].error_occurred
    BY <1>2, <1>4 DEF Owned, TestClear, Handling, LoopOwns
  <2>2. Open(c)' = Open(c) /\ Innermost(c)' = [Innermost(c) EXCEPT !.at = "catch"]
    BY <1>1, <1>4
  <2>3. /\ Innermost(c)'.at = "catch" /\ Innermost(c)'.previous = Innermost(c).previous
        /\ Innermost(c)'.buf = Innermost(c).buf
    BY <1>1, <2>2, BlockTyped DEF Blocks
  <2>4. Chained(c)'
    BY <1>1, <2>2, <2>3, ChainKept DEF LinkInv
  <2>5. NextLink(c)'
    BY <1>1, <1>2, <2>1, <2>2, <2>3 DEF LinkInv, NextLink, Restored
  <2>6. ClosedByThrow(c)'
    BY <1>1, <1>2, <2>1, <2>2 DEF ClosedByThrow
  <2> QED
    BY <2>4, <2>5, <2>6 DEF LinkInv
<1>5. CASE ~manager[em_ptr_global].error_occurred
  <2>1. ~manager[c].error_occurred
    <3>1. manager[c].error_occurred => InLoop(c)
      BY <1>2, <1>3 DEF Owned, ErrorPending
    <3>2. InLoop(c) => em_ptr_global = c
      BY <1>2 DEF Owned, LoopOwns
    <3> QED
      BY <1>5, <3>1, <3>2
  <2>2. /\ manager[c].try_active = Innermost(c).previous.try_active
        /\ manager[c].try_buf = Innermost(c).previous.try_buf
    <3>1. Restored(c) /\ Open(c) # 0
      BY <1>1, <1>2, <2>1 DEF Restored
    <3> QED
      BY <1>1, <3>1 DEF LinkInv, NextLink
  <2>3. Open(c)' = Open(c) - 1 /\ Open(c)' \in Nat /\ Open(c)' <= Open(c)
    BY <1>1, <1>2, <1>5
  <2>4. \A i \in 1 .. Open(c)' : blocks'[c][i] = blocks[c][i] /\ blocks[c][i].at = "body"
    BY <1>1, <2>3 DEF Below, OuterBodies
  <2>5. Innermost(c) = blocks[c][Open(c)]
    BY DEF Innermost
  <2>6. Chained(c)'
    <3>1. \A k \in 2 .. Open(c)' : /\ k \in 1 .. Open(c)' /\ k - 1 \in 1 .. Open(c)'
                                   /\ k \in 2 .. Open(c)
      BY <1>2, <2>3
    <3>2. Open(c)' > 0 => 1 \in 1 .. Open(c)'
      BY <2>3
    <3> QED
      BY <1>1, <2>4, <3>1, <3>2 DEF LinkInv, Chained
  <2>7. CASE Open(c) = 1
    <3>1. Open(c)' = 0 /\ ~manager[c].try_active
      BY <1>1, <2>2, <2>3, <2>5, <2>7 DEF LinkInv, Chained
    <3>2. NextLink(c)'
      BY <1>2, <3>1 DEF NextLink
    <3>3. ClosedByThrow(c)'
      BY <1>2, <3>1 DEF ClosedByThrow, At
    <3> QED
      BY <2>6, <3>2, <3>3 DEF LinkInv
  <2>8. CASE Open(c) # 1
    <3>1. /\ Open(c) \in 2 .. Open(c) /\ Open(c)' = Open(c) - 1
          /\ Open(c)' > 0 /\ Open(c)' # 0 /\ Open(c)' \in 1 .. Open(c)'
      BY <1>1, <1>2, <2>3, <2>8
    <3>2. Innermost(c)' = blocks[c][Open(c) - 1] /\ Innermost(c)'.at = "body"
      BY <2>4, <3>1 DEF Innermost
    <3>3. manager[c].try_active /\ manager[c].try_buf = Innermost(c)'.buf
      BY <2>2, <2>5, <3>1, <3>2 DEF LinkInv, Chained, ContextInv, StackInv
    <3>4. NextLink(c)'
      BY <1>2, <3>1, <3>2, <3>3 DEF NextLink, Restored, At
    <3>5. ClosedByThrow(c)'
      BY <1>2, <3>1, <3>2 DEF ClosedByThrow, At
    <3> QED
      BY <2>6, <3>4, <3>5 DEF LinkInv
  <2> QED
    BY <2>7, <2>8
<1> QED
  BY <1>4, <1>5

LEMMA CatchLinks ==
  ASSUME Typed, Owned, NEW c \in Contexts, LinkInv(c), FinishCatch(c)
  PROVE  LinkInv(c)'
<1>1. /\ Open(c) > 0 /\ Below(c, Open(c) - 1) /\ Open(c)' = Open(c)
      /\ Innermost(c)' = [Innermost(c) EXCEPT !.at = "testing"]
  BY CatchTyped
<1>2. /\ c = cpu /\ status[c] = "running" /\ status' = status /\ At(c, "catch")
      /\ manager' = [manager EXCEPT ![em_ptr_global] = previous_global]
      /\ Open(c) \in Nat
  BY BlockTyped DEF FinishCatch, Finish, Runs
<1>3. /\ Innermost(c)'.at = "testing" /\ Innermost(c)'.previous = Innermost(c).previous
      /\ Innermost(c)'.buf = Innermost(c).buf
  BY <1>1, BlockTyped DEF Blocks
<1>4. /\ em_ptr_global = c /\ previous_global = Innermost(c).previous
      /\ ~previous_global.error_occurred /\ c \in DOMAIN manager
  BY <1>1, <1>2 DEF Owned, LoopOwns, InLoop, SavedClean, Typed, Managed
<1>5. manager'[c] = Innermost(c).previous /\ ~manager'[c].error_occurred
  BY <1>2, <1>4
<1>6. Chained(c)'
  BY <1>1, <1>3, ChainKept DEF LinkInv
<1>7. NextLink(c)'
  <2>1. Restored(c)' /\ Open(c)' > 0 /\ Open(c)' # 0
    BY <1>1, <1>2, <1>3, <1>5 DEF Restored, At
  <2> QED
    BY <1>3, <1>5, <2>1 DEF NextLink
<1>8. ClosedByThrow(c)'
  BY <1>1, <1>2, <1>3 DEF ClosedByThrow, At
<1> QED
  BY <1>6, <1>7, <1>8 DEF LinkInv

LEMMA LinkInit == Init => ArmedInv
<1> SUFFICES ASSUME Init PROVE ArmedInv
  OBVIOUS
<1>1. \A c \in Contexts : Open(c) = 0 /\ status[c] = "running"
  BY DEF Init, Open
<1>2. \A c \in Contexts : c \in DOMAIN manager => ~manager[c].try_active
  BY DEF Init, Fresh
<1>3. ASSUME NEW c \in Contexts PROVE LinkInv(c)
  <2>1. NextLink(c)
    BY <1>1, <1>2 DEF NextLink
  <2>2. Chained(c) /\ ClosedByThrow(c)
    BY <1>1 DEF Chained, ClosedByThrow, At
  <2> QED
    BY <2>1, <2>2 DEF LinkInv
<1>4. mcu # "undefined"
  BY DEF Init
<1> QED
  BY <1>3, <1>4, CaughtInit DEF ArmedInv

LEMMA OwnLink ==
  ASSUME Typed, Owned, OuterBodies, AllThrow, NEW c \in Contexts, ContextInv(c), LinkInv(c),
         Library(c) \/ Application(c)
  PROVE  LinkInv(c)' /\ mcu' # "undefined"
<1>1. ~FinishBody(c)
  BY DEF FinishBody, AllThrow
<1>2. error_throw(c) => LinkInv(c)'
  BY ThrowLinks DEF error_throw, InUserCode, Runs
<1>3. LinkInv(c)'
  BY <1>1, <1>2, TryLinks, LandLinks, CloseLinks, TestLinks, CatchLinks DEF Library, Application
<1>4. mcu = "up"
  BY DEF Library, Application, Land, close_try, CloseMasked, TestCatch, FinishCatch, Finish,
         error_try, FinishBody, error_throw, InUserCode, Runs
<1>5. mcu' = mcu \/ mcu' = "blocked"
  <2>1. Land(c) => mcu' = mcu
    BY LandLinks
  <2> QED
    BY <1>1, <2>1
    DEF Library, Application, close_try, CloseMasked, TestCatch, FinishCatch, Finish,
        error_try, error_throw, Throw, JumpToCatch, Jump, DeleteTask, BlockMcu, processor
<1> QED
  BY <1>3, <1>4, <1>5

LEMMA OtherLink ==
  ASSUME Typed, Owned, NEW c \in Contexts, ContextInv(c), Library(c) \/ Application(c),
         NEW d \in Contexts, d # c, LinkInv(d)
  PROVE  LinkInv(d)'
<1>1. blocks'[d] = blocks[d]
  <2>1. blocks' = blocks \/ \E s : blocks' = [blocks EXCEPT ![c] = s]
    BY DEF Library, Application, Land, close_try, CloseMasked, TestCatch, FinishCatch, Finish,
           error_try, FinishBody, error_throw, Throw, Move
  <2> QED
    BY <2>1 DEF Typed, TypeOK
<1>2. status'[d] = status[d]
  BY DEF Library, Application, Land, close_try, CloseMasked, TestCatch, FinishCatch, Finish,
         error_try, FinishBody, error_throw, Throw, JumpToCatch, Jump, DeleteTask, BlockMcu,
         Typed, TypeOK
<1>3. /\ d \in DOMAIN manager' => d \in DOMAIN manager
      /\ d \in DOMAIN manager => manager'[d] = manager[d]
  <2>1. CASE error_try(c)
    BY <2>1 DEF error_try
  <2>2. CASE FinishCatch(c)
    <3>1. \A e \in DOMAIN manager \ {c} : manager'[e] = manager[e]
      BY <2>2, CatchCaught
    <3>2. DOMAIN manager' = DOMAIN manager
      BY <2>2 DEF FinishCatch, Finish
    <3> QED
      BY <3>1, <3>2
  <2>3. CASE error_throw(c)
    BY <2>3 DEF error_throw, Throw, JumpToCatch, Jump, DeleteTask, BlockMcu
  <2>4. CASE Land(c) \/ close_try(c) \/ TestCatch(c) \/ FinishBody(c)
    BY <2>4 DEF Land, close_try, CloseMasked, TestCatch, FinishBody
  <2> QED
    BY <2>1, <2>2, <2>3, <2>4 DEF Library, Application
<1>4. Open(d) > 0 => d \in DOMAIN manager
  BY DEF Typed, Managed
<1> QED
  BY <1>1, <1>2, <1>3, <1>4, LinkKept

LEMMA LinkStep == ArmedInv /\ [Next]_vars => ArmedInv'
<1> SUFFICES ASSUME ArmedInv, [Next]_vars PROVE ArmedInv'
  OBVIOUS
<1>1. CaughtInv' /\ Typed
  BY CaughtStep DEF ArmedInv, CaughtInv, OwnInv
<1>2. AllThrow' => AllThrow
  BY OrderlyKept DEF AllThrow, Has
<1>3. ASSUME AllThrow
      PROVE  /\ \A d \in Contexts : LinkInv(d)'
             /\ mcu' = "undefined" => Has("interrupt throws")
  <2>1. CASE UNCHANGED <<blocks, status, manager, mcu>>
    BY <1>1, <1>3, <2>1, LinkKept DEF ArmedInv
  <2>2. CASE StartScheduler \/ Preempt
    BY <2>1, <2>2 DEF StartScheduler, Preempt
  <2>3. CASE InterruptThrow
    BY <1>1, <1>3, <2>3, LinkKept DEF ArmedInv, InterruptThrow
  <2>4. ASSUME NEW c \in Contexts, Library(c) \/ Application(c)
        PROVE  (\A d \in Contexts : LinkInv(d)') /\ mcu' # "undefined"
    <3>1. mcu = "up"
      BY <2>4 DEF Library, Application, Land, close_try, CloseMasked, TestCatch, FinishCatch,
                  Finish, error_try, FinishBody, error_throw, InUserCode, Runs
    <3>2. Owned /\ OuterBodies /\ ContextInv(c) /\ LinkInv(c)
      BY <1>3, <3>1 DEF ArmedInv, CaughtInv, OwnInv, AllThrow
    <3>3. LinkInv(c)' /\ mcu' # "undefined"
      BY <1>1, <1>3, <2>4, <3>2, OwnLink
    <3>4. \A d \in Contexts : d # c => LinkInv(d)'
      BY <1>1, <1>3, <2>4, <3>2, OtherLink DEF ArmedInv
    <3> QED
      BY <3>3, <3>4
  <2> QED
    BY <2>1, <2>2, <2>3, <2>4 DEF Next, vars, processor
<1> QED
  BY <1>1, <1>2, <1>3, OrderlyKept DEF ArmedInv, Has

LEMMA ArmedMeansWrapped == ArmedInv => JumpsAreArmed
<1> SUFFICES ASSUME ArmedInv, AllThrow PROVE TryActiveMeansWrapped
  BY DEF ArmedInv, JumpsAreArmed, AllThrow
<1> SUFFICES ASSUME NEW c \in DOMAIN manager, InUserCode(c), ~At(c, "catch")
             PROVE  /\ manager[c].try_active <=> Open(c) > 0
                    /\ manager[c].try_active => manager[c].try_buf = Innermost(c).buf
  BY DEF TryActiveMeansWrapped
<1>1. c \in Contexts /\ Open(c) \in Nat /\ LinkInv(c)
  BY BlockTyped DEF ArmedInv, CaughtInv, OwnInv, Typed, TypeOK
<1>2. CASE Open(c) = 0
  BY <1>1, <1>2 DEF LinkInv, NextLink
<1>3. CASE Open(c) > 0
  <2>1. ~Restored(c)
    BY <1>3 DEF InUserCode, Restored, At
  <2> QED
    BY <1>1, <1>3, <2>1 DEF LinkInv, NextLink
<1> QED
  BY <1>1, <1>2, <1>3

\* error.h: in a program whose tries end with errors, the jump buffer of a throw is that of
\* the try around it, and no throw of a context jumps into a frame that is gone, however
\* tries nest and tasks preempt each other, in an Orderly execution of a program whose
\* malloc returns zeroed memory.
THEOREM ThrowsAreArmed == Spec => []JumpsAreArmed
BY ArmedMeansWrapped, LinkInit, LinkStep, PTL DEF Spec

=============================================================================
